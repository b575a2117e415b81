--------------------------- MODULE FileLaneProofs ---------------------------
(***************************************************************************)
(* A file lane keeps its fences and its disk charges, for every number of   *)
(* files, chunks, conflict names and failures.                              *)
(***************************************************************************)
EXTENDS FileLane, TLAPS

\* A leaf goes to Zenon, which knows sets, functions and records; one that needs
\* arithmetic or sequences names SMT.
USE ZenonT(60)

\* Files are positive numbers; none of them is Local or None.
LEMMA FilesAreNumbers ==
    /\ \A f \in Files : f \in Nat /\ f > 0 /\ f # None
    /\ Files \subseteq Nat /\ Local \notin Files /\ None \notin Files
    /\ Cardinality(Files) \in Nat
  BY LaneAssumption, NoneAssumption, SMTT(30) DEF Local

-----------------------------------------------------------------------------
(* The sender.                                                             *)

\* What a transfer and its source are about to send fits the transfer's stage.
Packing(t, src) ==
    /\ t.result # None <=> t.stage = "Finished"
    /\ t.pending => t.ready = None /\ t.packet = None
    /\ t.ready = None \/ t.packet = None
    /\ src.pc = "prepare" => src.mail = None /\ ~ src.asked
    /\ t.result = None =>
         /\ ~ t.pending => src.mail \in {None, "Error"}
         /\ src.pc = "prepare" => t.stage = "Preparing" /\ t.pending
         /\ t.stage = "Preparing" =>
              /\ t.packet \in {None, "Prepared"} /\ t.ready \in {None, "Prepared"}
              /\ src.mail \in {None, "Prepared", "Error"} /\ ~ src.asked
         /\ t.stage = "Streaming" =>
              t.packet # "Prepared" /\ t.ready # "Prepared" /\ src.mail # "Prepared"
         /\ t.stage \in {"AwaitingAcceptance", "AwaitingProof"} =>
              t.packet = None /\ t.ready = None /\ ~ t.pending
         /\ src.asked => t.pending /\ src.mail \in {None, "Error"}
         /\ t.admitted <=> t.stage = "AwaitingProof"

\* The selection is worked off in order, and goes on only after a durable file.
Selected(s) ==
    /\ \A i \in 1..Len(s.queue) : s.queue[i] = s.queue[1] + i - 1
    /\ s.stop # None => s.queue = << >>
    /\ s.complete => s.queue = << >> /\ s.transfer = None
    /\ s.transfer # None =>
         /\ s.queue # << >> => s.queue[1] = s.transfer.file + 1
         /\ \A g \in Files : /\ g < s.transfer.file => s.receipts[g] = "Durable"
                             /\ g > s.transfer.file => s.receipts[g] = None
         /\ s.receipts[s.transfer.file] = IF s.recorded THEN s.transfer.result ELSE None
         /\ s.recorded => s.transfer.result # None
         /\ s.recorded /\ s.transfer.result # "Durable" => s.stop # None
    /\ s.transfer = None /\ s.queue # << >> =>
         \A g \in Files : s.receipts[g] = IF g < s.queue[1] THEN "Durable" ELSE None

\* A sender within a turn, and between turns: every result is in the report.
Loose(s) ==
    /\ s \in S!SenderType /\ Selected(s)
    /\ s.transfer # None => Packing(s.transfer, s.src)

Fit(s) == Loose(s) /\ (s.transfer # None /\ s.transfer.result # None => s.recorded)

\* Sender::start_selected.
LEMMA StartedFacts ==
    ASSUME NEW s, Fit(s), S!Starts(s)
    PROVE  LET u == S!Started(s)
           IN /\ Fit(u) /\ u.closed = s.closed /\ u.receipts = s.receipts
              /\ u.transfer = S!NewTransfer(s.queue[1]) /\ u.transfer # None
              /\ s.queue[1] \in Files /\ u.queue = Tail(s.queue)
<1> DEFINE u == S!Started(s)
           f == s.queue[1]
           t == S!NewTransfer(f)
<1>1. s \in S!SenderType /\ Selected(s) BY DEF Fit, Loose
<1> USE <1>1
<1>2. s.queue \in Seq(Files) /\ s.queue # << >> /\ s.transfer = None
  BY DEF S!SenderType, S!Starts
<1> USE <1>2
<1>3. f \in Files /\ f = Head(s.queue) /\ Tail(s.queue) \in Seq(Files)
  BY SMTT(30)
<1> USE <1>3
<1>4. t \in S!Transfers BY DEF S!NewTransfer, S!Transfers, S!Stages
<1>5. t # None BY <1>4, NoneAssumption
<1>6. S!NewSource \in S!SourceType BY DEF S!NewSource, S!NoSource, S!SourceType
<1>7. /\ t.file = f /\ t.stage = "Preparing" /\ t.pending = TRUE /\ t.ready = None
      /\ t.packet = None /\ t.admitted = FALSE /\ t.result = None BY DEF S!NewTransfer
<1> USE <1>7
<1>8. Packing(t, S!NewSource) BY DEF Packing, S!NewSource, S!NoSource
<1>9. u = [s EXCEPT !.transfer = t, !.queue = Tail(s.queue), !.src = S!NewSource,
                    !.recorded = FALSE]
  BY DEF S!Started, S!SenderType
<1> HIDE DEF t
<1>10. /\ u \in S!SenderType /\ u.closed = s.closed /\ u.receipts = s.receipts
       /\ u.recorded = FALSE /\ u.stop = s.stop /\ u.complete = s.complete
       /\ u.queue = Tail(s.queue) /\ u.transfer = t /\ u.src = S!NewSource
  BY <1>4, <1>6, <1>9 DEF S!SenderType
<1> USE <1>10
<1> HIDE DEF u
<1>11. Selected(u)
  <2>1. \A i \in 1..Len(s.queue) : s.queue[i] = f + i - 1 BY DEF Selected
  <2>2. \A i \in 1..Len(u.queue) : u.queue[i] = f + i
    <3>1. SUFFICES ASSUME NEW i \in 1..Len(u.queue) PROVE u.queue[i] = f + i OBVIOUS
    <3>2. Len(s.queue) \in Nat /\ Len(u.queue) = Len(s.queue) - 1 BY SMTT(30)
    <3>3. i + 1 \in 1..Len(s.queue) BY <3>2, SMTT(30)
    <3>4. u.queue[i] = s.queue[i + 1] BY <3>1, SMTT(30)
    <3>5. s.queue[i + 1] = f + (i + 1) - 1 BY <2>1, <3>3
    <3>6. f \in Nat BY FilesAreNumbers
    <3> QED BY <3>1, <3>4, <3>5, <3>6, SMTT(30)
  <2>3. Len(u.queue) \in Nat /\ (u.queue # << >> => 1 \in 1..Len(u.queue)) BY SMTT(30)
  <2>4. \A g \in Files : s.receipts[g] = IF g < f THEN "Durable" ELSE None
    BY DEF Selected
  <2>0. f \in Nat BY FilesAreNumbers
  <2> USE <2>0
  <2> HIDE DEF f
  <2>5. \A g \in Files : /\ g < f => u.receipts[g] = "Durable"
                         /\ g > f => u.receipts[g] = None
    BY <2>4, FilesAreNumbers, SMTT(30)
  <2>6. u.receipts[f] = None BY <2>4, SMTT(30)
  <2>7. \A i \in 1..Len(u.queue) : u.queue[i] = u.queue[1] + i - 1
    <3>1. SUFFICES ASSUME NEW i \in 1..Len(u.queue) PROVE u.queue[i] = u.queue[1] + i - 1 OBVIOUS
    <3>2. i \in Int /\ 1 \in 1..Len(u.queue) BY <2>3, SMTT(30)
    <3>3. u.queue[i] = f + i /\ u.queue[1] = f + 1 BY <2>2, <3>1, <3>2
    <3> QED BY <3>2, <3>3, SMTT(30)
  <2>8. s.stop = None BY DEF S!Starts
  <2>9. ~ s.complete BY DEF Selected
  <2>10. u.queue # << >> => u.queue[1] = f + 1 BY <2>2, <2>3
  <2> QED BY <1>5, <2>5, <2>6, <2>7, <2>8, <2>9, <2>10 DEF Selected
<1>12. Fit(u) BY <1>8, <1>11 DEF Fit, Loose
<1> QED BY <1>5, <1>12 DEF u, t

\* The selection is not touched.
Keeps(s, u) ==
    /\ u.queue = s.queue /\ u.stop = s.stop /\ u.complete = s.complete
    /\ u.recorded = s.recorded /\ u.receipts = s.receipts /\ u.closed = s.closed

\* A sender with another transfer, source and flight.
With(s, t, c, n) == [s EXCEPT !.transfer = t, !.src = c, !.flight = n]

LEMMA ChangesKeep ==
    ASSUME NEW s \in S!SenderType, NEW t \in S!Transfers, NEW c \in S!SourceType, NEW n \in Nat
    PROVE  /\ With(s, t, c, n) \in S!SenderType /\ Keeps(s, With(s, t, c, n))
           /\ With(s, t, c, n).transfer = t /\ With(s, t, c, n).src = c
           /\ With(s, t, c, n).flight = n
           /\ t # None /\ With(s, t, c, n) # None
<1>1. t # None BY NoneAssumption
<1>2. With(s, t, c, n) \in S!SenderType BY DEF S!SenderType, With
<1>3. With(s, t, c, n) # None BY <1>2, NoneAssumption
<1> QED BY <1>1, <1>2, <1>3 DEF S!SenderType, Keeps, With

\* One transfer goes on within its selection.
LEMMA GoesOn ==
    ASSUME NEW s, Loose(s), s.transfer # None,
           NEW u \in S!SenderType, Keeps(s, u), u.transfer # None,
           u.transfer.file = s.transfer.file,
           u.transfer.result = s.transfer.result \/ s.transfer.result = None,
           Packing(u.transfer, u.src)
    PROVE  Loose(u) /\ (Fit(s) /\ u.transfer.result = s.transfer.result => Fit(u))
<1>1. s.recorded => s.transfer.result # None BY DEF Loose, Selected
<1>2. Selected(u) BY <1>1 DEF Loose, Selected, Keeps
<1>3. Loose(u) BY <1>2 DEF Loose
<1> QED BY <1>3 DEF Fit, Keeps

\* The parts of a sender at work on a transfer.
LEMMA AtWork ==
    ASSUME NEW s, Loose(s), s.transfer # None
    PROVE  /\ s \in S!SenderType /\ s.transfer \in S!Transfers /\ s.src \in S!SourceType
           /\ s.flight \in Nat /\ Packing(s.transfer, s.src)
           /\ s = With(s, s.transfer, s.src, s.flight)
BY DEF Loose, S!SenderType, With

\* Transfer::reply, for a reply that is expected.
LEMMA HeardFacts ==
    ASSUME NEW s, Fit(s), NEW r \in Replies, ~ S!Unexpected(s.transfer, r)
    PROVE  LET u == S!Heard(s, r)
           IN /\ Loose(u) /\ Keeps(s, u) /\ s.transfer # None /\ s.transfer.result = None
              /\ s.transfer.file = r.file
              /\ r.kind = "Accept" => s.transfer.stage = "AwaitingAcceptance" /\ Fit(u)
              /\ r.kind \in S!Published => s.transfer.stage = "AwaitingProof"
              /\ u # None /\ u.transfer # None
              /\ u.transfer.file = r.file /\ u.transfer.admitted = s.transfer.admitted
              /\ u.transfer.stage # "Preparing"
              /\ u.transfer.result = IF r.kind = "Accept" THEN None ELSE r.kind
<1> DEFINE t == s.transfer
           u == S!Heard(s, r)
<1>1. /\ t # None /\ t.result = None /\ t.file = r.file /\ t.stage # "Preparing"
      /\ r.kind = "Accept" => t.stage = "AwaitingAcceptance"
      /\ r.kind \in S!Published => t.stage = "AwaitingProof"
  BY DEF S!Unexpected
<1> USE <1>1
<1>2. r # None BY NoneAssumption
<1>3. Loose(s) BY DEF Fit
<1> USE <1>3
<1>4. /\ s \in S!SenderType /\ t \in S!Transfers /\ s.src \in S!SourceType
      /\ s.flight \in Nat /\ Packing(t, s.src)
  BY AtWork
<1> USE <1>4
<1>5. CASE r.kind = "Accept"
  <2> USE <1>5
  <2> DEFINE v == [t EXCEPT !.stage = "Streaming"]
  <2>1. u = With(s, v, s.src, s.flight)
    BY <1>2 DEF S!Heard, S!SenderType, With
  <2>2. v \in S!Transfers BY DEF S!Transfers, S!Stages
  <2>3. /\ v.file = t.file /\ v.stage = "Streaming" /\ v.pending = t.pending /\ v.ready = t.ready
        /\ v.packet = t.packet /\ v.admitted = t.admitted /\ v.result = t.result
    BY DEF S!Transfers
  <2> USE <2>3
  <2>4. Packing(v, s.src)
    <3>1. v.result = None /\ t.stage = "AwaitingAcceptance" OBVIOUS
    <3>2. s.src.mail # "Prepared" BY <3>1, NoneAssumption DEF Packing, S!Packets
    <3>3. None # "Prepared" BY NoneAssumption DEF S!Packets
    <3> HIDE DEF v
    <3> QED BY <3>1, <3>2, <3>3 DEF Packing
  <2> HIDE DEF v
  <2>5. /\ u \in S!SenderType /\ Keeps(s, u) /\ u.transfer = v /\ u.src = s.src
        /\ v # None /\ u # None
    BY <2>1, <2>2, ChangesKeep, SMTT(30)
  <2> HIDE DEF u
  <2>6. Loose(u) /\ Fit(u) BY <2>4, <2>5, GoesOn
  <2> QED BY <2>5, <2>6 DEF u
<1>6. CASE r.kind # "Accept"
  <2> USE <1>6
  <2> DEFINE v == [t EXCEPT !.stage = "Finished", !.result = r.kind]
  <2>1. u = With(s, v, s.src, s.flight)
    BY <1>2 DEF S!Heard, S!SenderType, With
  <2>0. r.kind \in S!Outcomes /\ r.kind # None
    BY NoneAssumption DEF S!Outcomes, Replies
  <2>2. v \in S!Transfers BY <2>0 DEF S!Transfers, S!Stages
  <2>3. /\ v.file = t.file /\ v.stage = "Finished" /\ v.pending = t.pending /\ v.ready = t.ready
        /\ v.packet = t.packet /\ v.admitted = t.admitted /\ v.result = r.kind
    BY DEF S!Transfers
  <2> USE <2>3
  <2>4. Packing(v, s.src)
    <3> HIDE DEF v
    <3> QED BY <2>0 DEF Packing
  <2> HIDE DEF v
  <2>5. /\ u \in S!SenderType /\ Keeps(s, u) /\ u.transfer = v /\ u.src = s.src
        /\ v # None /\ u # None
    BY <2>1, <2>2, ChangesKeep, SMTT(30)
  <2> HIDE DEF u
  <2>6. Loose(u) BY <2>4, <2>5, GoesOn
  <2> QED BY <2>5, <2>6 DEF u
<1> QED BY <1>5, <1>6

\* The same transfer, further on.
Still(s, u) ==
    /\ u # None /\ Fit(u) /\ Keeps(s, u) /\ u.transfer # None
    /\ u.transfer.file = s.transfer.file /\ u.transfer.result = s.transfer.result

\* A sender whose transfer has no result yet.
Working(s) == Fit(s) /\ s.transfer # None /\ s.transfer.result = None

-----------------------------------------------------------------------------
(* A turn of the sender is at most one start, one reply, one packet and one *)
(* end.                                                                     *)

\* What the report will say of a transfer that ends now.
Outcome(t) == IF t.result = None THEN S!GivenUp(t) ELSE t.result

\* A transfer, if any, ends: its outcome is in the report.
Ends(s, u) ==
    /\ Fit(u) /\ (u.queue = s.queue \/ u.queue = << >>)
    /\ s.transfer = None => u.transfer = None /\ u.receipts = s.receipts
    /\ s.transfer # None =>
         /\ u.receipts = [s.receipts EXCEPT ![s.transfer.file] = Outcome(s.transfer)]
         /\ Outcome(s.transfer) # "Durable" => u.queue = << >>
         /\ \/ u.transfer = None
            \/ /\ u.transfer # None /\ u.transfer.file = s.transfer.file
               /\ u.transfer.admitted = s.transfer.admitted
               /\ u.transfer.result = Outcome(s.transfer)

\* The transfer goes on, and at most one packet of it enters the stream q.
Sent(s, u, q, q2) ==
    /\ Working(s) /\ Still(s, u)
    /\ \/ /\ q2 = q
          /\ u.transfer.admitted = s.transfer.admitted /\ u.transfer.stage = s.transfer.stage
       \/ \E p \in S!Packets :
            /\ q2 = Append(q, Answer(p, s.transfer.file))
            /\ p = "Prepared" <=> s.transfer.stage = "Preparing"
            /\ ~ s.transfer.admitted /\ (u.transfer.admitted <=> p = "End")
            /\ u.transfer.stage # "Preparing"

\* The four parts of a turn, with the sender after each.
Chain(s, h, u) ==
    /\ s = tx \/ (S!Starts(tx) /\ s = S!Started(tx))
    /\ \/ h = s /\ toSender' = toSender
       \/ /\ toSender # << >> /\ toSender' = Tail(toSender)
          /\ h = s \/ (~ S!Unexpected(s.transfer, Head(toSender)) /\ h = S!Heard(s, Head(toSender)))
    /\ (u = h /\ toHost' = toHost) \/ Sent(h, u, toHost, toHost')
    /\ (tx' = u /\ Fit(u)) \/ Ends(u, tx')

LEMMA TurnShape ==
    ASSUME Fit(tx), toSender \in Seq(Replies), SenderTurn \/ SenderCancels
    PROVE  \E s, h, u : Chain(s, h, u)

\* Batch::stop keeps everything but the queue and the reason.
<1>BatchStopFacts.
    ASSUME NEW s \in S!SenderType, NEW reason \in S!Outcomes \cup {"Local", "Cleanup"}
    PROVE  LET b == S!BatchStop(s, reason)
           IN /\ b \in S!SenderType
              /\ b.transfer = s.transfer /\ b.src = s.src /\ b.recorded = s.recorded
              /\ b.receipts = s.receipts /\ b.complete = s.complete /\ b.closed = s.closed
              /\ s.complete => b = s
              /\ ~ s.complete => b.stop # None /\ b.queue = << >>
  <2> DEFINE b == S!BatchStop(s, reason)
  <2>1. CASE s.complete BY <2>1 DEF S!BatchStop
  <2>2. CASE ~ s.complete
    <3> USE <2>2
    <3> DEFINE r == IF s.stop = None THEN reason ELSE s.stop
    <3>1. r \in S!Outcomes \cup {"Local", "Cleanup"} BY DEF S!SenderType
    <3>2. r # None BY <3>1, NoneAssumption
    <3>3. b = [s EXCEPT !.stop = r, !.queue = << >>] BY DEF S!BatchStop
    <3> HIDE DEF r
    <3>4. /\ b.transfer = s.transfer /\ b.src = s.src /\ b.recorded = s.recorded
          /\ b.receipts = s.receipts /\ b.complete = s.complete /\ b.closed = s.closed
          /\ b.stop = r /\ b.queue = << >>
      BY <3>3 DEF S!SenderType
    <3>5. b \in S!SenderType
      <4>1. [s EXCEPT !.stop = r] \in S!SenderType BY <3>1 DEF S!SenderType
      <4>2. << >> \in Seq(Files) BY SMTT(30)
      <4> DEFINE a == [s EXCEPT !.stop = r]
      <4>3. b = [a EXCEPT !.queue = << >>] BY <3>3
      <4> HIDE DEF a
      <4> QED BY <4>1, <4>2, <4>3 DEF S!SenderType, a
    <3> QED BY <3>2, <3>4, <3>5
  <2> QED BY <2>1, <2>2

<1>BatchStopLoose.
    ASSUME NEW s, Loose(s), NEW reason \in S!Outcomes \cup {"Local", "Cleanup"}
    PROVE  Loose(S!BatchStop(s, reason))
  <2> USE <1>BatchStopLoose
  <2> DEFINE b == S!BatchStop(s, reason)
  <2>0. s \in S!SenderType BY DEF Loose
  <2>1. CASE s.complete BY <2>1 DEF S!BatchStop
  <2>2. CASE ~ s.complete
    <3>1. /\ b \in S!SenderType
          /\ b.transfer = s.transfer /\ b.src = s.src /\ b.recorded = s.recorded
          /\ b.receipts = s.receipts /\ ~ b.complete
          /\ b.stop # None /\ b.queue = << >>
      BY <2>0, <2>2, <1>BatchStopFacts, SMTT(30)
    <3> HIDE DEF b
    <3>2. Selected(b) BY <3>1, SMTT(30) DEF Loose, Selected
    <3>3. Loose(b) BY <3>1, <3>2 DEF Loose
    <3> QED BY <3>3 DEF b
  <2> QED BY <2>1, <2>2

\* What giving up does to a transfer.
<1>GivenUpTransfer.
    ASSUME NEW t \in S!Transfers, NEW src, Packing(t, src)
    PROVE  LET g == [t EXCEPT !.ready = None, !.packet = None, !.stage = "Finished",
                              !.result = IF @ = None THEN S!GivenUp(t) ELSE @]
           IN /\ g \in S!Transfers /\ g.file = t.file /\ g.admitted = t.admitted
              /\ g.stage = "Finished" /\ g.ready = None /\ g.packet = None
              /\ g.result # None
              /\ t.result # None => g.result = t.result
              /\ t.result = None => g.result = S!GivenUp(t)
  <2> USE <1>GivenUpTransfer
  <2>1. S!GivenUp(t) \in S!Outcomes BY DEF S!GivenUp, S!Outcomes
  <2>2. \A o \in S!Outcomes : o # None BY NoneAssumption
  <2> QED BY <2>1, <2>2 DEF S!Transfers, S!Stages

\* Sender::fail.
<1>FailFacts.
    ASSUME NEW s, Loose(s)
    PROVE  LET f == S!Fail(s)
           IN /\ Loose(f) /\ f.closed /\ f.receipts = s.receipts /\ f.recorded = s.recorded
              /\ f.queue = << >>
              /\ s.transfer = None => f.transfer = None
              /\ s.transfer # None =>
                   /\ f.transfer # None /\ f.transfer.file = s.transfer.file
                   /\ f.transfer.admitted = s.transfer.admitted
                   /\ f.transfer.result # None
                   /\ s.transfer.result # None => f.transfer.result = s.transfer.result
                   /\ s.transfer.result = None => f.transfer.result = S!GivenUp(s.transfer)
  <2> USE <1>FailFacts
  <2> DEFINE b == S!BatchStop(s, "Local")
             t == b.transfer
             c == [b EXCEPT !.closed = TRUE, !.src.stop = TRUE]
             g == [t EXCEPT !.ready = None, !.packet = None, !.stage = "Finished",
                            !.result = IF @ = None THEN S!GivenUp(t) ELSE @]
             f == S!Fail(s)
  <2>0. s \in S!SenderType BY DEF Loose
  <2>1. Loose(b) /\ b \in S!SenderType BY <1>BatchStopLoose DEF Loose
  <2> USE <2>1
  <2>2. /\ b.transfer = s.transfer /\ b.src = s.src /\ b.recorded = s.recorded
        /\ b.receipts = s.receipts /\ b.queue = << >>
    BY <2>0, <1>BatchStopFacts DEF Loose, Selected
  <2> HIDE DEF b
  <2>3. /\ c \in S!SenderType /\ c.transfer = t /\ c.closed /\ c.recorded = b.recorded
        /\ c.receipts = b.receipts /\ c.queue = b.queue /\ c.stop = b.stop
        /\ c.complete = b.complete /\ c.src = [b.src EXCEPT !.stop = TRUE]
    BY DEF S!SenderType, S!SourceType
  <2> USE <2>3
  <2>4. /\ c.src.pc = b.src.pc /\ c.src.mail = b.src.mail /\ c.src.asked = b.src.asked
    BY DEF S!SenderType, S!SourceType
  <2>5. Loose(c)
    <3>1. Selected(c) BY SMTT(30) DEF Loose, Selected
    <3>2. t # None => Packing(t, c.src) BY <2>4 DEF Loose, Packing
    <3> QED BY <3>1, <3>2 DEF Loose
  <2> USE <2>5
  <2>6. CASE t = None
    <3> USE <2>6
    <3>1. f = c BY DEF S!Fail, b
    <3> HIDE DEF c, f
    <3> QED BY <2>2, <3>1 DEF f
  <2>7. CASE t # None
    <3> USE <2>7
    <3>1. t \in S!Transfers /\ Packing(t, b.src) BY DEF S!SenderType, Loose
    <3>2. /\ g \in S!Transfers /\ g.file = t.file /\ g.admitted = t.admitted
          /\ g.stage = "Finished" /\ g.ready = None /\ g.packet = None
          /\ g.result # None
          /\ t.result # None => g.result = t.result
          /\ t.result = None => g.result = S!GivenUp(t)
      BY <3>1, <1>GivenUpTransfer
    <3> USE <3>2
    <3>3. f = [c EXCEPT !.transfer = g] BY DEF S!Fail, b
    <3> HIDE DEF c, g, f
    <3>4. /\ f \in S!SenderType /\ f.transfer = g /\ f.closed = c.closed /\ f.recorded = c.recorded
          /\ f.receipts = c.receipts /\ f.queue = c.queue /\ f.stop = c.stop
          /\ f.complete = c.complete /\ f.src = c.src
      BY <3>3 DEF S!SenderType
    <3> USE <3>4
    <3>5. g # None BY NoneAssumption
    <3>6. Selected(f) BY <3>5, SMTT(30) DEF Loose, Selected
    <3>7. Packing(g, f.src) BY DEF Packing, Loose
    <3>8. Loose(f) BY <3>6, <3>7 DEF Loose
    <3>9. f.closed OBVIOUS
    <3> QED BY <2>2, <3>5, <3>8, <3>9, SMTT(30) DEF f
  <2> QED BY <2>6, <2>7

\* Sender::retire touches only the lane's own flags.
<1>RetireFacts.
    ASSUME NEW s, Loose(s)
    PROVE  LET u == S!Retire(s)
           IN /\ Loose(u) /\ u.closed /\ u.receipts = s.receipts /\ u.recorded = s.recorded
              /\ u.queue = s.queue /\ u.transfer = s.transfer /\ u.src = s.src
              /\ u.complete = s.complete
  <2> USE <1>RetireFacts
  <2> DEFINE u == S!Retire(s)
  <2>1. s \in S!SenderType BY DEF Loose
  <2>2. /\ u \in S!SenderType /\ u.closed = TRUE /\ u.receipts = s.receipts
        /\ u.recorded = s.recorded /\ u.stop = s.stop
        /\ u.queue = s.queue /\ u.transfer = s.transfer /\ u.src = s.src /\ u.complete = s.complete
    BY <2>1 DEF S!Retire, S!SenderType
  <2> USE <2>2
  <2> HIDE DEF u
  <2>3. Selected(u) BY SMTT(30) DEF Loose, Selected
  <2>4. Loose(u) BY <2>3 DEF Loose
  <2>5. u.closed OBVIOUS
  <2> QED BY <2>4, <2>5 DEF u

\* A receipt enters the report.
<1>RecordedFacts.
    ASSUME NEW s, Loose(s), s.transfer # None, s.transfer.result # None
    PROVE  LET r == S!Recorded(s)
           IN /\ Loose(r) /\ r.recorded /\ r.transfer = s.transfer /\ r.src = s.src
              /\ r.closed = s.closed /\ r.complete = s.complete
              /\ r.receipts = [s.receipts EXCEPT ![s.transfer.file] = s.transfer.result]
              /\ r.queue = s.queue \/ r.queue = << >>
              /\ s.transfer.result # "Durable" => r.queue = << >>
  <2> USE <1>RecordedFacts
  <2> DEFINE t == s.transfer
             r == S!Recorded(s)
             e == [s EXCEPT !.receipts[t.file] = t.result, !.recorded = TRUE]
  <2>1. s \in S!SenderType /\ Selected(s) /\ Packing(t, s.src) BY DEF Loose
  <2> USE <2>1
  <2>2. t \in S!Transfers BY DEF S!SenderType
  <2>3. t.file \in Files /\ t.result \in S!Outcomes BY <2>2 DEF S!Transfers
  <2> USE <2>3
  <2>4. CASE s.recorded
    <3> USE <2>4
    <3>1. r = s BY DEF S!Recorded
    <3>2. s.receipts = [s.receipts EXCEPT ![t.file] = t.result]
      BY DEF Selected, S!SenderType
    <3>3. t.result # "Durable" => s.queue = << >> BY DEF Selected
    <3> QED BY <3>1, <3>2, <3>3
  <2>5. CASE ~ s.recorded
    <3> USE <2>5
    <3>1. s.receipts \in [Files -> S!Outcomes \cup {None}] BY DEF S!SenderType
    <3>2. [s.receipts EXCEPT ![t.file] = t.result] \in [Files -> S!Outcomes \cup {None}]
      BY <3>1
    <3>3. e = [[s EXCEPT !.receipts = [s.receipts EXCEPT ![t.file] = t.result]]
                 EXCEPT !.recorded = TRUE] BY DEF S!SenderType
    <3>4. /\ e.transfer = t /\ e.src = s.src /\ e.closed = s.closed /\ e.complete = s.complete
          /\ e.receipts = [s.receipts EXCEPT ![t.file] = t.result] /\ e.queue = s.queue
          /\ e.recorded = TRUE /\ e.stop = s.stop
      BY DEF S!SenderType
    <3> USE <3>4
    <3>5. e \in S!SenderType BY <3>2, <3>3 DEF S!SenderType
    <3>6. e.receipts[t.file] = t.result /\ \A g \in Files : g # t.file => e.receipts[g] = s.receipts[g]
      BY <3>1, SMTT(30)
    <3> USE <3>6
    <3>7. ~ s.complete BY DEF Selected
    <3> USE <3>7
    <3> HIDE DEF e
    <3>8. CASE t.result = "Durable"
      <4> USE <3>8
      <4>1. r = e BY DEF S!Recorded, e
      <4>2. Selected(e)
        <5>1. \A g \in Files : /\ g < t.file => e.receipts[g] = "Durable"
                               /\ g > t.file => e.receipts[g] = None
          BY FilesAreNumbers DEF Selected
        <5> QED BY <5>1, SMTT(30) DEF Selected
      <4>3. Loose(e) BY <3>5, <4>2 DEF Loose
      <4>4. e.recorded OBVIOUS
      <4> HIDE DEF t
      <4> QED BY <4>1, <4>3, <4>4 DEF t
    <3>9. CASE t.result # "Durable"
      <4> DEFINE b == S!BatchStop(e, t.result)
      <4>1. r = b BY <3>9 DEF S!Recorded, e
      <4>2. /\ b \in S!SenderType
            /\ b.transfer = e.transfer /\ b.src = e.src /\ b.recorded = e.recorded
            /\ b.receipts = e.receipts /\ b.complete = e.complete /\ b.closed = e.closed
            /\ b.stop # None /\ b.queue = << >>
        BY <3>5, <1>BatchStopFacts, SMTT(30)
      <4> USE <4>2
      <4> HIDE DEF b
      <4>3. \A g \in Files : /\ g < t.file => e.receipts[g] = "Durable"
                             /\ g > t.file => e.receipts[g] = None
        BY FilesAreNumbers, SMTT(30) DEF Selected
      <4>4. Selected(b) BY <4>3, SMTT(30) DEF Selected
      <4>5. Loose(b) BY <4>4 DEF Loose
      <4>6. b.recorded OBVIOUS
      <4> HIDE DEF t
      <4> QED BY <4>1, <4>5, <4>6 DEF t
    <3> QED BY <3>8, <3>9
  <2> QED BY <2>4, <2>5

\* Sender::settle_batch.
<1>SettleFacts.
    ASSUME NEW s, Loose(s)
    PROVE  LET u == S!Settle(s)
           IN /\ Fit(u) /\ u.closed = s.closed
              /\ s.transfer = None => u.receipts = s.receipts /\ u.transfer = None /\ u.queue = s.queue
              /\ s.transfer # None /\ s.transfer.result = None => u = s
              /\ s.transfer # None /\ s.transfer.result # None =>
                   /\ u.receipts = [s.receipts EXCEPT ![s.transfer.file] = s.transfer.result]
                   /\ u.transfer = None \/ u.transfer = s.transfer
                   /\ u.queue = s.queue \/ u.queue = << >>
                   /\ s.transfer.result # "Durable" => u.queue = << >>
  <2> USE <1>SettleFacts
  <2> DEFINE u == S!Settle(s)
             t == s.transfer
  <2>1. s \in S!SenderType BY DEF Loose
  <2>2. CASE t = None
    <3> USE <2>2
    <3>1. u = [s EXCEPT !.complete = (s.queue = << >>)] BY DEF S!Settle
    <3>2. /\ u \in S!SenderType /\ u.closed = s.closed /\ u.receipts = s.receipts
          /\ u.recorded = s.recorded /\ u.stop = s.stop
          /\ u.queue = s.queue /\ u.transfer = s.transfer /\ u.src = s.src
          /\ u.complete = (s.queue = << >>)
      BY <2>1, <3>1 DEF S!SenderType
    <3> USE <3>2
    <3> HIDE DEF u
    <3>3. Selected(u) BY DEF Loose, Selected
    <3>4. Fit(u) BY <3>3 DEF Loose, Fit
    <3> QED BY <3>4 DEF u
  <2>3. CASE t # None /\ t.result = None BY <2>3 DEF S!Settle, Fit
  <2>4. CASE t # None /\ t.result # None
    <3> DEFINE r == S!Recorded(s)
    <3>1. /\ Loose(r) /\ r.recorded /\ r.transfer = t /\ r.src = s.src
          /\ r.closed = s.closed /\ r.complete = s.complete
          /\ r.receipts = [s.receipts EXCEPT ![t.file] = t.result]
          /\ r.queue = s.queue \/ r.queue = << >>
          /\ t.result # "Durable" => r.queue = << >>
      BY <2>4, <1>RecordedFacts
    <3>2. r \in S!SenderType /\ Selected(r) BY <3>1 DEF Loose
    <3>3. Fit(r) BY <3>1 DEF Fit
    <3>4. CASE s.src.pc = "done"
      <4>1. u = [r EXCEPT !.transfer = None, !.complete = (r.queue = << >>)]
        BY <2>4, <3>4 DEF S!Settle
      <4> HIDE DEF r
      <4>2. /\ u \in S!SenderType /\ u.closed = r.closed /\ u.receipts = r.receipts
            /\ u.recorded = r.recorded /\ u.stop = r.stop
            /\ u.queue = r.queue /\ u.transfer = None /\ u.complete = (r.queue = << >>)
        BY <3>2, <4>1 DEF S!SenderType
      <4> HIDE DEF u
      <4>3. r.queue # << >> =>
               \A g \in Files : r.receipts[g] = IF g < r.queue[1] THEN "Durable" ELSE None
        <5>1. SUFFICES ASSUME r.queue # << >>, NEW g \in Files
                       PROVE  r.receipts[g] = IF g < r.queue[1] THEN "Durable" ELSE None
          OBVIOUS
        <5>2. t.result = "Durable" /\ r.queue[1] = t.file + 1 /\ r.receipts[t.file] = "Durable"
          BY <2>4, <3>1, <3>2, <5>1 DEF Selected
        <5>3. t.file \in Files BY <2>1, <2>4 DEF S!SenderType, S!Transfers
        <5>4. /\ g < t.file => r.receipts[g] = "Durable"
              /\ g > t.file => r.receipts[g] = None
          BY <2>4, <3>1, <3>2 DEF Selected
        <5>5. g \in Nat /\ t.file \in Nat BY <5>3, FilesAreNumbers
        <5>6. CASE g < t.file BY <5>2, <5>4, <5>5, <5>6, SMTT(30)
        <5>7. CASE g = t.file BY <5>2, <5>5, <5>7, SMTT(30)
        <5>8. CASE g > t.file BY <5>2, <5>4, <5>5, <5>8, SMTT(30)
        <5> QED BY <5>5, <5>6, <5>7, <5>8, SMTT(30)
      <4>4. Selected(u) BY <3>2, <4>2, <4>3 DEF Selected
      <4>5. Fit(u) BY <4>2, <4>4 DEF Loose, Fit
      <4> QED BY <2>4, <3>1, <4>2, <4>5 DEF u
    <3>5. CASE s.src.pc = "panicked"
      <4>1. u = S!BatchStop(r, "Cleanup") BY <2>4, <3>5 DEF S!Settle
      <4>2. "Cleanup" \in S!Outcomes \cup {"Local", "Cleanup"} OBVIOUS
      <4> HIDE DEF r
      <4>3. Loose(u) BY <3>1, <4>1, <4>2, <1>BatchStopLoose, SMTT(30)
      <4>4. /\ u.transfer = r.transfer /\ u.src = r.src /\ u.recorded = r.recorded
            /\ u.receipts = r.receipts /\ u.closed = r.closed
            /\ u.queue = r.queue \/ u.queue = << >>
        BY <3>2, <4>1, <4>2, <1>BatchStopFacts, SMTT(30)
      <4> HIDE DEF u
      <4>5. Fit(u) BY <3>1, <4>3, <4>4 DEF Fit
      <4> QED BY <2>4, <3>1, <4>4, <4>5 DEF u
    <3>6. CASE s.src.pc \notin {"done", "panicked"}
      <4>1. u = r BY <2>4, <3>6 DEF S!Settle
      <4> QED BY <2>4, <3>1, <3>3, <4>1
    <3> QED BY <3>4, <3>5, <3>6
  <2> QED BY <2>2, <2>3, <2>4

\* Sender::cancel_on, and a turn that ends with an error.
<1>GiveUpFacts.
    ASSUME NEW s, Loose(s)
    PROVE  LET u == S!GiveUp(s)
           IN /\ Fit(u) /\ u.closed /\ u.queue = << >>
              /\ s.transfer = None => u.receipts = s.receipts /\ u.transfer = None
              /\ s.transfer # None =>
                   /\ u.receipts = [s.receipts EXCEPT ![s.transfer.file] =
                         IF s.transfer.result = None THEN S!GivenUp(s.transfer)
                         ELSE s.transfer.result]
                   /\ \/ u.transfer = None
                      \/ /\ u.transfer # None
                         /\ u.transfer.file = s.transfer.file
                         /\ u.transfer.admitted = s.transfer.admitted
                         /\ u.transfer.result =
                              IF s.transfer.result = None THEN S!GivenUp(s.transfer)
                              ELSE s.transfer.result
  <2> USE <1>GiveUpFacts
  <2> DEFINE f == S!Fail(s)
             r == S!Retire(f)
             u == S!GiveUp(s)
  <2>1. /\ Loose(f) /\ f.closed /\ f.receipts = s.receipts /\ f.recorded = s.recorded
        /\ f.queue = << >>
        /\ s.transfer = None => f.transfer = None
        /\ s.transfer # None =>
             /\ f.transfer # None /\ f.transfer.file = s.transfer.file
             /\ f.transfer.admitted = s.transfer.admitted
             /\ f.transfer.result # None
             /\ s.transfer.result # None => f.transfer.result = s.transfer.result
             /\ s.transfer.result = None => f.transfer.result = S!GivenUp(s.transfer)
    BY <1>FailFacts
  <2> HIDE DEF f
  <2>2. /\ Loose(r) /\ r.closed /\ r.receipts = f.receipts
        /\ r.queue = f.queue /\ r.transfer = f.transfer
    BY <2>1, <1>RetireFacts
  <2> USE <2>2
  <2> HIDE DEF r
  <2>3. u = S!Settle(r) BY DEF S!GiveUp, r, f
  <2>4. /\ Fit(u) /\ u.closed = r.closed
        /\ r.transfer = None => u.receipts = r.receipts /\ u.transfer = None /\ u.queue = r.queue
        /\ r.transfer # None /\ r.transfer.result # None =>
             /\ u.receipts = [r.receipts EXCEPT ![r.transfer.file] = r.transfer.result]
             /\ u.transfer = None \/ u.transfer = r.transfer
             /\ u.queue = r.queue \/ u.queue = << >>
    <3>1. LET v == S!Settle(r)
          IN /\ Fit(v) /\ v.closed = r.closed
             /\ r.transfer = None => v.receipts = r.receipts /\ v.transfer = None /\ v.queue = r.queue
             /\ r.transfer # None /\ r.transfer.result # None =>
                  /\ v.receipts = [r.receipts EXCEPT ![r.transfer.file] = r.transfer.result]
                  /\ v.transfer = None \/ v.transfer = r.transfer
                  /\ v.queue = r.queue \/ v.queue = << >>
      BY <1>SettleFacts
    <3> QED BY <2>3, <3>1
  <2> USE <2>4
  <2> HIDE DEF u
  <2>5. u.closed /\ Fit(u) OBVIOUS
  <2>6. CASE s.transfer = None BY <2>1, <2>5, <2>6 DEF u
  <2>7. CASE s.transfer # None
    <3> USE <2>7
    <3> DEFINE o == IF s.transfer.result = None THEN S!GivenUp(s.transfer) ELSE s.transfer.result
    <3>1. f.transfer.result = o BY <2>1
    <3> HIDE DEF o
    <3>2. /\ u.receipts = [s.receipts EXCEPT ![s.transfer.file] = o]
          /\ u.queue = << >>
          /\ \/ u.transfer = None
             \/ /\ u.transfer # None
                /\ u.transfer.file = s.transfer.file
                /\ u.transfer.admitted = s.transfer.admitted
                /\ u.transfer.result = o
      BY <2>1, <3>1, SMTT(30)
    <3> QED BY <2>5, <3>2 DEF u, o
  <2> QED BY <2>6, <2>7

\* Acknowledged records leave the flight.
<1>FlightFacts.
    ASSUME NEW s, Loose(s), NEW n \in Nat
    PROVE  LET u == [s EXCEPT !.flight = n]
           IN /\ Loose(u) /\ Keeps(s, u) /\ u.transfer = s.transfer /\ u.src = s.src
              /\ Fit(s) => Fit(u)
  <2> USE <1>FlightFacts
  <2> DEFINE u == [s EXCEPT !.flight = n]
  <2>1. u \in S!SenderType /\ Keeps(s, u) /\ u.transfer = s.transfer /\ u.src = s.src
    BY DEF Loose, S!SenderType, Keeps
  <2> USE <2>1
  <2> HIDE DEF u
  <2>2. Selected(u) BY DEF Loose, Selected, Keeps
  <2>3. Loose(u) BY <2>2 DEF Loose
  <2>4. Fit(s) => Fit(u) BY <2>3 DEF Fit, Keeps
  <2> QED BY <2>3, <2>4 DEF u

<1>StillFacts.
    ASSUME NEW s, Fit(s), s.transfer # None,
           NEW v \in S!Transfers, NEW c \in S!SourceType, NEW n \in Nat,
           v.file = s.transfer.file, v.result = s.transfer.result, Packing(v, c)
    PROVE  /\ Still(s, With(s, v, c, n))
           /\ With(s, v, c, n).transfer = v /\ With(s, v, c, n).src = c
  <2> USE <1>StillFacts
  <2> DEFINE u == With(s, v, c, n)
  <2>1. Loose(s) /\ s \in S!SenderType BY DEF Fit, Loose
  <2>2. /\ u \in S!SenderType /\ Keeps(s, u) /\ u.transfer = v /\ u.src = c
        /\ v # None /\ u # None
    BY <2>1, ChangesKeep, SMTT(30)
  <2> USE <2>2
  <2> HIDE DEF u
  <2>3. Fit(u) BY <2>1, GoesOn
  <2>4. Still(s, u) BY <2>3 DEF Still
  <2> QED BY <2>4 DEF u

\* A receipt stops the source, and all but a publication retire the lane.
<1>ConcludedFacts.
    ASSUME NEW s, Loose(s), s.transfer # None, s.transfer.result # None
    PROVE  LET u == S!Concluded(s)
           IN /\ Loose(u) /\ u.transfer = s.transfer /\ u.receipts = s.receipts
              /\ u.queue = s.queue /\ (s.closed => u.closed)
  <2> USE <1>ConcludedFacts
  <2> DEFINE t == s.transfer
             c == [s.src EXCEPT !.stop = TRUE]
             a == With(s, t, c, s.flight)
             u == S!Concluded(s)
  <2>1. /\ s \in S!SenderType /\ t \in S!Transfers /\ s.src \in S!SourceType
        /\ s.flight \in Nat /\ Packing(t, s.src)
    BY AtWork
  <2> USE <2>1
  <2>2. a = [s EXCEPT !.src.stop = TRUE] BY DEF S!SenderType, With
  <2>3. /\ c \in S!SourceType /\ c.pc = s.src.pc /\ c.mail = s.src.mail /\ c.asked = s.src.asked
    BY DEF S!SourceType
  <2> HIDE DEF c
  <2>4. Packing(t, c) BY <2>3 DEF Packing
  <2>5. a \in S!SenderType /\ Keeps(s, a) /\ a.transfer = t /\ a.src = c /\ t # None
    BY <2>3, ChangesKeep, SMTT(30)
  <2> USE <2>5
  <2> HIDE DEF a
  <2>6. Loose(a) BY <2>4, GoesOn
  <2>7. CASE t.result \in S!Published
    <3>1. u = a BY <2>2, <2>7 DEF S!Concluded
    <3> QED BY <2>6, <3>1 DEF Keeps
  <2>8. CASE t.result \notin S!Published
    <3>1. u = S!Retire(a) BY <2>2, <2>8 DEF S!Concluded
    <3>2. LET w == S!Retire(a)
          IN Loose(w) /\ w.closed /\ w.receipts = a.receipts /\ w.queue = a.queue
             /\ w.transfer = a.transfer
      BY <2>6, <1>RetireFacts
    <3> QED BY <3>1, <3>2 DEF Keeps
  <2> QED BY <2>7, <2>8

\* Source::poll.
<1>PolledFacts.
    ASSUME NEW s, Working(s), S!Polled(s) # None
    PROVE  LET u == S!Polled(s)
           IN /\ Still(s, u) /\ u.transfer.admitted = s.transfer.admitted
              /\ u.transfer.stage = s.transfer.stage
  <2> USE <1>PolledFacts
  <2> DEFINE t == s.transfer
             m == s.src.mail
             u == S!Polled(s)
  <2>0. Fit(s) /\ t # None /\ t.result = None BY DEF Working
  <2> USE <2>0
  <2>1. /\ s \in S!SenderType /\ t \in S!Transfers /\ s.src \in S!SourceType
        /\ s.flight \in Nat /\ Packing(t, s.src)
    BY AtWork DEF Fit
  <2> USE <2>1
  <2>2. CASE u = s
    <3>1. s # None BY NoneAssumption
    <3>2. Still(s, s) BY <3>1 DEF Still, Keeps
    <3> QED BY <2>2, <3>2
  <2>3. CASE u # s
    <3> USE <2>3
    <3> DEFINE v == [t EXCEPT !.ready = m, !.pending = FALSE]
               c == [s.src EXCEPT !.mail = None]
    <3>1. /\ t.pending /\ t.ready = None /\ t.packet = None /\ m # "Error" /\ m # None
          /\ u = With(s, v, c, s.flight)
      <4>1. t.pending /\ t.ready = None /\ t.packet = None BY DEF S!Polled
      <4> USE <4>1
      <4>2. m # "Error" BY DEF S!Polled
      <4> USE <4>2
      <4>3. m # None BY DEF S!Polled
      <4>4. u = [s EXCEPT !.transfer.ready = m, !.transfer.pending = FALSE, !.src.mail = None]
        BY <4>3 DEF S!Polled
      <4>5. u = With(s, v, c, s.flight) BY <4>4 DEF S!SenderType, With
      <4> QED BY <4>3, <4>5
    <3> USE <3>1
    <3>2. m \in S!Packets BY DEF S!SourceType
    <3>3. v \in S!Transfers BY <3>2 DEF S!Transfers
    <3>4. /\ v.file = t.file /\ v.stage = t.stage /\ v.pending = FALSE /\ v.ready = m
          /\ v.packet = t.packet /\ v.admitted = t.admitted /\ v.result = t.result
      BY DEF S!Transfers
    <3> USE <3>4
    <3>5. c \in S!SourceType /\ c.pc = s.src.pc /\ c.mail = None /\ c.asked = s.src.asked
      BY DEF S!SourceType
    <3>6. Packing(v, c)
      <4>1. s.src.pc # "prepare" BY DEF Packing
      <4>2. t.stage \notin {"AwaitingAcceptance", "AwaitingProof", "Finished"}
        BY DEF Packing
      <4> HIDE DEF v, c
      <4> QED BY <3>2, <3>5, <4>1, <4>2, NoneAssumption DEF Packing, S!Packets
    <3> HIDE DEF v, c
    <3>7. Still(s, With(s, v, c, s.flight)) /\ With(s, v, c, s.flight).transfer = v
      BY <3>3, <3>5, <3>6, <1>StillFacts, SMTT(30)
    <3> QED BY <3>7
  <2> QED BY <2>2, <2>3

\* Transfer::prepare.
<1>PackedFacts.
    ASSUME NEW s, Working(s), NEW tokens
    PROVE  LET u == S!Packed(s, tokens)
           IN /\ Still(s, u) /\ u.transfer.admitted = s.transfer.admitted
              /\ u.transfer.stage = s.transfer.stage
              /\ u.transfer.packet = "Prepared" => s.transfer.stage = "Preparing"
              /\ u.transfer.packet \in {"Chunk", "End"} => s.transfer.stage = "Streaming"
  <2> USE <1>PackedFacts
  <2> DEFINE t == s.transfer
             u == S!Packed(s, tokens)
  <2>0. Fit(s) /\ t # None /\ t.result = None BY DEF Working
  <2> USE <2>0
  <2>1. /\ s \in S!SenderType /\ t \in S!Transfers /\ s.src \in S!SourceType
        /\ s.flight \in Nat /\ Packing(t, s.src)
    BY AtWork DEF Fit
  <2> USE <2>1
  <2>2. /\ Still(s, u) /\ u.transfer.admitted = t.admitted /\ u.transfer.stage = t.stage
    <3>1. CASE ~ S!MayPack(s, tokens)
      <4>1. u = s BY <3>1 DEF S!Packed
      <4>2. s # None BY NoneAssumption
      <4>3. Still(s, s) BY <4>2 DEF Still, Keeps
      <4> QED BY <4>1, <4>3
    <3>2. CASE S!MayPack(s, tokens)
      <4> USE <3>2
      <4> DEFINE v == [t EXCEPT !.packet = t.ready, !.ready = None]
      <4>1. u = With(s, v, s.src, s.flight) BY DEF S!Packed, S!SenderType, With
      <4>2. t.ready # None /\ t.packet = None BY DEF S!MayPack
      <4>3. v \in S!Transfers BY DEF S!Transfers
      <4>4. /\ v.file = t.file /\ v.stage = t.stage /\ v.pending = t.pending /\ v.ready = None
            /\ v.packet = t.ready /\ v.admitted = t.admitted /\ v.result = t.result
        BY DEF S!Transfers
      <4> USE <4>4
      <4> HIDE DEF v
      <4>5. Packing(v, s.src) BY <4>2, NoneAssumption DEF Packing, S!Packets
      <4>6. Still(s, With(s, v, s.src, s.flight)) /\ With(s, v, s.src, s.flight).transfer = v
        BY <4>3, <4>5, <1>StillFacts, SMTT(30)
      <4> QED BY <4>1, <4>6
    <3> QED BY <3>1, <3>2
  <2> HIDE DEF u
  <2>3. u.transfer \in S!Transfers /\ Packing(u.transfer, u.src) /\ u.transfer.result = None
    BY <2>2, AtWork DEF Still, Fit
  <2>4. /\ u.transfer.packet = "Prepared" => u.transfer.stage = "Preparing"
        /\ u.transfer.packet \in {"Chunk", "End"} => u.transfer.stage = "Streaming"
    BY <2>3, NoneAssumption DEF Packing, S!Transfers, S!Stages, S!Packets
  <2> QED BY <2>2, <2>4 DEF u

\* The lane took the packet.
<1>AdmittedFacts.
    ASSUME NEW s, Working(s), s.transfer.packet # None
    PROVE  LET u == S!Admitted(s)
           IN /\ Still(s, u)
              /\ u.transfer.admitted <=> s.transfer.packet = "End"
              /\ s.transfer.packet = "Prepared" => u.transfer.stage = "AwaitingAcceptance"
              /\ s.transfer.packet # "Prepared" => u.transfer.stage # "Preparing"
  <2> USE <1>AdmittedFacts
  <2> DEFINE t == s.transfer
             p == t.packet
             u == S!Admitted(s)
             stage == CASE p = "Prepared" -> "AwaitingAcceptance"
                        [] p = "End" -> "AwaitingProof"
                        [] OTHER -> t.stage
             v == [t EXCEPT !.packet = None, !.admitted = t.admitted \/ p = "End", !.stage = stage]
  <2>0. Fit(s) /\ t # None /\ t.result = None BY DEF Working
  <2> USE <2>0
  <2>1. /\ s \in S!SenderType /\ t \in S!Transfers /\ s.src \in S!SourceType
        /\ s.flight \in Nat /\ Packing(t, s.src)
    BY AtWork DEF Fit
  <2> USE <2>1
  <2>2. p \in S!Packets BY DEF S!Transfers
  <2> USE <2>2
  <2>3. /\ t.ready = None /\ ~ t.pending /\ t.stage \in {"Preparing", "Streaming"}
        /\ t.stage = "Preparing" <=> p = "Prepared"
        /\ ~ t.admitted
    BY NoneAssumption DEF Packing, S!Transfers, S!Stages, S!Packets
  <2> USE <2>3
  <2>4. /\ stage \in S!Stages
        /\ p = "Prepared" => stage = "AwaitingAcceptance"
        /\ p = "End" => stage = "AwaitingProof"
        /\ p = "Chunk" => stage = "Streaming"
    BY DEF S!Stages, S!Packets
  <2> USE <2>4
  <2>5. u = With(s, v, s.src, s.flight + 1) BY DEF S!Admitted, S!SenderType, With
  <2> HIDE DEF stage
  <2>6. v \in S!Transfers BY DEF S!Transfers
  <2>7. /\ v.file = t.file /\ v.stage = stage /\ v.pending = t.pending /\ v.ready = t.ready
        /\ v.packet = None /\ v.admitted = (t.admitted \/ p = "End") /\ v.result = t.result
    BY DEF S!Transfers
  <2> USE <2>7
  <2>8. v.admitted <=> p = "End" OBVIOUS
  <2> USE <2>8
  <2> HIDE DEF v
  <2>9. Packing(v, s.src)
    <3>1. CASE p = "Prepared"
      <4> USE <3>1
      <4>1. /\ s.src.pc # "prepare" /\ ~ s.src.asked /\ s.src.mail \in {None, "Error"}
        BY DEF Packing
      <4> QED BY <4>1 DEF Packing
    <3>2. CASE p # "Prepared"
      <4> USE <3>2
      <4>1. /\ s.src.pc # "prepare" /\ ~ s.src.asked /\ s.src.mail \in {None, "Error"}
        BY DEF Packing
      <4>2. p = "End" \/ p = "Chunk" BY DEF S!Packets
      <4> QED BY <4>1, <4>2, NoneAssumption DEF Packing, S!Packets
    <3> QED BY <3>1, <3>2
  <2>10. s.flight + 1 \in Nat BY SMTT(30)
  <2>11. Still(s, With(s, v, s.src, s.flight + 1)) /\ With(s, v, s.src, s.flight + 1).transfer = v
    BY <2>6, <2>9, <2>10, <1>StillFacts, SMTT(30)
  <2> HIDE DEF u
  <2> QED BY <2>5, <2>11 DEF u, S!Packets

\* Source::request.
<1>RequestedFacts.
    ASSUME NEW s, Working(s), S!Requested(s) # None
    PROVE  LET u == S!Requested(s)
           IN /\ Still(s, u) /\ u.transfer.admitted = s.transfer.admitted
              /\ u.transfer.stage = s.transfer.stage
  <2> USE <1>RequestedFacts
  <2> DEFINE t == s.transfer
             u == S!Requested(s)
  <2>0. Fit(s) /\ t # None /\ t.result = None BY DEF Working
  <2> USE <2>0
  <2>1. /\ s \in S!SenderType /\ t \in S!Transfers /\ s.src \in S!SourceType
        /\ s.flight \in Nat /\ Packing(t, s.src)
    BY AtWork DEF Fit
  <2> USE <2>1
  <2>2. CASE u = s
    <3>1. s # None BY NoneAssumption
    <3>2. Still(s, s) BY <3>1 DEF Still, Keeps
    <3> QED BY <2>2, <3>2
  <2>3. CASE u # s
    <3> DEFINE v == [t EXCEPT !.pending = TRUE]
               c == [s.src EXCEPT !.asked = TRUE]
    <3>1. /\ t.stage = "Streaming" /\ t.ready = None /\ t.packet = None /\ ~ t.pending
          /\ u = [s EXCEPT !.transfer.pending = TRUE, !.src.asked = TRUE]
      BY <2>3 DEF S!Requested
    <3> USE <3>1
    <3>2. u = With(s, v, c, s.flight) BY DEF S!SenderType, With
    <3>3. v \in S!Transfers BY DEF S!Transfers
    <3>4. /\ v.file = t.file /\ v.stage = t.stage /\ v.pending = TRUE /\ v.ready = t.ready
          /\ v.packet = t.packet /\ v.admitted = t.admitted /\ v.result = t.result
      BY DEF S!Transfers
    <3> USE <3>4
    <3>5. c \in S!SourceType /\ c.pc = s.src.pc /\ c.mail = s.src.mail
      BY DEF S!SourceType
    <3>6. Packing(v, c)
      <4>1. s.src.pc # "prepare" /\ s.src.mail \in {None, "Error"} /\ ~ t.admitted
        BY DEF Packing
      <4>2. None # "Prepared" BY NoneAssumption DEF S!Packets
      <4> HIDE DEF v, c
      <4> QED BY <3>5, <4>1, <4>2 DEF Packing
    <3> HIDE DEF v, c
    <3>7. Still(s, With(s, v, c, s.flight)) /\ With(s, v, c, s.flight).transfer = v
      BY <3>3, <3>5, <3>6, <1>StillFacts, SMTT(30)
    <3> QED BY <3>2, <3>7
  <2> QED BY <2>2, <2>3

<1>GiveUpEnds.
    ASSUME NEW s, Loose(s)
    PROVE  Ends(s, S!GiveUp(s))
  <2> USE <1>GiveUpEnds
  <2> DEFINE u == S!GiveUp(s)
  <2>1. /\ Fit(u) /\ u.closed /\ u.queue = << >>
        /\ s.transfer = None => u.receipts = s.receipts /\ u.transfer = None
        /\ s.transfer # None =>
             /\ u.receipts = [s.receipts EXCEPT ![s.transfer.file] = Outcome(s.transfer)]
             /\ \/ u.transfer = None
                \/ /\ u.transfer # None
                   /\ u.transfer.file = s.transfer.file
                   /\ u.transfer.admitted = s.transfer.admitted
                   /\ u.transfer.result = Outcome(s.transfer)
    BY <1>GiveUpFacts DEF Outcome
  <2> HIDE DEF u
  <2> QED BY <2>1 DEF Ends, u

<1>SettleEnds.
    ASSUME NEW s, Loose(s), s.transfer # None => s.transfer.result # None
    PROVE  Ends(s, S!Settle(s))
  <2> USE <1>SettleEnds
  <2> DEFINE u == S!Settle(s)
  <2>1. /\ Fit(u) /\ u.closed = s.closed
        /\ s.transfer = None => u.receipts = s.receipts /\ u.transfer = None /\ u.queue = s.queue
        /\ s.transfer # None /\ s.transfer.result # None =>
             /\ u.receipts = [s.receipts EXCEPT ![s.transfer.file] = s.transfer.result]
             /\ u.transfer = None \/ u.transfer = s.transfer
             /\ u.queue = s.queue \/ u.queue = << >>
             /\ s.transfer.result # "Durable" => u.queue = << >>
    BY <1>SettleFacts
  <2>2. s.transfer # None => Outcome(s.transfer) = s.transfer.result BY DEF Outcome
  <2> HIDE DEF u
  <2> QED BY <2>1, <2>2 DEF Ends, u

\* Ends looks only at the transfer, the queue and the receipts.
<1>EndsSame.
    ASSUME NEW s, NEW d, NEW u, Ends(d, u), d.transfer = s.transfer,
           d.receipts = s.receipts, d.queue = s.queue
    PROVE  Ends(s, u)
  BY <1>EndsSame DEF Ends

<1>ConcludedEnds.
    ASSUME NEW s, Loose(s), s.transfer # None, s.transfer.result # None
    PROVE  Ends(s, S!Settle(S!Concluded(s)))
  <2> USE <1>ConcludedEnds
  <2> DEFINE c == S!Concluded(s)
  <2>1. Loose(c) /\ c.transfer = s.transfer /\ c.receipts = s.receipts /\ c.queue = s.queue
    BY <1>ConcludedFacts
  <2> HIDE DEF c
  <2>2. Ends(c, S!Settle(c)) BY <2>1, <1>SettleEnds
  <2>3. Ends(s, S!Settle(c)) BY <2>1, <2>2, <1>EndsSame
  <2> QED BY <2>3 DEF c

\* A request of the next record, or giving up.
<1>RequestsShape.
    ASSUME NEW s, Working(s), Requests(s)
    PROVE  \/ /\ Still(s, tx') /\ tx'.transfer.admitted = s.transfer.admitted
              /\ tx'.transfer.stage = s.transfer.stage
           \/ Ends(s, tx')
  <2> USE <1>RequestsShape
  <2>1. CASE S!Requested(s) = None
    <3>1. tx' = S!GiveUp(s) BY <2>1 DEF Requests
    <3>2. Loose(s) BY DEF Working, Fit
    <3> QED BY <3>1, <3>2, <1>GiveUpEnds
  <2>2. CASE S!Requested(s) # None
    <3> USE <2>2
    <3>1. tx' = S!Requested(s) BY DEF Requests
    <3> QED BY <3>1, <1>RequestedFacts
  <2> QED BY <2>1, <2>2

\* Still is transitive.
<1>StillStill.
    ASSUME NEW s, NEW u, NEW v, Still(s, u), Still(u, v)
    PROVE  Still(s, v)
  BY <1>StillStill DEF Still, Keeps

<1>StillWorking.
    ASSUME NEW s, NEW u, Working(s), Still(s, u)
    PROVE  Working(u)
  BY <1>StillWorking DEF Still, Working

\* prepare, one packet, and one read ahead.
<1>AdvancesShape.
    ASSUME NEW s, Working(s), NEW tokens, NEW room, Advances(s, tokens, room)
    PROVE  \E u : /\ Sent(s, u, toHost, toHost')
                  /\ tx' = u \/ Ends(u, tx')
  <2> USE <1>AdvancesShape
  <2> DEFINE p == S!Polled(s)
             k == S!Packed(p, tokens)
  <2>0. Loose(s) /\ s \in S!SenderType /\ s # None BY NoneAssumption DEF Working, Fit, Loose
  <2> USE <2>0
  <2>1. CASE p = None
    <3>1. tx' = S!GiveUp(s) /\ toHost' = toHost BY <2>1 DEF Advances, Sends
    <3>2. Still(s, s) BY DEF Still, Keeps, Working
    <3>3. Sent(s, s, toHost, toHost') BY <3>1, <3>2 DEF Sent
    <3>4. Ends(s, tx') BY <3>1, <1>GiveUpEnds
    <3> QED BY <3>3, <3>4
  <2>2. CASE p # None
    <3> USE <2>2
    <3>1. /\ Still(s, p) /\ p.transfer.admitted = s.transfer.admitted
          /\ p.transfer.stage = s.transfer.stage
      BY <1>PolledFacts
    <3> USE <3>1
    <3>2. \/ k.transfer.packet = None /\ Requests(k) /\ UNCHANGED toHost
          \/ /\ k.transfer.packet # None
             /\ toHost' = Append(toHost, Answer(k.transfer.packet, k.transfer.file))
             /\ Requests(S!Admitted(k))
          \/ Sends(k)
      BY DEF Advances
    <3> HIDE DEF p
    <3>3. Working(p) BY <1>StillWorking
    <3>4. /\ Still(p, k) /\ k.transfer.admitted = p.transfer.admitted
          /\ k.transfer.stage = p.transfer.stage
          /\ k.transfer.packet = "Prepared" => p.transfer.stage = "Preparing"
          /\ k.transfer.packet \in {"Chunk", "End"} => p.transfer.stage = "Streaming"
      BY <3>3, <1>PackedFacts
    <3> USE <3>4
    <3> HIDE DEF k
    <3>5. Still(s, k) /\ Working(k) BY <3>3, <1>StillStill, <1>StillWorking
    <3> USE <3>5
    <3>6. Sent(s, k, toHost, toHost) BY DEF Sent
    <3>7. CASE Sends(k) BY <3>6, <3>7 DEF Sends
    <3>8. CASE k.transfer.packet = None /\ Requests(k) /\ UNCHANGED toHost
      <4> USE <3>8
      <4>1. CASE Ends(k, tx') BY <3>6, <4>1
      <4>2. CASE /\ Still(k, tx') /\ tx'.transfer.admitted = k.transfer.admitted
                 /\ tx'.transfer.stage = k.transfer.stage
        <5> USE <4>2
        <5>1. Still(s, tx') BY <1>StillStill
        <5>2. Sent(s, tx', toHost, toHost') BY <5>1 DEF Sent
        <5> QED BY <5>2
      <4> QED BY <4>1, <4>2, <1>RequestsShape
    <3>9. CASE /\ k.transfer.packet # None
               /\ toHost' = Append(toHost, Answer(k.transfer.packet, k.transfer.file))
               /\ Requests(S!Admitted(k))
      <4> USE <3>9
      <4> DEFINE a == S!Admitted(k)
      <4>1. /\ Still(k, a)
            /\ a.transfer.admitted <=> k.transfer.packet = "End"
            /\ k.transfer.packet = "Prepared" => a.transfer.stage = "AwaitingAcceptance"
            /\ k.transfer.packet # "Prepared" => a.transfer.stage # "Preparing"
        BY <1>AdmittedFacts
      <4> USE <4>1
      <4> HIDE DEF a
      <4>2. Still(s, a) /\ Working(a) BY <1>StillStill, <1>StillWorking
      <4> USE <4>2
      <4>3. k.transfer.packet \in S!Packets
        BY AtWork DEF Working, Fit, S!Transfers
      <4> USE <4>3
      <4>4. k.transfer.packet = "Prepared" <=> s.transfer.stage = "Preparing"
        BY DEF S!Packets
      <4>5. ~ s.transfer.admitted
        <5>1. s.transfer.stage \in {"Preparing", "Streaming"}
          BY DEF S!Packets
        <5> QED BY <5>1, AtWork DEF Working, Packing
      <4>6. k.transfer.file = s.transfer.file BY DEF Still
      <4>7. a.transfer.stage # "Preparing" OBVIOUS
      <4>8. \A u : /\ Still(s, u)
                   /\ u.transfer.admitted = a.transfer.admitted /\ u.transfer.stage # "Preparing"
                   => Sent(s, u, toHost, toHost')
        BY <4>4, <4>5, <4>6 DEF Sent
      <4>9. Sent(s, a, toHost, toHost') BY <4>7, <4>8
      <4>10. CASE Ends(a, tx') BY <4>9, <4>10
      <4>11. CASE /\ Still(a, tx') /\ tx'.transfer.admitted = a.transfer.admitted
                  /\ tx'.transfer.stage = a.transfer.stage
        <5> USE <4>11
        <5>1. Still(s, tx') BY <1>StillStill
        <5>2. Sent(s, tx', toHost, toHost') BY <4>7, <4>8, <5>1
        <5> QED BY <5>2
      <4> QED BY <4>10, <4>11, <1>RequestsShape DEF a
    <3> QED BY <3>2, <3>7, <3>8, <3>9
  <2> QED BY <2>1, <2>2

\* A turn after the dispatch of a reply.
<1>DrivesShape.
    ASSUME NEW s, Loose(s), s.transfer # None /\ s.transfer.result = None => Fit(s), Drives(s)
    PROVE  \E u : /\ (u = s /\ toHost' = toHost) \/ Sent(s, u, toHost, toHost')
                  /\ (tx' = u /\ Fit(u)) \/ Ends(u, tx')
  <2> USE <1>DrivesShape
  <2>1. PICK d \in {s} \cup (IF s.flight > 0 THEN {[s EXCEPT !.flight = 0]} ELSE {}) :
           IF d.transfer = None THEN Sends(S!Settle(d))
           ELSE IF d.transfer.result # None THEN Sends(S!Settle(S!Concluded(d)))
           ELSE IF d.paused THEN Sends(d)
           ELSE \E tokens, room \in BOOLEAN : (room => tokens) /\ Advances(d, tokens, room)
    BY DEF Drives
  <2> USE <2>1
  <2>2. /\ Loose(d) /\ Keeps(s, d) /\ d.transfer = s.transfer
        /\ Fit(s) => Fit(d)
    <3>1. CASE d = s BY <3>1 DEF Keeps
    <3>2. CASE d # s
      <4>1. d = [s EXCEPT !.flight = 0] BY <3>2
      <4> QED BY <4>1, <1>FlightFacts
    <3> QED BY <3>1, <3>2
  <2> USE <2>2
  <2>3. d.receipts = s.receipts /\ d.queue = s.queue BY DEF Keeps
  <2>4. CASE d.transfer = None
    <3> USE <2>4
    <3>1. tx' = S!Settle(d) /\ toHost' = toHost BY DEF Sends
    <3>2. Ends(d, tx') BY <3>1, <1>SettleEnds
    <3>3. Ends(s, tx') BY <2>3, <3>2, <1>EndsSame
    <3> QED BY <3>1, <3>3
  <2>5. CASE d.transfer # None /\ d.transfer.result # None
    <3> USE <2>5
    <3>1. tx' = S!Settle(S!Concluded(d)) /\ toHost' = toHost BY DEF Sends
    <3>2. Ends(d, tx') BY <3>1, <1>ConcludedEnds
    <3>3. Ends(s, tx') BY <2>3, <3>2, <1>EndsSame
    <3> QED BY <3>1, <3>3
  <2>6. CASE d.transfer # None /\ d.transfer.result = None
    <3> USE <2>6
    <3>1. Working(s) /\ Working(d) BY DEF Working
    <3> USE <3>1
    <3>2. d # None BY NoneAssumption DEF Loose
    <3>3. Still(s, d) BY <3>2 DEF Still, Working
    <3>4. CASE Sends(d)
      <4> USE <3>4
      <4>1. Sent(s, d, toHost, toHost') BY <3>3 DEF Sent, Sends
      <4> QED BY <4>1 DEF Sends, Working
    <3>5. CASE \E tokens, room \in BOOLEAN : (room => tokens) /\ Advances(d, tokens, room)
      <4>1. PICK u : Sent(d, u, toHost, toHost') /\ (tx' = u \/ Ends(u, tx'))
        BY <3>5, <1>AdvancesShape
      <4> USE <4>1
      <4>2. Still(s, u) /\ Fit(u) BY <3>3, <1>StillStill DEF Sent, Still
      <4>3. Sent(s, u, toHost, toHost') BY <4>2 DEF Sent
      <4> QED BY <4>2, <4>3
    <3> QED BY <3>4, <3>5
  <2> QED BY <2>4, <2>5, <2>6

<1>1. Loose(tx) BY DEF Fit
<1>2. ASSUME tx' = S!GiveUp(tx), UNCHANGED <<toHost, toSender>> PROVE Chain(tx, tx, tx)
  BY <1>1, <1>2, <1>GiveUpEnds DEF Chain
<1>3. CASE SenderCancels
  <2>1. tx' = S!GiveUp(tx) /\ UNCHANGED <<toHost, toSender>> BY <1>3 DEF SenderCancels, Sends
  <2> QED BY <1>2, <2>1
<1>4. CASE SenderTurn
  <2>1. CASE Expires(tx) /\ Sends(S!GiveUp(tx)) /\ UNCHANGED <<toSender, faults>>
    <3>1. tx' = S!GiveUp(tx) /\ UNCHANGED <<toHost, toSender>> BY <2>1 DEF Sends
    <3> QED BY <1>2, <3>1
  <2>2. CASE ~ Expires(tx) /\ tx.closed /\ Sends(S!Settle(tx)) /\ UNCHANGED <<toSender, faults>>
    <3>1. tx' = S!Settle(tx) /\ UNCHANGED <<toHost, toSender>> BY <2>2 DEF Sends
    <3> USE <3>1
    <3>2. CASE tx.transfer # None => tx.transfer.result # None
      <4>1. Ends(tx, tx') BY <1>1, <3>2, <1>SettleEnds
      <4>2. Chain(tx, tx, tx) BY <4>1 DEF Chain
      <4> QED BY <4>2
    <3>3. CASE tx.transfer # None /\ tx.transfer.result = None
      <4>1. tx' = tx BY <3>3 DEF S!Settle
      <4>2. Chain(tx, tx, tx) BY <4>1 DEF Chain
      <4> QED BY <4>2
    <3> QED BY <3>2, <3>3
  <2>3. CASE \E s \in {IF S!Starts(tx) THEN S!Started(tx) ELSE tx} :
             \/ /\ cut \/ rx.state = "Retired"
                /\ Sends(S!GiveUp(s)) /\ UNCHANGED <<toSender, faults>>
             \/ /\ UNCHANGED <<toSender, faults>> /\ Drives(s)
             \/ /\ toSender # << >> /\ toSender' = Tail(toSender)
                /\ \E h \in {S!Heard(s, Head(toSender))} :
                   IF h = None THEN Sends(S!GiveUp(s)) /\ UNCHANGED faults
                   ELSE \/ Drives(h) /\ UNCHANGED faults
                        \/ Spend(1) /\ Sends(S!GiveUp(h))
    <3> DEFINE s == IF S!Starts(tx) THEN S!Started(tx) ELSE tx
               r == Head(toSender)
               h == S!Heard(s, r)
    <3>1. (s = tx \/ (S!Starts(tx) /\ s = S!Started(tx))) /\ Fit(s)
      BY StartedFacts
    <3> USE <3>1
    <3>2. \/ Sends(S!GiveUp(s)) /\ UNCHANGED toSender
          \/ UNCHANGED toSender /\ Drives(s)
          \/ /\ toSender # << >> /\ toSender' = Tail(toSender)
             /\ \/ h = None /\ Sends(S!GiveUp(s))
                \/ h # None /\ (Drives(h) \/ Sends(S!GiveUp(h)))
      BY <2>3
    <3> HIDE DEF s
    <3>3. Loose(s) BY DEF Fit
    <3>4. Ends(s, S!GiveUp(s)) BY <3>3, <1>GiveUpEnds
    <3>5. CASE Sends(S!GiveUp(s)) /\ UNCHANGED toSender
      <4>1. Chain(s, s, s) BY <3>4, <3>5 DEF Chain, Sends
      <4> QED BY <4>1
    <3>6. CASE UNCHANGED toSender /\ Drives(s)
      <4> USE <3>6
      <4>1. PICK u : /\ (u = s /\ toHost' = toHost) \/ Sent(s, u, toHost, toHost')
                     /\ (tx' = u /\ Fit(u)) \/ Ends(u, tx')
        BY <3>3, <1>DrivesShape
      <4>2. Chain(s, s, u) BY <4>1 DEF Chain
      <4> QED BY <4>2
    <3>7. CASE toSender # << >> /\ toSender' = Tail(toSender) /\ h = None /\ Sends(S!GiveUp(s))
      <4>1. Chain(s, s, s) BY <3>4, <3>7 DEF Chain, Sends
      <4> QED BY <4>1
    <3>8. CASE toSender # << >> /\ toSender' = Tail(toSender) /\ h # None
               /\ (Drives(h) \/ Sends(S!GiveUp(h)))
      <4> USE <3>8
      <4>1. r \in Replies BY SMTT(30)
      <4> USE <4>1
      <4>2. r # None BY NoneAssumption
      <4>3. ~ S!Unexpected(s.transfer, r) BY <4>2 DEF S!Heard
      <4> USE <4>3
      <4>4. Loose(h) /\ (h.transfer.result = None => Fit(h))
        <5>1. LET v == S!Heard(s, r)
              IN /\ Loose(v) /\ (r.kind = "Accept" => Fit(v))
                 /\ v.transfer.result = IF r.kind = "Accept" THEN None ELSE r.kind
          BY HeardFacts
        <5>2. r.kind # "Accept" => r.kind # None BY NoneAssumption DEF Replies, S!Outcomes
        <5> QED BY <5>1, <5>2
      <4> HIDE DEF h
      <4>5. CASE Sends(S!GiveUp(h))
        <5> USE <4>5
        <5>1. Ends(h, tx') BY <4>4, <1>GiveUpEnds DEF Sends
        <5>2. Chain(s, h, h) BY <5>1 DEF Chain, Sends, h
        <5> QED BY <5>2
      <4>6. CASE Drives(h)
        <5>1. PICK u : /\ (u = h /\ toHost' = toHost) \/ Sent(h, u, toHost, toHost')
                       /\ (tx' = u /\ Fit(u)) \/ Ends(u, tx')
          BY <4>4, <4>6, <1>DrivesShape
        <5>2. Chain(s, h, u) BY <5>1 DEF Chain, h
        <5> QED BY <5>2
      <4> QED BY <4>5, <4>6
    <3> QED BY <3>2, <3>5, <3>6, <3>7, <3>8
  <2> QED BY <1>4, <2>1, <2>2, <2>3 DEF SenderTurn
<1> QED BY <1>3, <1>4

\* What happens beside the turns: the source thread, the clock and set_paused.
Beside(s, u) == Fit(u) /\ Keeps(s, u) /\ u.transfer = s.transfer

LEMMA BesideFacts ==
    ASSUME Fit(tx), SourceStep \/ Late \/ SenderPauses
    PROVE  Beside(tx, tx')

<1>SourceBeside.
    ASSUME NEW s, Fit(s), NEW c \in S!SourceType,
           s.transfer # None => Packing(s.transfer, c)
    PROVE  Beside(s, [s EXCEPT !.src = c])
  <2> USE <1>SourceBeside
  <2> DEFINE u == [s EXCEPT !.src = c]
  <2>1. u \in S!SenderType /\ Keeps(s, u) /\ u.transfer = s.transfer /\ u.src = c
    BY DEF Fit, Loose, S!SenderType, Keeps
  <2> USE <2>1
  <2> HIDE DEF u
  <2>2. Selected(u) BY DEF Fit, Loose, Selected, Keeps
  <2>3. Fit(u) BY <2>2 DEF Fit, Loose, Keeps
  <2> QED BY <2>3 DEF Beside, u

<1>SourceFailsFacts.
    ASSUME NEW src \in S!SourceType
    PROVE  /\ S!SourceFails(src) \in S!SourceType
           /\ \A t : Packing(t, src) => Packing(t, S!SourceFails(src))
  <2> DEFINE c == S!SourceFails(src)
  <2>1. c \in S!SourceType BY DEF S!SourceFails, S!SourceType
  <2>2. c.pc = "done" /\ c.asked = src.asked /\ c.mail = IF src.mail = None THEN "Error" ELSE src.mail
    BY DEF S!SourceFails, S!SourceType
  <2> HIDE DEF c
  <2>3. \A t : Packing(t, src) => Packing(t, c) BY <2>2 DEF Packing
  <2> QED BY <2>1, <2>3 DEF c

<1>SourcePanicsFacts.
    ASSUME NEW src \in S!SourceType
    PROVE  /\ S!SourcePanics(src) \in S!SourceType
           /\ \A t : Packing(t, src) => Packing(t, S!SourcePanics(src))
  <2> DEFINE c == S!SourcePanics(src)
  <2>1. c \in S!SourceType BY DEF S!SourcePanics, S!SourceType
  <2>2. c.pc = "panicked" /\ c.asked = src.asked /\ c.mail = src.mail
    BY DEF S!SourcePanics, S!SourceType
  <2> HIDE DEF c
  <2>3. \A t : Packing(t, src) => Packing(t, c) BY <2>2 DEF Packing
  <2> QED BY <2>1, <2>3 DEF c

<1>SourceGivesFacts.
    ASSUME NEW src \in S!SourceType, S!SourceReady(src), NEW file
    PROVE  /\ S!SourceGives(src, file) \in S!SourceType
           /\ \A t \in S!Transfers : Packing(t, src) => Packing(t, S!SourceGives(src, file))
  <2> USE <1>SourceGivesFacts
  <2> DEFINE c == S!SourceGives(src, file)
  <2>0. src.pos + 1 \in Nat BY SMTT(30) DEF S!SourceType
  <2>1. CASE src.pc = "prepare"
    <3> USE <2>1
    <3>1. c = [src EXCEPT !.pc = "wait", !.mail = "Prepared"] BY DEF S!SourceGives
    <3>2. c \in S!SourceType /\ c.pc = "wait" /\ c.mail = "Prepared" /\ c.asked = src.asked
      BY <3>1 DEF S!SourceType, S!Packets
    <3> HIDE DEF c
    <3>3. \A t \in S!Transfers : Packing(t, src) => Packing(t, c)
      BY <3>2 DEF Packing, S!Transfers
    <3> QED BY <3>2, <3>3 DEF c
  <2>2. CASE src.pc = "wait" /\ src.asked
    <3> USE <2>2
    <3>1. /\ c \in S!SourceType /\ c.pc # "prepare" /\ c.mail \in {"Chunk", "End"} /\ c.asked = FALSE
      <4>1. CASE src.pos < Size[file]
        <5>1. c = [src EXCEPT !.pos = @ + 1, !.mail = "Chunk", !.asked = FALSE]
          BY <4>1 DEF S!SourceGives
        <5> QED BY <2>0, <5>1 DEF S!SourceType, S!Packets
      <4>2. CASE ~ (src.pos < Size[file])
        <5>1. c = [src EXCEPT !.pc = "done", !.mail = "End", !.asked = FALSE]
          BY <4>2 DEF S!SourceGives
        <5> QED BY <5>1 DEF S!SourceType, S!Packets
      <4> QED BY <4>1, <4>2
    <3> HIDE DEF c
    <3>2. ASSUME NEW t \in S!Transfers, Packing(t, src) PROVE Packing(t, c)
      <4> USE <3>2
      <4>1. t.result = None => t.pending /\ t.stage # "Preparing" BY DEF Packing
      <4> QED BY <3>1, <4>1 DEF Packing, S!Transfers
    <3> QED BY <3>1, <3>2 DEF c
  <2> QED BY <2>1, <2>2 DEF S!SourceReady

<1>1. /\ tx \in S!SenderType /\ tx.src \in S!SourceType
      /\ tx.transfer # None => tx.transfer \in S!Transfers /\ Packing(tx.transfer, tx.src)
  BY DEF Fit, Loose, S!SenderType
<1> USE <1>1
<1>2. CASE SourceStep
  <2>1. CASE tx' = [tx EXCEPT !.src = S!SourceFails(@)]
    <3>1. tx' = [tx EXCEPT !.src = S!SourceFails(tx.src)] BY <2>1 DEF S!SenderType
    <3> QED BY <3>1, <1>SourceFailsFacts, <1>SourceBeside
  <2>2. CASE tx' = [tx EXCEPT !.src = S!SourcePanics(tx.src)]
    BY <2>2, <1>SourcePanicsFacts, <1>SourceBeside
  <2>3. CASE S!SourceReady(tx.src) /\ tx' = [tx EXCEPT !.src = S!SourceGives(@, tx.transfer.file)]
    <3> USE <2>3
    <3>1. tx' = [tx EXCEPT !.src = S!SourceGives(tx.src, tx.transfer.file)]
      BY DEF S!SenderType
    <3>2. S!SourceGives(tx.src, tx.transfer.file) \in S!SourceType
      BY <1>SourceGivesFacts
    <3>3. tx.transfer # None => Packing(tx.transfer, S!SourceGives(tx.src, tx.transfer.file))
      BY <1>SourceGivesFacts
    <3> QED BY <3>1, <3>2, <3>3, <1>SourceBeside
  <2> QED BY <1>2, <2>1, <2>2, <2>3 DEF SourceStep
<1>3. CASE Late \/ SenderPauses
  <2>1. /\ tx' \in S!SenderType /\ Keeps(tx, tx') /\ tx'.transfer = tx.transfer
        /\ tx'.src = tx.src
    <3>1. CASE Late BY <3>1 DEF Late, S!SenderType, Keeps
    <3>2. CASE SenderPauses BY <3>2 DEF SenderPauses, S!SenderType, Keeps
    <3> QED BY <1>3, <3>1, <3>2
  <2> USE <2>1
  <2>2. Selected(tx') BY DEF Fit, Loose, Selected, Keeps
  <2>3. Fit(tx') BY <2>2 DEF Fit, Loose, Keeps
  <2> QED BY <2>3 DEF Beside
<1> QED BY <1>2, <1>3

-----------------------------------------------------------------------------
(* The receiving end.  h is what the lane's owner touches.                  *)

OwnedType ==
    [rx : OwnerType, slot : SlotType, permit : BOOLEAN,
     toHost : Seq(Records), toSender : Seq(Replies)]

\* The owner, the mailbox and the worker agree on the command under way.
Mailbox(h) ==
    /\ h.slot.st = "Idle" <=> h.rx.pending = None
    /\ h.slot.st # "Idle" => h.slot.file = h.rx.pending /\ h.slot.op # None
    /\ h.slot.st = "Executing" <=> worker.pc \in Executing
    /\ worker.pc \in {"begin", "begun"} => h.slot.op = "begin"
    /\ worker.pc \in {"chunk", "written"} => h.slot.op = "chunk"
    /\ worker.pc \in {"complete", "verified"} \cup PastClock => h.slot.op = "complete"
    /\ h.slot.st \in {"Queued", "Executing"} =>
         IF h.slot.op = "begin" THEN h.rx.active = None
         ELSE h.rx.active # None /\ h.rx.active.file = h.slot.file
    /\ h.slot.st = "Complete" =>
         /\ h.slot.result # None
         /\ h.slot.result = "Begun" => h.slot.op = "begin"
         /\ h.slot.result = "Written" =>
              h.slot.op = "chunk" /\ h.rx.active # None /\ h.rx.active.file = h.slot.file
         /\ h.slot.result \in S!Published => h.slot.op = "complete"

\* The file the owner believes to be staged is the one the worker holds.
Holding(h) ==
    /\ worker.pc = "loop" /\ h.rx.active # None /\ h.slot.st \in {"Idle", "Queued"} =>
         worker.active # None /\ worker.active.file = h.rx.active.file
    /\ worker.pc = "loop" /\ h.slot.st = "Complete" /\ h.slot.result \in {"Begun", "Written"} =>
         worker.active # None /\ worker.active.file = h.slot.file
    /\ worker.pc \in Executing \ {"begin"} =>
         worker.active # None /\ worker.active.file = h.slot.file
    /\ worker.pc \in {"stop", "drain", "done", "dead"} => worker.active = None
    /\ worker.active # None => (worker.active.state = "Published" <=> worker.pc = "placed")

\* A charge is held exactly for what is on disk and not published, and a charge that is
\* kept for good is the last one: the lane takes nothing more.
Charged(h) ==
    /\ disk.failed => /\ worker.active = None /\ worker.pc \notin Executing
                      /\ \/ worker.closed \/ ~ h.permit
                         \/ h.slot.st = "Complete" /\ h.slot.result \in {"Error", "Unknown"}
    /\ worker.pc # "dead" =>
         /\ disk.reserved = IF worker.active # None \/ disk.failed THEN 1 ELSE 0
         /\ disk.part # None <=> disk.failed \/ (worker.active # None /\ worker.pc # "placed")

HostOK(h) == h \in OwnedType /\ Mailbox(h) /\ Holding(h) /\ Charged(h)

\* What has been said to the sender and not been heard yet.
SaidBy(h) ==
    {h.toSender[i] : i \in 1..Len(h.toSender)}
        \cup (IF h.rx.reply = None THEN {} ELSE {h.rx.reply})

\* The owner takes nothing from the worker and gives it nothing; a record may be thrown
\* away, and what is said is old or the refusal that was due.
Quietly(h, u) ==
    /\ u \in OwnedType /\ u.slot = h.slot
    /\ u.rx.active = h.rx.active /\ u.rx.pending = h.rx.pending
    /\ u.permit => h.permit
    /\ u.toHost = h.toHost \/ (h.toHost # << >> /\ u.toHost = Tail(h.toHost))
    /\ u.rx.refusal = None \/ u.rx.refusal = h.rx.refusal
    /\ \A m \in SaidBy(u) : \/ m \in SaidBy(h)
                            \/ h.rx.refusal # None /\ m = Answer("Refused", h.rx.refusal)

LEMMA QuietlyOK ==
    ASSUME NEW h, NEW u, HostOK(h), Quietly(h, u)
    PROVE  HostOK(u)
<1>1. Mailbox(u) BY DEF HostOK, Quietly, Mailbox
<1>2. Holding(u) BY DEF HostOK, Quietly, Holding
<1>3. Charged(u) BY DEF HostOK, Quietly, Charged
<1> QED BY <1>1, <1>2, <1>3 DEF HostOK, Quietly

\* poll_reply hands a result on.
Finishes(h, u) ==
    LET result == h.slot.result
        file == h.slot.file
    IN /\ h.slot.st = "Complete" /\ result # None
       /\ file \in Files /\ h.rx.reply = None
       /\ u \in OwnedType /\ u.slot = Idle /\ u.rx.pending = None
       /\ u.permit <=> h.permit /\ result \notin {"Error", "Unknown"}
       /\ u.toHost = h.toHost /\ u.toSender = h.toSender /\ u.rx.refusal = h.rx.refusal
       /\ result = "Begun" => u.rx.active # None /\ u.rx.active.file = file
       /\ result = "Written" => u.rx.active # None /\ u.rx.active.file = file
       /\ result \notin {"Begun", "Written"} => u.rx.active = None
       /\ u.rx.reply =
            CASE result = "Written" -> None
              [] result = "Begun" -> Answer(IF h.permit THEN "Accept" ELSE "Refused", file)
              [] result = "Error" -> Answer("Refused", file)
              [] OTHER -> Answer(result, file)

LEMMA FinishesOK ==
    ASSUME NEW h, NEW u, HostOK(h), Finishes(h, u)
    PROVE  HostOK(u)
<1>1. /\ u \in OwnedType /\ u.slot = Idle /\ u.rx.pending = None /\ h.slot.st = "Complete"
      /\ u.slot.st = "Idle"
  BY SMTT(30) DEF Finishes, Idle
<1> USE <1>1
<1>2. Mailbox(u) BY DEF HostOK, Mailbox, Executing, PastClock
<1>3. Holding(u)
  <2>1. u.rx.active # None =>
          h.slot.result \in {"Begun", "Written"} /\ u.rx.active.file = h.slot.file
    BY DEF Finishes
  <2> QED BY <2>1, <1>2 DEF HostOK, Holding, Mailbox
<1>4. Charged(u)
  <2>1. /\ u.permit => h.permit
        /\ h.slot.result \in {"Error", "Unknown"} => ~ u.permit
    BY DEF Finishes
  <2> QED BY <2>1 DEF HostOK, Charged
<1> QED BY <1>2, <1>3, <1>4 DEF HostOK

\* A record becomes the worker's next command.
Takes(h, u) ==
    LET m == Head(h.toHost)
    IN /\ h.toHost # << >> /\ m \in Records /\ h.rx.pending = None
       /\ u \in OwnedType /\ u.toHost = Tail(h.toHost) /\ u.toSender = h.toSender
       /\ u.permit = h.permit /\ u.rx.active = h.rx.active /\ u.rx.reply = h.rx.reply
       /\ u.rx.refusal = h.rx.refusal /\ u.rx.pending = m.file
       /\ u.slot.st = "Queued" /\ u.slot.file = m.file /\ u.slot.op # None
       /\ u.slot.op = "begin" <=> m.kind = "Prepared"
       /\ u.slot.op = "complete" <=> m.kind = "End"
       /\ IF u.slot.op = "begin" THEN h.rx.active = None
          ELSE h.rx.active # None /\ h.rx.active.file = m.file

LEMMA TakesOK ==
    ASSUME NEW h, NEW u, HostOK(h), Takes(h, u)
    PROVE  HostOK(u)
<1>1. /\ u \in OwnedType /\ u.slot.st = "Queued" /\ h.slot.st = "Idle"
      /\ worker.pc \notin Executing
  BY DEF Takes, HostOK, Mailbox
<1> USE <1>1
<1>2. u.rx.pending # None BY FilesAreNumbers DEF Takes, Records
<1>3. worker.pc \notin {"begin", "begun", "chunk", "written", "complete", "verified"} \cup PastClock
  BY DEF Executing, PastClock
<1>4. Mailbox(u) BY <1>2, <1>3 DEF Mailbox, Takes
<1>5. Holding(u) BY <1>3 DEF HostOK, Holding, Takes
<1>6. Charged(u) BY DEF HostOK, Charged, Takes
<1> QED BY <1>4, <1>5, <1>6 DEF HostOK

\* A fresh offer is refused before admission, and the lane is stopped.
Refusing(h, u) ==
    LET m == Head(h.toHost)
    IN /\ h.toHost # << >> /\ m \in Records /\ m.kind = "Prepared" /\ h.rx.pending = None
       /\ u \in OwnedType /\ u.toHost = Tail(h.toHost) /\ u.toSender = h.toSender
       /\ ~ u.permit /\ u.rx.active = h.rx.active /\ u.rx.reply = h.rx.reply
       /\ u.rx.refusal = m.file /\ u.rx.pending = None /\ u.slot = h.slot

LEMMA RefusingOK ==
    ASSUME NEW h, NEW u, HostOK(h), Refusing(h, u)
    PROVE  HostOK(u)
<1>1. Mailbox(u) BY DEF HostOK, Refusing, Mailbox
<1>2. Holding(u) BY DEF HostOK, Refusing, Holding
<1>3. Charged(u) BY DEF HostOK, Refusing, Charged
<1> QED BY <1>1, <1>2, <1>3 DEF HostOK, Refusing

\* A turn of the owner: the reply is cleared, a result polled, the fence noticed, and
\* at most one record taken.
OwnerChain(c, p, f, u) ==
    /\ Quietly(Owned, c)
    /\ Quietly(c, p) \/ Finishes(c, p)
    /\ Quietly(p, f)
    /\ Quietly(f, u) \/ Takes(f, u) \/ Refusing(f, u)

\* What the owner leaves alone, and the ghost of the permission's fence.
Left ==
    /\ UNCHANGED <<tx, worker, disk, standing, cut>>
    /\ fence' = IF permit /\ ~ permit' THEN [fence EXCEPT !.permit = Past(PastPermit)] ELSE fence

LEMMA OwnerChainOK ==
    ASSUME HostOK(Owned), NEW c, NEW p, NEW f, NEW u, OwnerChain(c, p, f, u)
    PROVE  /\ HostOK(c) /\ HostOK(p) /\ HostOK(f) /\ HostOK(u)
           /\ u.permit => permit
<1>1. HostOK(c) BY QuietlyOK DEF OwnerChain
<1>2. HostOK(p) BY <1>1, QuietlyOK, FinishesOK DEF OwnerChain
<1>3. HostOK(f) BY <1>2, QuietlyOK DEF OwnerChain
<1>4. HostOK(u) BY <1>3, QuietlyOK, TakesOK, RefusingOK DEF OwnerChain
<1>5. c.permit => permit BY DEF OwnerChain, Quietly, Owned
<1>6. p.permit => c.permit BY DEF OwnerChain, Quietly, Finishes
<1>7. f.permit => p.permit BY DEF OwnerChain, Quietly
<1>8. u.permit => f.permit BY DEF OwnerChain, Quietly, Takes, Refusing
<1> QED BY <1>1, <1>2, <1>3, <1>4, <1>5, <1>6, <1>7, <1>8

LEMMA OwnerShape ==
    ASSUME HostOK(Owned), OwnerTurn \/ OwnerCollects \/ OwnerStops
    PROVE  \E c, p, f : OwnerChain(c, p, f, Owned') /\ Left

<1>QuietlySelf.
    ASSUME NEW h \in OwnedType
    PROVE  Quietly(h, h)
  BY DEF Quietly

\* Only the owner's bookkeeping of its reply changes.
<1>OwnerTyped.
    ASSUME NEW h \in OwnedType
    PROVE  /\ h.rx \in OwnerType /\ h.slot \in SlotType /\ h.permit \in BOOLEAN
           /\ h.toHost \in Seq(Records) /\ h.toSender \in Seq(Replies)
  BY DEF OwnedType

<1>ClearedQuiet.
    ASSUME NEW h \in OwnedType, NEW drained
    PROVE  Quietly(h, Cleared(h, drained))
  <2> DEFINE u == Cleared(h, drained)
  <2>1. CASE ~ (h.rx.sent /\ drained) BY <2>1, <1>QuietlySelf DEF Cleared
  <2>2. CASE h.rx.sent /\ drained
    <3> DEFINE r == [h.rx EXCEPT !.reply = None, !.sent = FALSE]
    <3>1. u = [h EXCEPT !.rx = r] BY <2>2 DEF Cleared, OwnedType
    <3>2. /\ r \in OwnerType /\ r.active = h.rx.active /\ r.pending = h.rx.pending
          /\ r.refusal = h.rx.refusal /\ r.reply = None
      BY <1>OwnerTyped DEF OwnerType
    <3> USE <3>2
    <3> HIDE DEF r
    <3>3. /\ u \in OwnedType /\ u.rx = r /\ u.slot = h.slot /\ u.permit = h.permit
          /\ u.toHost = h.toHost /\ u.toSender = h.toSender
      BY <3>1 DEF OwnedType
    <3> HIDE DEF u
    <3>4. \A m \in SaidBy(u) : m \in SaidBy(h) BY <3>3 DEF SaidBy
    <3> QED BY <3>3, <3>4 DEF Quietly, u
  <2> QED BY <2>1, <2>2

<1>FencedQuiet.
    ASSUME NEW h \in OwnedType
    PROVE  Quietly(h, Fenced(h))
  <2> DEFINE u == Fenced(h)
  <2>1. CASE h.permit BY <2>1, <1>QuietlySelf DEF Fenced
  <2>2. CASE ~ h.permit
    <3> DEFINE r == [h.rx EXCEPT !.state = "Draining"]
    <3>1. u = [h EXCEPT !.rx = r] BY <2>2 DEF Fenced, OwnedType
    <3>2. /\ r \in OwnerType /\ r.active = h.rx.active /\ r.pending = h.rx.pending
          /\ r.refusal = h.rx.refusal /\ r.reply = h.rx.reply
      BY <1>OwnerTyped DEF OwnerType
    <3> USE <3>2
    <3> HIDE DEF r
    <3>3. /\ u \in OwnedType /\ u.rx = r /\ u.slot = h.slot /\ u.permit = h.permit
          /\ u.toHost = h.toHost /\ u.toSender = h.toSender
      BY <3>1 DEF OwnedType
    <3> HIDE DEF u
    <3>4. \A m \in SaidBy(u) : m \in SaidBy(h) BY <3>3 DEF SaidBy
    <3> QED BY <3>3, <3>4 DEF Quietly, u
  <2> QED BY <2>1, <2>2

<1>RetiredQuiet.
    ASSUME NEW h \in OwnedType
    PROVE  Quietly(h, Retired(h))
  <2> DEFINE u == Retired(h)
             r == [h.rx EXCEPT !.state = "Retired", !.reply = None, !.sent = FALSE]
  <2>1. u = [h EXCEPT !.permit = FALSE, !.rx = r] BY DEF Retired, OwnedType
  <2>2. /\ r \in OwnerType /\ r.active = h.rx.active /\ r.pending = h.rx.pending
        /\ r.refusal = h.rx.refusal /\ r.reply = None
    BY <1>OwnerTyped DEF OwnerType
  <2> USE <2>2
  <2> HIDE DEF r
  <2>3. /\ u \in OwnedType /\ u.rx = r /\ u.slot = h.slot /\ u.permit = FALSE
        /\ u.toHost = h.toHost /\ u.toSender = h.toSender
    BY <2>1 DEF OwnedType
  <2> HIDE DEF u
  <2>4. \A m \in SaidBy(u) : m \in SaidBy(h) BY <2>3 DEF SaidBy
  <2> QED BY <2>3, <2>4 DEF Quietly, u

<1>AnsweredQuiet.
    ASSUME NEW h \in OwnedType, h.rx.reply # None, NEW room
    PROVE  Quietly(h, Answered(h, room))
  <2> USE <1>AnsweredQuiet
  <2> DEFINE u == Answered(h, room)
  <2>1. CASE h.rx.sent \/ ~ room BY <2>1, <1>QuietlySelf DEF Answered
  <2>2. CASE ~ (h.rx.sent \/ ~ room)
    <3> DEFINE r == [h.rx EXCEPT !.sent = TRUE]
               q == Append(h.toSender, h.rx.reply)
    <3>1. u = [h EXCEPT !.toSender = q, !.rx = r] BY <2>2 DEF Answered, OwnedType
    <3>2. /\ r \in OwnerType /\ r.active = h.rx.active /\ r.pending = h.rx.pending
          /\ r.refusal = h.rx.refusal /\ r.reply = h.rx.reply
      BY <1>OwnerTyped DEF OwnerType
    <3> USE <3>2
    <3>3. h.rx.reply \in Replies /\ h.toSender \in Seq(Replies) BY <1>OwnerTyped DEF OwnerType
    <3>4. q \in Seq(Replies) BY <3>3, SMTT(30)
    <3>5. \A i \in 1..Len(q) : q[i] = h.rx.reply \/ (i \in 1..Len(h.toSender) /\ q[i] = h.toSender[i])
      BY <3>3, SMTT(30)
    <3> HIDE DEF r, q
    <3>6. /\ u \in OwnedType /\ u.rx = r /\ u.slot = h.slot /\ u.permit = h.permit
          /\ u.toHost = h.toHost /\ u.toSender = q
      BY <3>1, <3>4 DEF OwnedType
    <3> HIDE DEF u
    <3>7. \A m \in SaidBy(u) : m \in SaidBy(h) BY <3>5, <3>6 DEF SaidBy
    <3> QED BY <3>6, <3>7 DEF Quietly, u
  <2> QED BY <2>1, <2>2

\* The refusal that was due becomes the reply.
<1>RefusalQuiet.
    ASSUME NEW h \in OwnedType, h.rx.reply = None, h.rx.refusal # None
    PROVE  Quietly(h, [h EXCEPT !.rx.reply = Answer("Refused", h.rx.refusal), !.rx.refusal = None])
  <2> USE <1>RefusalQuiet
  <2> DEFINE a == Answer("Refused", h.rx.refusal)
             u == [h EXCEPT !.rx.reply = a, !.rx.refusal = None]
             r == [h.rx EXCEPT !.reply = a, !.refusal = None]
  <2>1. u = [h EXCEPT !.rx = r] BY DEF OwnedType
  <2>2. h.rx \in OwnerType BY <1>OwnerTyped
  <2>3. a \in Replies BY <2>2 DEF OwnerType, Answer, Replies
  <2>4. a # None BY <2>3, NoneAssumption
  <2> HIDE DEF a
  <2>5. /\ r \in OwnerType /\ r.active = h.rx.active /\ r.pending = h.rx.pending
        /\ r.refusal = None /\ r.reply = a
    BY <2>2, <2>3 DEF OwnerType
  <2> USE <2>5
  <2> HIDE DEF r
  <2>6. /\ u \in OwnedType /\ u.rx = r /\ u.slot = h.slot /\ u.permit = h.permit
        /\ u.toHost = h.toHost /\ u.toSender = h.toSender
    BY <2>1 DEF OwnedType
  <2> HIDE DEF u
  <2>7. \A m \in SaidBy(u) : m \in SaidBy(h) \/ m = a BY <2>4, <2>6 DEF SaidBy
  <2> QED BY <2>6, <2>7 DEF Quietly, u, a

<1>RepliedFacts.
    ASSUME NEW h, HostOK(h), h.rx.reply = None, h.rx.pending # None, h.slot.st = "Complete"
    PROVE  Finishes(h, Replied(h))
  <2> USE <1>RepliedFacts
  <2> DEFINE result == h.slot.result
             file == h.rx.pending
             reply == CASE result = "Written" -> None
                        [] result = "Begun" -> Answer(IF h.permit THEN "Accept" ELSE "Refused", file)
                        [] result = "Error" -> Answer("Refused", file)
                        [] OTHER -> Answer(result, file)
             active == CASE result = "Begun" -> [file |-> file, staged |-> 0]
                         [] result = "Written" -> [h.rx.active EXCEPT !.staged = @ + 1]
                         [] OTHER -> None
             r == [h.rx EXCEPT !.reply = reply, !.active = active, !.pending = None, !.last = file]
             p == h.permit /\ result \notin {"Error", "Unknown"}
             u == Replied(h)
  <2>1. /\ h \in OwnedType /\ h.rx \in OwnerType /\ h.slot \in SlotType
    BY <1>OwnerTyped DEF HostOK
  <2> USE <2>1
  <2>2. /\ result # None /\ result \in Results /\ file = h.slot.file /\ file \in Files
        /\ result = "Written" => h.rx.active # None /\ h.rx.active.file = file
    BY DEF HostOK, Mailbox, SlotType, OwnerType
  <2> USE <2>2
  <2>3. /\ active \in [file : Files, staged : Nat] \cup {None}
        /\ result \in {"Begun", "Written"} => active # None /\ active.file = file
        /\ result \notin {"Begun", "Written"} => active = None
    <3>1. CASE result = "Begun"
      <4> USE <3>1
      <4>1. active = [file |-> file, staged |-> 0] OBVIOUS
      <4>2. active \in [file : Files, staged : Nat] /\ active.file = file BY <4>1
      <4> QED BY <4>2, NoneAssumption
    <3>2. CASE result = "Written"
      <4> USE <3>2
      <4>1. active = [h.rx.active EXCEPT !.staged = @ + 1] OBVIOUS
      <4>2. h.rx.active \in [file : Files, staged : Nat] BY DEF OwnerType
      <4>3. active \in [file : Files, staged : Nat] /\ active.file = file BY <4>1, <4>2, SMTT(30)
      <4> QED BY <4>3, NoneAssumption
    <3>3. CASE result \notin {"Begun", "Written"} BY <3>3
    <3> QED BY <3>1, <3>2, <3>3
  <2>4. reply \in Replies \cup {None} BY DEF Replies, Answer, Results
  <2>5. u = [h EXCEPT !.slot = Idle, !.permit = p, !.rx = r] BY DEF Replied, OwnedType
  <2>6. Idle \in SlotType BY DEF Idle, SlotType
  <2>7. p \in BOOLEAN BY DEF OwnedType
  <2>8. file \in Nat BY FilesAreNumbers
  <2> HIDE DEF reply, active, p
  <2>9. /\ r \in OwnerType /\ r.reply = reply /\ r.active = active /\ r.pending = None
        /\ r.refusal = h.rx.refusal
    BY <2>3, <2>4, <2>8 DEF OwnerType
  <2> USE <2>9
  <2> HIDE DEF r
  <2>10. /\ u \in OwnedType /\ u.rx = r /\ u.slot = Idle /\ u.permit = p
         /\ u.toHost = h.toHost /\ u.toSender = h.toSender
    BY <2>5, <2>6, <2>7 DEF OwnedType
  <2> USE <2>10
  <2> HIDE DEF u
  <2>11. u.permit <=> h.permit /\ result \notin {"Error", "Unknown"} BY DEF p
  <2>12. u.rx.reply = reply OBVIOUS
  <2> QED BY <2>3, <2>11, <2>12 DEF Finishes, u, reply

\* push_enveloped asks for what the record's kind says, about the file it names.
<1>CommandFacts.
    ASSUME NEW r \in OwnerType, NEW m \in Records, Command(r, m) # None
    PROVE  /\ Command(r, m) \in Commands
           /\ Command(r, m) = "begin" <=> m.kind = "Prepared"
           /\ Command(r, m) = "complete" <=> m.kind = "End"
           /\ IF Command(r, m) = "begin" THEN r.active = None
              ELSE r.active # None /\ r.active.file = m.file
  <2> USE <1>CommandFacts
  <2>1. m.kind \in {"Prepared", "Chunk", "End"} BY DEF Records, S!Packets
  <2>2. CASE m.kind = "Prepared" BY <2>2 DEF Command, Commands
  <2>3. CASE m.kind = "Chunk" BY <2>3 DEF Command, Commands
  <2>4. CASE m.kind = "End" BY <2>4 DEF Command, Commands
  <2> QED BY <2>1, <2>2, <2>3, <2>4

<1>QueuedFacts.
    ASSUME NEW op \in Commands, NEW f \in Nat
    PROVE  LET w == [Idle EXCEPT !.st = "Queued", !.op = op, !.file = f]
           IN w \in SlotType /\ w.st = "Queued" /\ w.op = op /\ w.file = f
  <2> DEFINE i == Idle
             w == [i EXCEPT !.st = "Queued", !.op = op, !.file = f]
  <2>1. i \in SlotType BY DEF Idle, SlotType
  <2> HIDE DEF i
  <2>2. w \in SlotType /\ w.st = "Queued" /\ w.op = op /\ w.file = f BY <2>1 DEF SlotType
  <2> QED BY <2>2 DEF i

<1>ReceivedShape.
    ASSUME NEW h, h \in OwnedType, NEW refuse \in BOOLEAN, refuse => Refusable(h)
    PROVE  LET u == Received(h, refuse)
           IN Quietly(h, u) \/ Takes(h, u) \/ Refusing(h, u)
  <2> USE <1>ReceivedShape
  <2> DEFINE m == Head(h.toHost)
             taken == [h EXCEPT !.toHost = Tail(h.toHost)]
             op == Command(h.rx, m)
             u == Received(h, refuse)
  <2>1. CASE h.rx.pending # None \/ h.toHost = << >> BY <2>1, <1>QuietlySelf DEF Received
  <2>2. CASE ~ (h.rx.pending # None \/ h.toHost = << >>)
    <3> USE <2>2
    <3>1. h.rx \in OwnerType /\ h.slot \in SlotType /\ h.toHost \in Seq(Records) BY <1>OwnerTyped
    <3> USE <3>1
    <3>2. m \in Records /\ Tail(h.toHost) \in Seq(Records) BY SMTT(30)
    <3> USE <3>2
    <3>3. m.file \in Files /\ m.file \in Nat BY FilesAreNumbers DEF Records
    <3> USE <3>3
    <3>4. /\ taken \in OwnedType /\ taken.toHost = Tail(h.toHost) /\ taken.rx = h.rx
          /\ taken.slot = h.slot /\ taken.permit = h.permit /\ taken.toSender = h.toSender
      BY DEF OwnedType
    <3> USE <3>4
    <3>5. u = IF op = None THEN Retired(taken)
              ELSE IF refuse THEN [taken EXCEPT !.permit = FALSE, !.rx.refusal = m.file]
              ELSE [taken EXCEPT !.rx.pending = m.file,
                                 !.slot = [Idle EXCEPT !.st = "Queued", !.op = op, !.file = m.file]]
      BY DEF Received, OwnedType
    <3> USE <3>5
    <3> HIDE DEF taken, u
    <3>6. CASE op = None
      <4>1. u = Retired(taken) BY <3>6
      <4>2. Quietly(taken, u) BY <4>1, <1>RetiredQuiet
      <4>3. u.toHost = taken.toHost BY <4>1 DEF Retired, OwnedType
      <4>4. SaidBy(taken) = SaidBy(h) BY DEF SaidBy
      <4>5. Quietly(h, u) BY <4>2, <4>3, <4>4 DEF Quietly
      <4> QED BY <4>5 DEF u
    <3>7. CASE op # None /\ refuse
      <4> USE <3>7
      <4> DEFINE r == [h.rx EXCEPT !.refusal = m.file]
      <4>1. u = [taken EXCEPT !.permit = FALSE, !.rx = r] BY DEF OwnedType
      <4>2. /\ r \in OwnerType /\ r.active = h.rx.active /\ r.pending = h.rx.pending
            /\ r.refusal = m.file /\ r.reply = h.rx.reply
        BY DEF OwnerType
      <4> HIDE DEF r
      <4>3. /\ u \in OwnedType /\ u.rx = r /\ u.slot = h.slot /\ u.permit = FALSE
            /\ u.toHost = Tail(h.toHost) /\ u.toSender = h.toSender
        BY <4>1, <4>2 DEF OwnedType
      <4>4. m.kind = "Prepared" BY DEF Refusable
      <4>5. Refusing(h, u) BY <4>2, <4>3, <4>4 DEF Refusing
      <4> QED BY <4>5 DEF u
    <3>8. CASE op # None /\ ~ refuse
      <4> USE <3>8
      <4> DEFINE r == [h.rx EXCEPT !.pending = m.file]
                 w == [Idle EXCEPT !.st = "Queued", !.op = op, !.file = m.file]
      <4>1. u = [taken EXCEPT !.rx = r, !.slot = w] BY DEF OwnedType
      <4>2. /\ op \in Commands
            /\ op = "begin" <=> m.kind = "Prepared"
            /\ op = "complete" <=> m.kind = "End"
            /\ IF op = "begin" THEN h.rx.active = None
               ELSE h.rx.active # None /\ h.rx.active.file = m.file
        BY <1>CommandFacts
      <4>3. /\ r \in OwnerType /\ r.active = h.rx.active /\ r.pending = m.file
            /\ r.refusal = h.rx.refusal /\ r.reply = h.rx.reply
        BY DEF OwnerType
      <4>4. w \in SlotType /\ w.st = "Queued" /\ w.op = op /\ w.file = m.file
        BY <4>2, <1>QueuedFacts
      <4> HIDE DEF r, op, w
      <4>5. /\ u \in OwnedType /\ u.rx = r /\ u.slot = w /\ u.permit = h.permit
            /\ u.toHost = Tail(h.toHost) /\ u.toSender = h.toSender
        BY <4>1, <4>3, <4>4 DEF OwnedType
      <4>6. Takes(h, u) BY <4>2, <4>3, <4>4, <4>5 DEF Takes
      <4> QED BY <4>6 DEF u
    <3> QED BY <3>6, <3>7, <3>8
  <2> QED BY <2>1, <2>2

<1>PollsShape.
    ASSUME NEW h, HostOK(h)
    PROVE  Quietly(h, Polls(h)) \/ Finishes(h, Polls(h))
  <2> USE <1>PollsShape
  <2>0. h \in OwnedType BY DEF HostOK
  <2> USE <2>0
  <2>1. CASE h.rx.reply # None BY <2>1, <1>QuietlySelf DEF Polls
  <2>2. CASE h.rx.reply = None /\ h.rx.refusal # None
    <3> USE <2>2
    <3>1. Polls(h) = [h EXCEPT !.rx.reply = Answer("Refused", h.rx.refusal), !.rx.refusal = None]
      BY DEF Polls
    <3> QED BY <3>1, <1>RefusalQuiet
  <2>3. CASE h.rx.reply = None /\ h.rx.refusal = None /\ h.rx.pending # None /\ h.slot.st = "Complete"
    <3> USE <2>3
    <3>1. Polls(h) = Replied(h) BY DEF Polls
    <3> QED BY <3>1, <1>RepliedFacts
  <2>4. CASE h.rx.reply = None /\ h.rx.refusal = None /\ ~ (h.rx.pending # None /\ h.slot.st = "Complete")
    <3>1. Polls(h) = h BY <2>4 DEF Polls
    <3> QED BY <3>1, <1>QuietlySelf
  <2> QED BY <2>1, <2>2, <2>3, <2>4

<1>LeavesOwned.
    ASSUME Owned \in OwnedType, NEW u \in OwnedType, u.permit => permit, Leaves(u)
    PROVE  Owned' = u /\ Left
  <2> USE <1>LeavesOwned
  <2>1. permit \in BOOLEAN /\ u.permit \in BOOLEAN BY DEF Owned, OwnedType
  <2> USE <2>1
  <2>2. permit' = u.permit
    <3>1. CASE permit /\ ~ u.permit BY <3>1 DEF Leaves, Revoke
    <3>2. CASE ~ (permit /\ ~ u.permit)
      <4> USE <3>2
      <4>1. permit' = permit BY DEF Leaves, Approved
      <4>2. permit = u.permit BY SMTT(30)
      <4> QED BY <4>1, <4>2
    <3> QED BY <3>1, <3>2
  <2>3. u = [rx |-> u.rx, slot |-> u.slot, permit |-> u.permit, toHost |-> u.toHost,
             toSender |-> u.toSender]
    BY DEF OwnedType
  <2>4. Owned' = [rx |-> u.rx, slot |-> u.slot, permit |-> u.permit, toHost |-> u.toHost,
                  toSender |-> u.toSender]
    BY <2>2 DEF Owned, Leaves
  <2>5. Left BY <2>2 DEF Left, Leaves, Revoke, Approved
  <2> QED BY <2>3, <2>4, <2>5

<1>0. Owned \in OwnedType BY DEF HostOK
<1> USE <1>0
<1>1. ASSUME NEW c, NEW p, NEW f, NEW u, OwnerChain(c, p, f, u), Leaves(u)
      PROVE  \E cc, pp, ff : OwnerChain(cc, pp, ff, Owned') /\ Left
  <2> USE <1>1
  <2>1. u \in OwnedType /\ (u.permit => permit) BY OwnerChainOK DEF HostOK
  <2>2. Owned' = u /\ Left BY <2>1, <1>LeavesOwned
  <2> QED BY <2>2
<1>2. Quietly(Owned, Owned) BY <1>QuietlySelf
<1> USE <1>2
<1>3. CASE OwnerCollects
  <2> DEFINE p == Polls(Owned)
  <2>1. Quietly(Owned, p) \/ Finishes(Owned, p) BY <1>PollsShape
  <2> HIDE DEF p
  <2>2. p \in OwnedType BY <2>1 DEF Quietly, Finishes
  <2>3. OwnerChain(Owned, p, p, p) BY <2>1, <2>2, <1>QuietlySelf DEF OwnerChain
  <2>4. Leaves(p) BY <1>3 DEF OwnerCollects, p
  <2> QED BY <1>1, <2>3, <2>4
<1>4. CASE OwnerStops
  <2>1. /\ rx' = [rx EXCEPT !.state = "Draining"] /\ permit' = FALSE
        /\ UNCHANGED <<tx, slot, worker, disk, standing, toHost, toSender, cut>>
        /\ fence' = IF permit THEN [fence EXCEPT !.permit = Past(PastPermit)] ELSE fence
    BY <1>4 DEF OwnerStops, Revoke, lane
  <2> USE <2>1
  <2>2. rx \in OwnerType BY DEF Owned, OwnedType
  <2>3. /\ rx' \in OwnerType /\ rx'.active = rx.active /\ rx'.pending = rx.pending
        /\ rx'.refusal = rx.refusal /\ rx'.reply = rx.reply
    BY <2>2 DEF OwnerType
  <2> USE <2>3
  <2>4. Owned' \in OwnedType BY DEF Owned, OwnedType
  <2>5. SaidBy(Owned') = SaidBy(Owned) BY DEF SaidBy, Owned
  <2>6. Quietly(Owned, Owned') BY <2>4, <2>5 DEF Quietly, Owned
  <2>7. OwnerChain(Owned, Owned, Owned, Owned') BY <2>6 DEF OwnerChain
  <2>8. Left BY DEF Left
  <2> QED BY <2>7, <2>8
<1>5. CASE OwnerTurn
  <2>1. CASE Noticed /\ UNCHANGED faults /\ Leaves(Retired(Polls(Owned)))
    <3> DEFINE p == Polls(Owned)
    <3>1. Quietly(Owned, p) \/ Finishes(Owned, p) BY <1>PollsShape
    <3> HIDE DEF p
    <3>2. p \in OwnedType BY <3>1 DEF Quietly, Finishes
    <3>3. OwnerChain(Owned, p, p, Retired(p))
      BY <3>1, <3>2, <1>QuietlySelf, <1>RetiredQuiet DEF OwnerChain
    <3>4. Leaves(Retired(p)) BY <2>1 DEF p
    <3> QED BY <1>1, <3>3, <3>4
  <2>2. ASSUME NEW drained,
               \E h \in {Fenced(Polls(Cleared(Owned, drained)))} :
                 \/ \E room \in (IF h.rx.reply # None THEN BOOLEAN ELSE {FALSE}) :
                       Leaves(Serves(h, room)) /\ UNCHANGED faults
                 \/ h.rx.reply # None /\ Spend(1) /\ Leaves(Retired(h))
                 \/ Refusable(h) /\ Spend(1) /\ Leaves(Received(h, TRUE))
        PROVE  \E cc, pp, ff : OwnerChain(cc, pp, ff, Owned') /\ Left
    <3> DEFINE c == Cleared(Owned, drained)
               p == Polls(c)
               h == Fenced(p)
    <3>1. Quietly(Owned, c) BY <1>ClearedQuiet
    <3>2. HostOK(c) BY <3>1, QuietlyOK
    <3>3. \/ \E room : Leaves(Serves(h, room))
          \/ h.rx.reply # None /\ Leaves(Retired(h))
          \/ Refusable(h) /\ Leaves(Received(h, TRUE))
      BY <2>2
    <3> HIDE DEF c
    <3>4. Quietly(c, p) \/ Finishes(c, p) BY <3>2, <1>PollsShape
    <3> HIDE DEF p
    <3>5. p \in OwnedType BY <3>4 DEF Quietly, Finishes
    <3>6. Quietly(p, h) BY <3>5, <1>FencedQuiet
    <3>7. h \in OwnedType BY <3>6 DEF Quietly
    <3> USE <3>7
    <3> HIDE DEF h
    <3>8. ASSUME NEW u, Quietly(h, u) \/ Takes(h, u) \/ Refusing(h, u), Leaves(u)
          PROVE  \E cc, pp, ff : OwnerChain(cc, pp, ff, Owned') /\ Left
      <4> USE <3>8
      <4>1. OwnerChain(c, p, h, u) BY <3>1, <3>4, <3>6 DEF OwnerChain
      <4> QED BY <1>1, <4>1
    <3>9. ASSUME NEW room, Leaves(Serves(h, room))
          PROVE  \E cc, pp, ff : OwnerChain(cc, pp, ff, Owned') /\ Left
      <4> USE <3>9
      <4>1. CASE h.rx.reply # None
        <5> USE <4>1
        <5>1. Serves(h, room) = Answered(h, room) BY DEF Serves
        <5> QED BY <3>8, <5>1, <1>AnsweredQuiet
      <4>2. CASE h.rx.reply = None /\ h.rx.state # "Draining"
        <5>1. Serves(h, room) = Received(h, FALSE) BY <4>2 DEF Serves
        <5> DEFINE u == Received(h, FALSE)
        <5>2. Quietly(h, u) \/ Takes(h, u) \/ Refusing(h, u) BY <1>ReceivedShape
        <5> QED BY <3>8, <5>1, <5>2
      <4>3. CASE h.rx.reply = None /\ h.rx.state = "Draining"
        <5>1. Serves(h, room) = h \/ Serves(h, room) = Retired(h) BY <4>3 DEF Serves
        <5> QED BY <3>8, <5>1, <1>QuietlySelf, <1>RetiredQuiet
      <4> QED BY <4>1, <4>2, <4>3
    <3>10. CASE Leaves(Retired(h)) BY <3>8, <3>10, <1>RetiredQuiet
    <3>11. CASE Refusable(h) /\ Leaves(Received(h, TRUE))
      <4> USE <3>11
      <4> DEFINE u == Received(h, TRUE)
      <4>1. Quietly(h, u) \/ Takes(h, u) \/ Refusing(h, u) BY <1>ReceivedShape
      <4> QED BY <3>8, <4>1
    <3> QED BY <3>3, <3>9, <3>10, <3>11
  <2> QED BY <1>5, <2>1, <2>2 DEF OwnerTurn
<1> QED BY <1>3, <1>4, <1>5

-----------------------------------------------------------------------------
(* The disk worker.                                                        *)

\* The names in the directory, and which of them are durable, are as they were.
SameShelf == disk'.entry = disk.entry /\ disk'.synced = disk.synced /\ disk'.lost = disk.lost

\* What the worker leaves alone; a permission is never given back.
Apart == UNCHANGED <<rx, toHost, toSender>> /\ permit' \in BOOLEAN /\ (permit' => permit)

\* The pending object, if any, is dropped.
DropsDisk ==
    IF worker.active = None THEN disk' = disk
    ELSE \E ok \in Unlinks(worker.active) : disk' = Drop(disk, ok)

LEMMA OwnedParts ==
    ASSUME HostOK(Owned)
    PROVE  /\ rx \in OwnerType /\ slot \in SlotType /\ permit \in BOOLEAN
           /\ toHost \in Seq(Records) /\ toSender \in Seq(Replies)
BY DEF HostOK, Owned, OwnedType

LEMMA OwnedNext ==
    ASSUME HostOK(Owned), Apart, slot' \in SlotType
    PROVE  Owned' \in OwnedType
BY OwnedParts DEF Apart, Owned, OwnedType

HostInv == HostOK(Owned) /\ worker \in WorkerType /\ disk \in DirectoryType

\* The shapes of the worker's steps: a result is stored, ...
Stores ==
    /\ worker.pc \in Executing /\ worker'.pc = "loop" /\ SameShelf
    /\ slot'.st = "Complete" /\ slot'.op = slot.op /\ slot'.file = slot.file
    /\ \/ slot'.result = "Unknown"
       \/ slot'.result = "Error" /\ worker.pc # "placed"
       \/ slot'.result = "Begun" /\ worker.pc = "begun"
       \/ slot'.result = "Written" /\ worker.pc = "written"
    /\ worker'.active \in {worker.active, None}
    /\ \/ worker'.floor = worker.floor
       \/ worker.pc = "begin" /\ worker.floor < slot.file /\ worker'.floor = slot.file

\* ... a command is taken or goes on, ...
Moves ==
    /\ slot.st \in {"Queued", "Executing"} /\ slot'.st = "Executing"
    /\ slot'.op = slot.op /\ slot'.file = slot.file /\ disk'.failed = disk.failed
    /\ worker.pc # "placed" /\ worker'.pc \in Executing \ {"placed"} /\ SameShelf
    /\ \/ /\ slot.st = "Queued" /\ worker.pc = "loop" /\ worker'.pc \in Commands
          /\ worker'.active = worker.active /\ worker'.floor = worker.floor
       \/ /\ slot.st = "Executing" /\ worker.active # None /\ worker'.active # None
          /\ worker'.active.file = worker.active.file /\ worker'.floor = worker.floor
          /\ worker'.pc # "begin"
       \/ /\ slot.st = "Executing" /\ worker.pc = "begin" /\ worker.active = None
          /\ worker'.pc = "begun" /\ worker'.active # None /\ worker'.active.file = slot.file
          /\ worker.floor < slot.file /\ worker'.floor = slot.file
    /\ worker'.pc \in PastClock =>
         \/ worker.pc \in PastClock /\ worker'.timely = worker.timely
         \/ worker'.timely <=> standing # "late"
    /\ worker'.pc \in PastPermit => worker.pc \in PastPermit \/ permit
    /\ worker'.pc \in PastStanding =>
         \/ worker.pc \in PastStanding /\ worker'.timely = worker.timely
         \/ worker'.timely /\ standing # "revoked"

\* ... the loop ends, ...
Idles ==
    /\ worker.pc \in {"loop", "stop", "drain"} /\ worker'.pc \in {"stop", "drain", "done"}
    /\ worker'.active = None /\ worker'.floor = worker.floor /\ SameShelf
    /\ \/ slot' = slot
       \/ /\ slot.st = "Queued" /\ slot'.st = "Complete" /\ slot'.result = "Error"
          /\ slot'.op = slot.op /\ slot'.file = slot.file

\* ... a file appears, or the directory has been synced or not.
Publishes ==
    /\ worker.pc = "publish" /\ worker.active # None /\ ~ Occupied(disk, worker.active)
    /\ disk' = Publish(disk, worker.active) /\ slot' = slot
    /\ worker'.pc = "placed" /\ worker'.active # None /\ worker'.floor = worker.floor
    /\ worker'.active.file = worker.active.file /\ worker'.timely = worker.timely

Syncs ==
    /\ worker.pc = "placed" /\ worker'.pc = "loop" /\ worker'.active = None
    /\ worker'.floor = worker.floor /\ disk'.entry = disk.entry /\ disk'.lost = disk.lost
    /\ slot'.st = "Complete" /\ slot'.op = slot.op /\ slot'.file = slot.file
    /\ \/ slot'.result = "Durable" /\ disk'.synced = {n \in Names : disk.entry[n] # None}
       \/ slot'.result = "DurabilityUnknown" /\ disk'.synced = disk.synced

\* The worker at work on a command.
LEMMA ExecFacts ==
    ASSUME HostInv, worker.pc \in Executing
    PROVE  /\ slot \in SlotType /\ slot.st = "Executing" /\ ~ disk.failed
           /\ slot.file \in Files /\ slot.op \in Commands
           /\ disk.reserved = IF worker.active # None THEN 1 ELSE 0
           /\ disk.part # None <=> worker.active # None /\ worker.pc # "placed"
           /\ worker.active # None => worker.active \in Pendings
           /\ worker.pc # "begin" => worker.active # None /\ worker.active.file = slot.file
           /\ worker.active # None => (worker.active.state = "Published" <=> worker.pc = "placed")
           /\ worker.pc \in {"begin", "begun"} => slot.op = "begin"
           /\ worker.pc \in {"chunk", "written"} => slot.op = "chunk"
           /\ worker.pc \in {"complete", "verified"} \cup PastClock => slot.op = "complete"
<1>1. /\ Owned.slot = slot /\ Owned.rx = rx /\ HostOK(Owned) /\ worker \in WorkerType
      /\ worker.pc # "dead"
  BY DEF Owned, HostInv, Executing
<1> USE <1>1
<1>2. slot \in SlotType /\ rx \in OwnerType BY OwnedParts
<1>3. /\ slot.st = "Executing" /\ slot.file = rx.pending /\ slot.op # None /\ rx.pending # None
      /\ worker.pc \in {"begin", "begun"} => slot.op = "begin"
      /\ worker.pc \in {"chunk", "written"} => slot.op = "chunk"
      /\ worker.pc \in {"complete", "verified"} \cup PastClock => slot.op = "complete"
  BY DEF HostOK, Mailbox
<1>4. slot.file \in Files /\ slot.op \in Commands BY <1>2, <1>3 DEF SlotType, OwnerType
<1>5. /\ ~ disk.failed
      /\ disk.reserved = IF worker.active # None THEN 1 ELSE 0
      /\ disk.part # None <=> worker.active # None /\ worker.pc # "placed"
  BY DEF HostOK, Charged
<1>6. /\ worker.pc # "begin" => worker.active # None /\ worker.active.file = slot.file
      /\ worker.active # None => (worker.active.state = "Published" <=> worker.pc = "placed")
  BY DEF HostOK, Holding
<1>7. worker.active # None => worker.active \in Pendings BY DEF WorkerType
<1> QED BY <1>2, <1>3, <1>4, <1>5, <1>6, <1>7

\* A command that goes on at pc, with a staged and the clock's verdict t.
Turns(a, t, pc) == worker' = [worker EXCEPT !.active = a, !.timely = t, !.pc = pc]

LEMMA PublishDisk ==
    ASSUME NEW d \in DirectoryType, NEW a \in Pendings
    PROVE  /\ Target(a) \in Names
           /\ Publish(d, a) \in DirectoryType
           /\ Publish(d, a).entry = [d.entry EXCEPT ![Target(a)] = a.file]
           /\ Publish(d, a).part = None /\ Publish(d, a).synced = d.synced
           /\ Publish(d, a).lost = d.lost /\ Publish(d, a).reserved = d.reserved
           /\ Publish(d, a).failed = d.failed
<1>1. Target(a) \in Names /\ a.file \in Files BY DEF Target, Names, Pendings
<1> DEFINE f == [d.entry EXCEPT ![Target(a)] = a.file]
           e == [d EXCEPT !.entry = f]
<1>2. f \in [Names -> Files \cup {Local, None}] BY <1>1 DEF DirectoryType
<1>3. Publish(d, a) = [e EXCEPT !.part = None] BY DEF Publish
<1> HIDE DEF f
<1>4. /\ e \in DirectoryType /\ e.entry = f /\ e.synced = d.synced /\ e.lost = d.lost
      /\ e.reserved = d.reserved /\ e.failed = d.failed
  BY <1>2 DEF DirectoryType
<1> HIDE DEF e
<1>5. /\ [e EXCEPT !.part = None] \in DirectoryType
      /\ [e EXCEPT !.part = None].entry = f /\ [e EXCEPT !.part = None].part = None
      /\ [e EXCEPT !.part = None].synced = d.synced
      /\ [e EXCEPT !.part = None].lost = d.lost
      /\ [e EXCEPT !.part = None].reserved = d.reserved
      /\ [e EXCEPT !.part = None].failed = d.failed
  BY <1>4 DEF DirectoryType
<1> QED BY <1>1, <1>3, <1>5 DEF f

LEMMA RevokeApart ==
    ASSUME HostInv, Revoke \/ Approved, UNCHANGED <<rx, toHost, toSender>>
    PROVE  Apart
<1>1. permit \in BOOLEAN BY OwnedParts DEF HostInv
<1>2. CASE Revoke
  <2>1. permit' = FALSE BY <1>2 DEF Revoke
  <2> QED BY <2>1 DEF Apart
<1>3. CASE Approved
  <2>1. permit' = permit BY <1>3 DEF Approved
  <2> QED BY <1>1, <2>1 DEF Apart
<1> QED BY <1>2, <1>3

\* Every step of the worker has one of the shapes, and only a stop or a panic revokes.
LEMMA WorkerFacts ==
    ASSUME HostInv, WorkerStep \/ WorkerPanics
    PROVE  /\ HostInv' /\ Apart /\ UNCHANGED <<tx, rx, standing, toHost, toSender, cut>>
           /\ \/ (Moves \/ Publishes \/ Syncs) /\ Approved
              \/ (Stores \/ Idles) /\ (Approved \/ Revoke)

<1>DropFacts.
    ASSUME NEW d \in DirectoryType, NEW ok \in BOOLEAN
    PROVE  /\ Drop(d, ok) \in DirectoryType
           /\ Drop(d, ok).entry = d.entry /\ Drop(d, ok).synced = d.synced
           /\ Drop(d, ok).lost = d.lost
           /\ ok => /\ Drop(d, ok).part = None /\ Drop(d, ok).reserved = d.reserved - 1
                    /\ Drop(d, ok).failed = d.failed
           /\ ~ ok => /\ Drop(d, ok).part = d.part /\ Drop(d, ok).reserved = d.reserved
                      /\ Drop(d, ok).failed
  <2>1. CASE ok
    <3> USE <2>1
    <3> DEFINE e == [d EXCEPT !.part = None]
    <3>1. /\ e \in DirectoryType /\ e.entry = d.entry /\ e.synced = d.synced /\ e.lost = d.lost
          /\ e.part = None /\ e.reserved = d.reserved /\ e.failed = d.failed
      BY DEF DirectoryType
    <3>2. Drop(d, ok) = [e EXCEPT !.reserved = d.reserved - 1] BY DEF Drop
    <3>3. d.reserved - 1 \in Int BY SMTT(30) DEF DirectoryType
    <3> HIDE DEF e
    <3> QED BY <3>1, <3>2, <3>3 DEF DirectoryType
  <2>2. CASE ~ ok
    <3> USE <2>2
    <3>1. Drop(d, ok) = [d EXCEPT !.failed = TRUE] BY DEF Drop
    <3> QED BY <3>1 DEF DirectoryType
  <2> QED BY <2>1, <2>2

<1>ReserveFacts.
    ASSUME NEW d \in DirectoryType, NEW kind \in Kinds
    PROVE  /\ Reserve(d, kind) \in DirectoryType
           /\ Reserve(d, kind).entry = d.entry /\ Reserve(d, kind).synced = d.synced
           /\ Reserve(d, kind).lost = d.lost /\ Reserve(d, kind).part = kind
           /\ Reserve(d, kind).reserved = d.reserved + 1
           /\ Reserve(d, kind).failed = d.failed
  <2> DEFINE e == [d EXCEPT !.reserved = d.reserved + 1]
  <2>1. d.reserved + 1 \in Int BY SMTT(30) DEF DirectoryType
  <2>2. /\ e \in DirectoryType /\ e.entry = d.entry /\ e.synced = d.synced /\ e.lost = d.lost
        /\ e.part = d.part /\ e.reserved = d.reserved + 1 /\ e.failed = d.failed
    BY <2>1 DEF DirectoryType
  <2>3. Reserve(d, kind) = [e EXCEPT !.part = kind] BY DEF Reserve
  <2>4. kind \in {"unnamed", "named", None} BY DEF Kinds
  <2> HIDE DEF e
  <2> QED BY <2>2, <2>3, <2>4 DEF DirectoryType

<1>DoneFacts.
    ASSUME slot \in SlotType, NEW result \in Results, Done(result)
    PROVE  /\ slot' \in SlotType /\ slot'.st = "Complete" /\ slot'.result = result
           /\ slot'.op = slot.op /\ slot'.file = slot.file
  BY <1>DoneFacts DEF Done, SlotType

<1>RunsOK.
    ASSUME HostInv, Apart, worker' \in WorkerType, slot' \in SlotType,
           disk' \in DirectoryType, disk'.failed = disk.failed, ~ disk.failed,
           disk'.reserved = IF worker'.active # None THEN 1 ELSE 0,
           disk'.part # None <=> worker'.active # None,
           slot.st \in {"Queued", "Executing"}, slot'.st = "Executing",
           slot'.op = slot.op, slot'.file = slot.file,
           worker'.pc \in Executing \ {"placed"},
           \/ worker'.pc \in {"begin", "begun"} /\ slot.op = "begin"
           \/ worker'.pc \in {"chunk", "written"} /\ slot.op = "chunk"
           \/ worker'.pc \in {"complete", "verified", "sampled", "gated", "publish"}
              /\ slot.op = "complete",
           worker'.pc # "begin" => worker'.active # None /\ worker'.active.file = slot.file,
           worker'.active # None => worker'.active.state # "Published"
    PROVE  HostInv'
  <2> USE <1>RunsOK
  <2>1. Owned' \in OwnedType BY OwnedNext DEF HostInv
  <2>2. Owned'.slot = slot' /\ Owned'.rx = rx /\ Owned.slot = slot /\ Owned.rx = rx
    BY DEF Owned, Apart
  <2> USE <2>2
  <2>3. /\ rx.pending # None /\ slot.file = rx.pending /\ slot.op # None
        /\ IF slot.op = "begin" THEN rx.active = None
           ELSE rx.active # None /\ rx.active.file = slot.file
    BY DEF HostInv, HostOK, Mailbox
  <2>4. worker'.pc \notin {"loop", "stop", "drain", "done", "dead"} BY DEF Executing
  <2> USE <2>4
  <2>5. Mailbox(Owned)' BY <2>3 DEF Mailbox, PastClock, Executing
  <2>6. Holding(Owned)' BY <2>3 DEF Holding
  <2>7. Charged(Owned)' BY DEF Charged
  <2> QED BY <2>1, <2>5, <2>6, <2>7 DEF HostInv, HostOK

\* A command's result is stored: what is left staged is charged.
<1>ReturnsOK.
    ASSUME HostInv, Apart, NEW w \in WorkerType, NEW result \in Results,
           worker.pc \in Executing, Returns(w, result), disk' \in DirectoryType,
           disk'.failed => w.active = None /\ result \in {"Error", "Unknown"},
           disk'.reserved = IF w.active # None \/ disk'.failed THEN 1 ELSE 0,
           disk'.part # None <=> disk'.failed \/ w.active # None,
           w.active # None => w.active.state # "Published",
           result \in {"Begun", "Written"} => w.active # None /\ w.active.file = slot.file,
           result = "Begun" => slot.op = "begin",
           result = "Written" => slot.op = "chunk",
           result \in S!Published => slot.op = "complete"
    PROVE  /\ HostInv'
           /\ worker'.pc = "loop" /\ worker'.active = w.active /\ worker'.floor = w.floor
           /\ slot'.st = "Complete" /\ slot'.result = result
           /\ slot'.op = slot.op /\ slot'.file = slot.file
  <2> USE <1>ReturnsOK
  <2>1. /\ worker' \in WorkerType /\ worker'.pc = "loop" /\ worker'.active = w.active
        /\ worker'.floor = w.floor /\ worker'.closed = w.closed
    BY DEF Returns, WorkerType
  <2> USE <2>1
  <2>2. /\ slot' \in SlotType /\ slot'.st = "Complete" /\ slot'.result = result
        /\ slot'.op = slot.op /\ slot'.file = slot.file
    BY OwnedParts, <1>DoneFacts DEF Returns, HostInv
  <2> USE <2>2
  <2>3. Owned' \in OwnedType BY OwnedNext DEF HostInv
  <2>4. /\ slot.st = "Executing" /\ Owned'.slot = slot' /\ Owned'.rx = rx
        /\ Owned.slot = slot /\ Owned.rx = rx
    BY ExecFacts DEF Owned, Apart
  <2> USE <2>4
  <2>5. worker'.pc \notin Executing \cup PastClock \cup {"stop", "drain", "done", "dead"}
    BY DEF Executing, PastClock
  <2> USE <2>5
  <2>6. Mailbox(Owned)'
    <3>1. /\ slot.file = rx.pending /\ slot.op # None /\ rx.pending # None
          /\ IF slot.op = "begin" THEN rx.active = None
             ELSE rx.active # None /\ rx.active.file = slot.file
      BY DEF HostInv, HostOK, Mailbox
    <3>2. result # None BY NoneAssumption
    <3> QED BY <3>1, <3>2 DEF Mailbox
  <2>7. Holding(Owned)'
    <3>1. w.active # None => w.active.state # "Published" OBVIOUS
    <3> QED BY <3>1 DEF Holding
  <2>8. Charged(Owned)'
    <3>1. worker'.pc \notin Executing /\ worker'.pc # "dead" /\ worker'.pc # "placed"
      OBVIOUS
    <3> QED BY <3>1 DEF Charged
  <2> QED BY <2>3, <2>6, <2>7, <2>8 DEF HostOK, HostInv

\* What is left on disk when the pending object is dropped.
<1>DropsFacts.
    ASSUME HostInv, worker.pc \in Executing, DropsDisk
    PROVE  /\ disk' \in DirectoryType /\ SameShelf
           /\ disk'.reserved = IF disk'.failed THEN 1 ELSE 0
           /\ disk'.part # None <=> disk'.failed
  <2> USE <1>DropsFacts
  <2>1. /\ ~ disk.failed /\ disk \in DirectoryType
        /\ disk.reserved = IF worker.active # None THEN 1 ELSE 0
        /\ disk.part # None <=> worker.active # None /\ worker.pc # "placed"
        /\ worker.active # None => (worker.active.state = "Published" <=> worker.pc = "placed")
    BY ExecFacts DEF HostInv
  <2> USE <2>1
  <2>2. CASE worker.active = None
    <3> USE <2>2
    <3>1. disk' = disk BY DEF DropsDisk
    <3> QED BY <3>1 DEF SameShelf
  <2>3. CASE worker.active # None
    <3> USE <2>3
    <3>1. PICK ok \in Unlinks(worker.active) : disk' = Drop(disk, ok) BY DEF DropsDisk
    <3>2. ok \in BOOLEAN /\ (~ ok => worker.pc # "placed") BY DEF Unlinks
    <3> USE <3>2
    <3>3. CASE ok
      <4>1. /\ disk' \in DirectoryType /\ SameShelf /\ disk'.part = None
            /\ disk'.reserved = disk.reserved - 1 /\ disk'.failed = disk.failed
        BY <3>1, <3>3, <1>DropFacts DEF SameShelf
      <4>2. disk'.reserved = 0 /\ ~ disk'.failed BY <4>1, SMTT(30)
      <4> QED BY <4>1, <4>2
    <3>4. CASE ~ ok
      <4> USE <3>4
      <4>1. /\ disk' \in DirectoryType /\ SameShelf /\ disk'.part = disk.part
            /\ disk'.reserved = disk.reserved /\ disk'.failed
        BY <3>1, <1>DropFacts DEF SameShelf
      <4> QED BY <4>1
    <3> QED BY <3>3, <3>4
  <2> QED BY <2>2, <2>3

\* A command that ended in an error or a panic.
<1>FailsFacts.
    ASSUME HostInv, Apart, NEW w \in WorkerType, NEW result \in {"Error", "Unknown"},
           worker.pc \in Executing, Returns(w, result),
           result = "Error" => worker.pc # "placed",
           \/ w.floor = worker.floor
           \/ worker.pc = "begin" /\ worker.floor < slot.file /\ w.floor = slot.file,
           \/ w.active = worker.active /\ worker.pc # "placed" /\ disk' = disk
           \/ w.active = None /\ DropsDisk
    PROVE  HostInv' /\ Stores
  <2> USE <1>FailsFacts
  <2>1. /\ ~ disk.failed /\ disk \in DirectoryType
        /\ disk.reserved = IF worker.active # None THEN 1 ELSE 0
        /\ disk.part # None <=> worker.active # None /\ worker.pc # "placed"
        /\ worker.active # None => (worker.active.state = "Published" <=> worker.pc = "placed")
    BY ExecFacts DEF HostInv
  <2>2. result \in Results /\ result \notin S!Published /\ result \notin {"Begun", "Written"}
    BY DEF Results, S!Published
  <2>3. /\ disk' \in DirectoryType /\ SameShelf /\ (disk'.failed => w.active = None)
        /\ disk'.reserved = IF w.active # None \/ disk'.failed THEN 1 ELSE 0
        /\ disk'.part # None <=> disk'.failed \/ w.active # None
        /\ w.active # None => w.active.state # "Published"
    <3>1. CASE w.active = worker.active /\ worker.pc # "placed" /\ disk' = disk
      BY <2>1, <3>1 DEF SameShelf
    <3>2. CASE w.active = None /\ DropsDisk BY <3>2, <1>DropsFacts
    <3> QED BY <3>1, <3>2
  <2>4. /\ HostInv' /\ worker'.pc = "loop" /\ worker'.active = w.active /\ worker'.floor = w.floor
        /\ slot'.st = "Complete" /\ slot'.result = result
        /\ slot'.op = slot.op /\ slot'.file = slot.file
    BY <2>2, <2>3, <1>ReturnsOK
  <2>5. Stores BY <2>3, <2>4 DEF Stores
  <2> QED BY <2>4, <2>5

<1>LoopFacts.
    ASSUME HostInv, Loop, Apart
    PROVE  HostInv' /\ (Moves \/ Idles)
  <2> USE <1>LoopFacts
  <2>1. /\ Owned.slot = slot /\ Owned.rx = rx /\ Owned.permit = permit /\ HostOK(Owned)
        /\ worker \in WorkerType /\ worker.pc = "loop" /\ disk \in DirectoryType
        /\ worker.pc \notin Executing /\ slot \in SlotType
    BY OwnedParts DEF Owned, HostInv, Executing, Loop
  <2> USE <2>1
  <2>2. /\ disk.failed => /\ worker.active = None
                          /\ \/ worker.closed \/ ~ permit
                             \/ slot.st = "Complete" /\ slot.result \in {"Error", "Unknown"}
        /\ disk.reserved = IF worker.active # None \/ disk.failed THEN 1 ELSE 0
        /\ disk.part # None <=> disk.failed \/ worker.active # None
        /\ worker.active # None => worker.active.state # "Published"
    BY DEF HostOK, Charged, Holding
  <2> USE <2>2
  <2>3. CASE Passes
    <3> USE <2>3
    <3>1. /\ slot.st = "Queued" /\ slot' = [slot EXCEPT !.st = "Executing"]
          /\ worker' = [worker EXCEPT !.pc = slot.op] /\ disk' = disk
      BY DEF Loop
    <3> USE <3>1
    <3>2. slot' \in SlotType /\ slot'.st = "Executing" /\ slot'.op = slot.op /\ slot'.file = slot.file
      BY DEF SlotType
    <3>3. slot.op # None /\ slot.op \in Commands BY DEF HostOK, Mailbox, SlotType
    <3> USE <3>3
    <3>4. /\ worker' \in WorkerType /\ worker'.pc = slot.op /\ worker'.active = worker.active
          /\ worker'.floor = worker.floor
      BY DEF WorkerType, Commands, Executing
    <3> USE <3>4
    <3>5. ~ disk.failed BY DEF Passes
    <3>6. slot.op # "begin" => worker.active # None /\ worker.active.file = slot.file
      <4>1. slot.op # "begin" => rx.active # None /\ rx.active.file = slot.file
        BY DEF HostOK, Mailbox
      <4> QED BY <4>1 DEF HostOK, Holding
    <3>7. worker'.pc \in Executing \ {"placed"} /\ worker'.pc \notin PastClock \cup PastPermit \cup PastStanding
      BY DEF Commands, Executing, PastClock, PastPermit, PastStanding
    <3>8. HostInv'
      BY <3>2, <3>5, <3>6, <3>7, <1>RunsOK DEF Commands
    <3>9. Moves
      BY <3>2, <3>7 DEF Moves, SameShelf
    <3> QED BY <3>8, <3>9
  <2>4. CASE ~ Passes
    <3>1. /\ DropsDisk /\ slot' = slot
          /\ worker' = [Dropped(worker) EXCEPT !.closed = TRUE, !.pc = "stop"]
      BY <2>4 DEF Loop, Drops, DropsDisk
    <3> USE <3>1
    <3> DEFINE w == Dropped(worker)
    <3>2. w \in WorkerType /\ w.active = None /\ w.floor = worker.floor
      BY DEF Dropped, WorkerType
    <3> HIDE DEF w
    <3>3. worker' = [w EXCEPT !.closed = TRUE, !.pc = "stop"] BY DEF w
    <3>4. /\ worker' \in WorkerType /\ worker'.pc = "stop" /\ worker'.active = None
          /\ worker'.floor = worker.floor /\ worker'.closed
      BY <3>2, <3>3 DEF WorkerType
    <3> USE <3>4
    <3>5. /\ disk' \in DirectoryType /\ SameShelf
          /\ disk'.reserved = IF disk'.failed THEN 1 ELSE 0
          /\ disk'.part # None <=> disk'.failed
      <4>1. CASE worker.active = None
        <5> USE <4>1
        <5>1. disk' = disk BY DEF DropsDisk
        <5> QED BY <5>1 DEF SameShelf
      <4>2. CASE worker.active # None
        <5> USE <4>2
        <5>1. PICK ok \in Unlinks(worker.active) : disk' = Drop(disk, ok) BY DEF DropsDisk
        <5>2. ok \in BOOLEAN BY DEF Unlinks
        <5>3. ~ disk.failed /\ disk.reserved = 1 /\ disk.part # None OBVIOUS
        <5>4. CASE ok
          <6>1. /\ disk' \in DirectoryType /\ SameShelf /\ disk'.part = None
                /\ disk'.reserved = disk.reserved - 1 /\ disk'.failed = disk.failed
            BY <5>1, <5>2, <5>4, <1>DropFacts DEF SameShelf
          <6> QED BY <5>3, <6>1, SMTT(30)
        <5>5. CASE ~ ok
          <6>1. /\ disk' \in DirectoryType /\ SameShelf /\ disk'.part = disk.part
                /\ disk'.reserved = disk.reserved /\ disk'.failed
            BY <5>1, <5>2, <5>5, <1>DropFacts DEF SameShelf
          <6> QED BY <5>3, <6>1
        <5> QED BY <5>4, <5>5
      <4> QED BY <4>1, <4>2
    <3> USE <3>5
    <3>6. /\ Owned' \in OwnedType /\ Owned'.slot = slot /\ Owned'.rx = rx
          /\ worker'.pc \notin Executing \cup PastClock
      BY OwnedNext DEF Owned, Apart, Executing, PastClock
    <3> USE <3>6
    <3>7. Mailbox(Owned)'
      BY DEF HostOK, Mailbox
    <3>8. Holding(Owned)' BY DEF Holding
    <3>9. Charged(Owned)' BY DEF Charged
    <3>10. HostInv' BY <3>7, <3>8, <3>9 DEF HostInv, HostOK
    <3>11. Idles BY DEF Idles
    <3> QED BY <3>10, <3>11
  <2> QED BY <2>3, <2>4

<1>EndingFacts.
    ASSUME HostInv, StopWorker \/ Drain, Apart
    PROVE  HostInv' /\ Idles
  <2> USE <1>EndingFacts
  <2>1. /\ Owned.slot = slot /\ Owned.rx = rx /\ Owned.permit = permit /\ HostOK(Owned)
        /\ worker \in WorkerType /\ worker.pc \in {"stop", "drain"} /\ disk' = disk
        /\ disk \in DirectoryType /\ worker.pc \notin Executing /\ slot \in SlotType
        /\ worker' = [worker EXCEPT !.pc = IF worker.pc = "stop" THEN "drain" ELSE "done"]
        /\ slot' = slot \/ (slot.st = "Queued" /\ Done("Error"))
    BY OwnedParts DEF Owned, HostInv, Executing, StopWorker, Drain
  <2> USE <2>1
  <2>2. /\ worker' \in WorkerType /\ worker'.pc \in {"drain", "done"}
        /\ worker'.active = worker.active /\ worker'.floor = worker.floor
        /\ worker'.closed = worker.closed
    BY DEF WorkerType
  <2> USE <2>2
  <2>3. /\ slot' \in SlotType
        /\ \/ slot' = slot
           \/ /\ slot.st = "Queued" /\ slot'.st = "Complete" /\ slot'.result = "Error"
              /\ slot'.op = slot.op /\ slot'.file = slot.file
    BY <1>DoneFacts DEF Results
  <2> USE <2>3
  <2>4. /\ Owned' \in OwnedType /\ Owned'.slot = slot' /\ Owned'.rx = rx
        /\ Owned'.permit = permit' /\ worker'.pc \notin Executing \cup PastClock
    BY OwnedNext DEF Owned, Apart, Executing, PastClock, HostInv
  <2> USE <2>4
  <2>5. worker.active = None BY DEF HostOK, Holding
  <2> USE <2>5
  <2>6. Mailbox(Owned)'
    <3>1. CASE slot' = slot BY <3>1 DEF HostOK, Mailbox
    <3>2. CASE slot.st = "Queued" /\ slot'.st = "Complete" /\ slot'.result = "Error"
               /\ slot'.op = slot.op /\ slot'.file = slot.file
      BY <3>2, NoneAssumption, SMTT(30) DEF HostOK, Mailbox, S!Published, Results
    <3> QED BY <3>1, <3>2
  <2>7. Holding(Owned)' BY DEF Holding
  <2>8. Charged(Owned)'
    <3>1. /\ disk.failed => \/ worker.closed \/ ~ permit
                            \/ slot.st = "Complete" /\ slot.result \in {"Error", "Unknown"}
          /\ disk.reserved = IF disk.failed THEN 1 ELSE 0
          /\ disk.part # None <=> disk.failed
      BY DEF HostOK, Charged
    <3> QED BY <3>1 DEF Charged, Apart
  <2>9. HostInv' BY <2>6, <2>7, <2>8 DEF HostInv, HostOK
  <2>10. Idles BY DEF Idles, SameShelf
  <2> QED BY <2>9, <2>10

\* A failed check before the command's work.
<1>RefusesFacts.
    ASSUME HostInv, Apart, worker.pc \in {"begin", "chunk", "complete"}, Refuses
    PROVE  HostInv' /\ Stores
  <2> USE <1>RefusesFacts
  <2> DEFINE w == [worker EXCEPT !.closed = TRUE]
  <2>1. w \in WorkerType /\ w.active = worker.active /\ w.floor = worker.floor
    BY DEF HostInv, WorkerType
  <2>2. Returns(w, "Error") /\ disk' = disk BY DEF Refuses
  <2>3. worker.pc \in Executing /\ worker.pc # "placed" BY DEF Executing
  <2> HIDE DEF w
  <2> QED BY <2>1, <2>2, <2>3, <1>FailsFacts

\* A failed check after slow work.
<1>DropsAndFails.
    ASSUME HostInv, Apart, worker.pc \in Executing \ {"placed"},
           Returns([Dropped(worker) EXCEPT !.closed = TRUE], "Error") \/
             Returns(Dropped(worker), "Error"),
           NEW cost, Drops(cost)
    PROVE  HostInv' /\ Stores
  <2> USE <1>DropsAndFails
  <2> DEFINE v == Dropped(worker)
             w == [v EXCEPT !.closed = TRUE]
  <2>1. v \in WorkerType /\ v.active = None /\ v.floor = worker.floor
    BY DEF HostInv, WorkerType, Dropped
  <2>2. Returns(w, "Error") \/ Returns(v, "Error") OBVIOUS
  <2> HIDE DEF v
  <2>3. w \in WorkerType /\ w.active = None /\ w.floor = worker.floor
    BY <2>1 DEF WorkerType
  <2> HIDE DEF w
  <2>4. DropsDisk BY DEF Drops, DropsDisk
  <2> QED BY <2>1, <2>2, <2>3, <2>4, <1>FailsFacts

\* An error that leaves what is staged to the loop.
<1>KeepsAndFails.
    ASSUME HostInv, Apart, worker.pc \in Executing \ {"placed"}, Returns(worker, "Error"),
           disk' = disk
    PROVE  HostInv' /\ Stores
  <2> USE <1>KeepsAndFails
  <2>1. worker \in WorkerType BY DEF HostInv
  <2> QED BY <2>1, <1>FailsFacts

<1>BeginFacts.
    ASSUME HostInv, Apart, Begin
    PROVE  HostInv' /\ (Stores \/ Moves)
  <2> USE <1>BeginFacts
  <2> DEFINE admitted == [worker EXCEPT !.floor = slot.file]
  <2>1. /\ worker.pc = "begin" /\ worker.pc \in Executing \ {"placed"}
        /\ worker \in WorkerType /\ disk \in DirectoryType
    BY DEF Begin, Executing, HostInv
  <2> USE <2>1
  <2>2. /\ slot \in SlotType /\ slot.st = "Executing" /\ ~ disk.failed
        /\ slot.file \in Files /\ slot.op = "begin"
        /\ disk.reserved = IF worker.active # None THEN 1 ELSE 0
        /\ disk.part # None <=> worker.active # None
    BY ExecFacts
  <2> USE <2>2
  <2>3. /\ admitted \in WorkerType /\ admitted.active = worker.active
        /\ admitted.floor = slot.file /\ admitted.pc = worker.pc
    BY FilesAreNumbers DEF WorkerType
  <2> USE <2>3
  <2>4. \/ Refuses
        \/ Returns(worker, "Error") /\ disk' = disk
        \/ /\ worker.active = None /\ ~ (slot.file <= worker.floor)
           /\ \/ Returns(admitted, "Error") /\ disk' = disk
              \/ Returns(admitted, "Error") /\ disk' = HalfMade(disk)
              \/ \E kind \in Kinds :
                   /\ disk' = Reserve(disk, kind) /\ slot' = slot
                   /\ worker' = [admitted EXCEPT !.active = Pending(slot.file, kind), !.pc = "begun"]
    BY DEF Begin
  <2> HIDE DEF admitted
  <2>5. CASE Refuses BY <2>5, <1>RefusesFacts
  <2>6. CASE Returns(worker, "Error") /\ disk' = disk BY <2>6, <1>KeepsAndFails
  <2>7. ASSUME worker.active = None, ~ (slot.file <= worker.floor)
        PROVE  worker.floor < slot.file
    <3>1. worker.floor \in Nat /\ slot.file \in Nat
      BY FilesAreNumbers DEF WorkerType
    <3> QED BY <2>7, <3>1, SMTT(30)
  <2>8. CASE worker.active = None /\ ~ (slot.file <= worker.floor)
             /\ Returns(admitted, "Error") /\ disk' = disk
    BY <2>7, <2>8, <1>FailsFacts
  <2>9. CASE worker.active = None /\ ~ (slot.file <= worker.floor)
             /\ Returns(admitted, "Error") /\ disk' = HalfMade(disk)
    <3> USE <2>9
    <3> DEFINE r == Reserve(disk, "named")
    <3>1. /\ r \in DirectoryType /\ r.entry = disk.entry /\ r.synced = disk.synced
          /\ r.lost = disk.lost /\ r.part = "named" /\ r.reserved = 1
      BY <1>ReserveFacts, SMTT(30) DEF Kinds
    <3>2. disk' = Drop(r, FALSE) BY DEF HalfMade
    <3> HIDE DEF r
    <3>3. /\ disk' \in DirectoryType /\ SameShelf /\ disk'.failed /\ disk'.reserved = 1
          /\ disk'.part = "named"
      BY <3>1, <3>2, <1>DropFacts DEF SameShelf
    <3> USE <3>3
    <3>4. disk'.part # None BY NoneAssumption DEF Kinds
    <3>5. /\ "Error" \in Results /\ "Error" \notin S!Published
      BY DEF Results, S!Published
    <3>6. /\ HostInv' /\ worker'.pc = "loop" /\ worker'.active = None
          /\ worker'.floor = slot.file /\ slot'.st = "Complete" /\ slot'.result = "Error"
          /\ slot'.op = slot.op /\ slot'.file = slot.file
      BY <3>4, <3>5, <1>ReturnsOK
    <3>7. Stores BY <2>7, <3>6 DEF Stores
    <3> QED BY <3>6, <3>7
  <2>10. ASSUME worker.active = None, ~ (slot.file <= worker.floor), NEW kind \in Kinds,
                disk' = Reserve(disk, kind), slot' = slot,
                worker' = [admitted EXCEPT !.active = Pending(slot.file, kind), !.pc = "begun"]
         PROVE  HostInv' /\ Moves
    <3> USE <2>10
    <3> DEFINE a == Pending(slot.file, kind)
    <3>1. a \in Pendings /\ a.file = slot.file /\ a.state = "Receiving"
      BY DirectoryAssumption, SMTT(30) DEF Pending, Pendings
    <3> USE <3>1
    <3>2. worker' = [admitted EXCEPT !.active = a, !.pc = "begun"] OBVIOUS
    <3> HIDE DEF a
    <3>3. a # None BY NoneAssumption
    <3>4. /\ worker' \in WorkerType /\ worker'.pc = "begun" /\ worker'.active = a
          /\ worker'.floor = slot.file
      BY <3>2 DEF WorkerType, Executing
    <3> USE <3>4
    <3>5. kind \in {"unnamed", "named"} /\ kind # None BY NoneAssumption DEF Kinds
    <3>6. /\ disk' \in DirectoryType /\ disk'.entry = disk.entry /\ disk'.synced = disk.synced
          /\ disk'.lost = disk.lost /\ disk'.part = kind /\ disk'.reserved = 1
          /\ disk'.failed = disk.failed
      BY <1>ReserveFacts, SMTT(30)
    <3>7. worker'.pc \in Executing \ {"placed"} BY DEF Executing
    <3>8. HostInv'
      BY <3>3, <3>5, <3>6, <3>7, <1>RunsOK
    <3>9. worker'.pc \notin PastClock \cup PastPermit \cup PastStanding
      BY DEF PastClock, PastPermit, PastStanding
    <3>10. Moves
      BY <2>7, <3>3, <3>6, <3>7, <3>9 DEF Moves, SameShelf
    <3> QED BY <3>8, <3>10
  <2> QED BY <2>4, <2>5, <2>6, <2>8, <2>9, <2>10

\* A write or an offer that went well.
<1>RecheckedFacts.
    ASSUME HostInv, Apart, Begun \/ WrittenOut
    PROVE  HostInv' /\ Stores
  <2> USE <1>RecheckedFacts
  <2>1. /\ worker.pc \in {"begun", "written"} /\ worker.pc \in Executing \ {"placed"}
        /\ worker \in WorkerType /\ disk \in DirectoryType
    BY DEF Begun, WrittenOut, Recheck, Executing, HostInv
  <2> USE <2>1
  <2>2. \/ Drops(0) /\ Returns([Dropped(worker) EXCEPT !.closed = TRUE], "Error")
        \/ worker.pc = "begun" /\ Returns(worker, "Begun") /\ disk' = disk
        \/ worker.pc = "written" /\ Returns(worker, "Written") /\ disk' = disk
    BY DEF Begun, WrittenOut, Recheck
  <2>3. CASE Drops(0) /\ Returns([Dropped(worker) EXCEPT !.closed = TRUE], "Error")
    BY <2>3, <1>DropsAndFails
  <2>4. ASSUME NEW result \in {"Begun", "Written"}, Returns(worker, result), disk' = disk,
               worker.pc = IF result = "Begun" THEN "begun" ELSE "written"
        PROVE  HostInv' /\ Stores
    <3> USE <2>4
    <3>1. /\ ~ disk.failed /\ worker.active # None /\ worker.active.file = slot.file
          /\ disk.reserved = 1 /\ disk.part # None /\ worker.active.state # "Published"
          /\ result = "Begun" => slot.op = "begin"
          /\ result = "Written" => slot.op = "chunk"
      BY ExecFacts
    <3>2. result \in Results /\ result \notin S!Published BY DEF Results, S!Published
    <3>3. /\ HostInv' /\ worker'.pc = "loop" /\ worker'.active = worker.active
          /\ worker'.floor = worker.floor /\ slot'.st = "Complete" /\ slot'.result = result
          /\ slot'.op = slot.op /\ slot'.file = slot.file
      BY <3>1, <3>2, <1>ReturnsOK
    <3>4. Stores BY <3>3 DEF Stores, SameShelf
    <3> QED BY <3>3, <3>4
  <2> QED BY <2>2, <2>3, <2>4

<1>PendingSteps.
    ASSUME NEW a \in Pendings
    PROVE  /\ Written(a) \in Pendings /\ Verified(a) \in Pendings /\ Placing(a) \in Pendings
           /\ Written(a).file = a.file /\ Verified(a).file = a.file /\ Placing(a).file = a.file
           /\ Written(a).state = a.state /\ Verified(a).state = "Verified"
           /\ Placing(a).state = "Published"
           /\ MayRename(a) => /\ Renamed(a) \in Pendings /\ Renamed(a).file = a.file
                              /\ Renamed(a).state = a.state
  <2>1. a.received + 1 \in Nat BY SMTT(30) DEF Pendings
  <2>2. Written(a) \in Pendings /\ Written(a).file = a.file /\ Written(a).state = a.state
    BY <2>1 DEF Written, Pendings
  <2>3. Verified(a) \in Pendings /\ Verified(a).file = a.file /\ Verified(a).state = "Verified"
    BY DEF Verified, Pendings
  <2>4. Placing(a) \in Pendings /\ Placing(a).file = a.file /\ Placing(a).state = "Published"
    BY DEF Placing, Pendings
  <2>5. ASSUME MayRename(a)
        PROVE  Renamed(a) \in Pendings /\ Renamed(a).file = a.file /\ Renamed(a).state = a.state
    <3>1. a.attempt + 1 \in 0..MaxConflicts
      BY <2>5, DirectoryAssumption, SMTT(30) DEF MayRename, Pendings
    <3> QED BY <3>1 DEF Renamed, Pendings
  <2> QED BY <2>2, <2>3, <2>4, <2>5

<1>GoesOnFacts.
    ASSUME HostInv, Apart, worker.pc \in Executing \ {"begin", "placed"}, NEW a \in Pendings,
           a.file = worker.active.file, a.state # "Published", NEW t \in BOOLEAN,
           slot' = slot, disk' = disk,
           NEW pc, Turns(a, t, pc),
           \/ pc = "written" /\ worker.pc = "chunk"
           \/ pc = "verified" /\ worker.pc = "complete"
           \/ pc = "sampled" /\ worker.pc = "verified" /\ (t <=> standing # "late")
           \/ pc = "gated" /\ worker.pc = "sampled" /\ permit /\ t = worker.timely
           \/ pc = "publish" /\ worker.pc = "gated" /\ t /\ t = worker.timely
              /\ standing # "revoked"
           \/ pc = "publish" /\ worker.pc = "publish" /\ t = worker.timely
    PROVE  HostInv' /\ Moves
  <2> USE <1>GoesOnFacts
  <2>1. /\ slot \in SlotType /\ slot.st = "Executing" /\ ~ disk.failed
        /\ disk.reserved = 1 /\ disk.part # None
        /\ worker.active # None /\ worker.active.file = slot.file
        /\ worker.pc = "chunk" => slot.op = "chunk"
        /\ worker.pc # "chunk" => slot.op = "complete"
    <3>1. worker.pc \in Executing /\ worker.pc # "begin" /\ worker.pc # "placed"
          /\ (worker.pc # "chunk" => worker.pc \in {"complete", "verified"} \cup PastClock)
      BY DEF PastClock
    <3> QED BY <3>1, ExecFacts
  <2> USE <2>1
  <2>2. worker \in WorkerType /\ disk \in DirectoryType /\ a # None
    BY NoneAssumption DEF HostInv
  <2> USE <2>2
  <2> DEFINE v == [worker EXCEPT !.active = a]
  <2>3. v \in WorkerType /\ v.active = a /\ v.floor = worker.floor BY DEF WorkerType
  <2>4. worker' = [v EXCEPT !.timely = t, !.pc = pc] BY DEF Turns
  <2> HIDE DEF v
  <2>5. pc \in Executing \ {"begin", "placed"} BY DEF Executing
  <2> USE <2>5
  <2>6. /\ worker' \in WorkerType /\ worker'.pc = pc /\ worker'.active = a /\ worker'.timely = t
        /\ worker'.floor = worker.floor
    BY <2>3, <2>4 DEF WorkerType
  <2>7. \/ pc = "written" /\ slot.op = "chunk"
        \/ pc \in {"verified", "sampled", "gated", "publish"} /\ slot.op = "complete"
    OBVIOUS
  <2>8. HostInv' BY <2>6, <2>7, <1>RunsOK
  <2>9. /\ pc \in PastClock => \/ worker.pc \in PastClock /\ t = worker.timely
                               \/ t <=> standing # "late"
        /\ pc \in PastPermit => worker.pc \in PastPermit \/ permit
        /\ pc \in PastStanding => \/ worker.pc \in PastStanding /\ t = worker.timely
                                  \/ t /\ standing # "revoked"
    BY DEF PastClock, PastPermit, PastStanding
  <2>10. Moves BY <2>6, <2>9 DEF Moves, SameShelf
  <2> QED BY <2>8, <2>10

<1>ChunkFacts.
    ASSUME HostInv, Apart, Chunk \/ Verify
    PROVE  HostInv' /\ (Stores \/ Moves)
  <2> USE <1>ChunkFacts
  <2>1. /\ worker.pc \in {"chunk", "complete"} /\ worker.pc \in Executing \ {"begin", "placed"}
        /\ worker \in WorkerType
    BY DEF Chunk, Verify, Executing, HostInv
  <2> USE <2>1
  <2>2. worker.active \in Pendings /\ worker.active # None /\ worker.active.state # "Published"
    BY ExecFacts
  <2>3. \/ Refuses
        \/ Returns(worker, "Error") /\ disk' = disk
        \/ Drops(1) /\ Returns(Dropped(worker), "Error")
        \/ /\ worker.pc = "chunk" /\ slot' = slot /\ disk' = disk
           /\ worker' = [worker EXCEPT !.active = Written(@), !.pc = "written"]
        \/ /\ worker.pc = "complete" /\ slot' = slot /\ disk' = disk
           /\ worker' = [worker EXCEPT !.active = Verified(@), !.pc = "verified"]
    BY DEF Chunk, Verify
  <2>4. CASE Refuses BY <2>4, <1>RefusesFacts
  <2>5. CASE Returns(worker, "Error") /\ disk' = disk BY <2>5, <1>KeepsAndFails
  <2>6. CASE Drops(1) /\ Returns(Dropped(worker), "Error") BY <2>6, <1>DropsAndFails
  <2>7. ASSUME NEW a \in Pendings, a.file = worker.active.file, a.state # "Published",
               NEW pc, worker' = [worker EXCEPT !.active = a, !.pc = pc],
               slot' = slot, disk' = disk,
               \/ pc = "written" /\ worker.pc = "chunk"
               \/ pc = "verified" /\ worker.pc = "complete"
        PROVE  HostInv' /\ Moves
    <3> USE <2>7
    <3>1. worker.timely \in BOOLEAN BY DEF WorkerType
    <3>2. Turns(a, worker.timely, pc) BY DEF WorkerType, Turns
    <3> QED BY <3>1, <3>2, <1>GoesOnFacts
  <2>8. CASE /\ worker.pc = "chunk" /\ slot' = slot /\ disk' = disk
             /\ worker' = [worker EXCEPT !.active = Written(@), !.pc = "written"]
    <3> USE <2>8
    <3> DEFINE a == Written(worker.active)
    <3>1. a \in Pendings /\ a.file = worker.active.file /\ a.state # "Published"
      BY <2>2, <1>PendingSteps
    <3>2. worker' = [worker EXCEPT !.active = a, !.pc = "written"] OBVIOUS
    <3> HIDE DEF a
    <3> QED BY <2>7, <3>1, <3>2
  <2>9. CASE /\ worker.pc = "complete" /\ slot' = slot /\ disk' = disk
             /\ worker' = [worker EXCEPT !.active = Verified(@), !.pc = "verified"]
    <3> USE <2>9
    <3> DEFINE a == Verified(worker.active)
    <3>1. a \in Pendings /\ a.file = worker.active.file /\ a.state # "Published"
      BY <2>2, <1>PendingSteps
    <3>2. worker' = [worker EXCEPT !.active = a, !.pc = "verified"] OBVIOUS
    <3> HIDE DEF a
    <3> QED BY <2>7, <3>1, <3>2
  <2> QED BY <2>3, <2>4, <2>5, <2>6, <2>8, <2>9

\* The three looks of the last check.
<1>GateFacts.
    ASSUME HostInv, Apart, Sample \/ GatePermit \/ GateStanding
    PROVE  HostInv' /\ (Stores \/ Moves)
  <2> USE <1>GateFacts
  <2>1. /\ worker.pc \in {"verified", "sampled", "gated"}
        /\ worker.pc \in Executing \ {"begin", "placed"} /\ worker \in WorkerType
    BY DEF Sample, GatePermit, GateStanding, Recheck, Executing, HostInv
  <2> USE <2>1
  <2>2. worker.active \in Pendings /\ worker.active # None /\ worker.active.state # "Published"
    BY ExecFacts
  <2>3. \/ Drops(0) /\ Returns([Dropped(worker) EXCEPT !.closed = TRUE], "Error")
        \/ /\ worker.pc = "verified" /\ slot' = slot /\ disk' = disk
           /\ worker' = [worker EXCEPT !.timely = standing # "late", !.pc = "sampled"]
        \/ /\ worker.pc = "sampled" /\ permit /\ slot' = slot /\ disk' = disk
           /\ worker' = [worker EXCEPT !.pc = "gated"]
        \/ /\ worker.pc = "gated" /\ worker.timely /\ standing # "revoked"
           /\ slot' = slot /\ disk' = disk
           /\ worker' = [worker EXCEPT !.pc = "publish"]
    BY DEF Sample, GatePermit, GateStanding, Recheck, Gate, Goes
  <2>4. CASE Drops(0) /\ Returns([Dropped(worker) EXCEPT !.closed = TRUE], "Error")
    BY <2>4, <1>DropsAndFails
  <2>5. CASE /\ worker.pc = "verified" /\ slot' = slot /\ disk' = disk
             /\ worker' = [worker EXCEPT !.timely = standing # "late", !.pc = "sampled"]
    <3> USE <2>5
    <3> DEFINE t == standing # "late"
    <3>1. t \in BOOLEAN /\ (t <=> standing # "late") OBVIOUS
    <3>2. worker' = [worker EXCEPT !.timely = t, !.pc = "sampled"] OBVIOUS
    <3> HIDE DEF t
    <3>3. Turns(worker.active, t, "sampled") BY <3>2 DEF WorkerType, Turns
    <3> QED BY <2>2, <3>1, <3>3, <1>GoesOnFacts
  <2>6. ASSUME NEW pc, worker' = [worker EXCEPT !.pc = pc], slot' = slot, disk' = disk,
               \/ pc = "gated" /\ worker.pc = "sampled" /\ permit
               \/ pc = "publish" /\ worker.pc = "gated" /\ worker.timely /\ standing # "revoked"
        PROVE  HostInv' /\ Moves
    <3> USE <2>6
    <3>1. worker.timely \in BOOLEAN BY DEF WorkerType
    <3>2. Turns(worker.active, worker.timely, pc) BY DEF WorkerType, Turns
    <3> QED BY <2>2, <3>1, <3>2, <1>GoesOnFacts
  <2> QED BY <2>3, <2>4, <2>5, <2>6

<1>PublishFacts.
    ASSUME HostInv, Apart, PublishFile
    PROVE  HostInv' /\ (Stores \/ Moves \/ Publishes)
  <2> USE <1>PublishFacts
  <2>1. /\ worker.pc = "publish" /\ worker.pc \in Executing \ {"begin", "placed"}
        /\ worker \in WorkerType /\ disk \in DirectoryType
    BY DEF PublishFile, Executing, HostInv
  <2> USE <2>1
  <2>2. /\ worker.active \in Pendings /\ worker.active # None /\ worker.active.state # "Published"
        /\ slot \in SlotType /\ slot.st = "Executing" /\ slot.op = "complete" /\ ~ disk.failed
        /\ disk.reserved = 1 /\ worker.active.file = slot.file
    BY ExecFacts DEF PastClock
  <2> USE <2>2
  <2>3. \/ Drops(1) /\ Returns(Dropped(worker), "Error")
        \/ Drops(0) /\ Returns(Dropped(worker), "Error")
        \/ /\ MayRename(worker.active) /\ slot' = slot /\ disk' = disk
           /\ worker' = [worker EXCEPT !.active = Renamed(@)]
        \/ /\ ~ Occupied(disk, worker.active) /\ disk' = Publish(disk, worker.active)
           /\ worker' = [worker EXCEPT !.active = Placing(@), !.pc = "placed"] /\ slot' = slot
    BY DEF PublishFile
  <2>4. CASE Drops(1) /\ Returns(Dropped(worker), "Error") BY <2>4, <1>DropsAndFails
  <2>5. CASE Drops(0) /\ Returns(Dropped(worker), "Error") BY <2>5, <1>DropsAndFails
  <2>6. CASE /\ MayRename(worker.active) /\ slot' = slot /\ disk' = disk
             /\ worker' = [worker EXCEPT !.active = Renamed(@)]
    <3> USE <2>6
    <3> DEFINE a == Renamed(worker.active)
    <3>1. a \in Pendings /\ a.file = worker.active.file /\ a.state # "Published"
      BY <1>PendingSteps
    <3>2. worker' = [worker EXCEPT !.active = a] OBVIOUS
    <3> HIDE DEF a
    <3>3. worker.timely \in BOOLEAN /\ Turns(a, worker.timely, "publish")
      BY <3>2 DEF WorkerType, Turns
    <3> QED BY <3>1, <3>3, <1>GoesOnFacts
  <2>7. CASE /\ ~ Occupied(disk, worker.active) /\ disk' = Publish(disk, worker.active)
             /\ worker' = [worker EXCEPT !.active = Placing(@), !.pc = "placed"] /\ slot' = slot
    <3> USE <2>7
    <3> DEFINE a == Placing(worker.active)
    <3>1. a \in Pendings /\ a.file = worker.active.file /\ a.state = "Published"
      BY <1>PendingSteps
    <3> USE <3>1
    <3>2. worker' = [worker EXCEPT !.active = a, !.pc = "placed"] OBVIOUS
    <3> HIDE DEF a
    <3>3. a # None /\ "placed" \in Executing /\ "placed" \in PastClock
      BY NoneAssumption DEF Executing, PastClock
    <3> USE <3>3
    <3>4. /\ worker' \in WorkerType /\ worker'.active = a /\ worker'.pc = "placed"
          /\ worker'.floor = worker.floor /\ worker'.timely = worker.timely
      BY <3>2 DEF WorkerType
    <3> USE <3>4
    <3>5. /\ disk' \in DirectoryType /\ disk'.part = None /\ disk'.reserved = 1 /\ ~ disk'.failed
      BY PublishDisk
    <3>6. /\ Owned' \in OwnedType /\ Owned'.slot = slot /\ Owned'.rx = rx
          /\ Owned.slot = slot /\ Owned.rx = rx
      BY OwnedNext DEF HostInv, Owned, Apart
    <3> USE <3>6
    <3>7. Mailbox(Owned)' BY DEF HostInv, HostOK, Mailbox
    <3>8. Holding(Owned)' BY DEF Holding
    <3>9. Charged(Owned)' BY <3>5 DEF Charged
    <3>10. HostInv' BY <3>5, <3>7, <3>8, <3>9 DEF HostInv, HostOK
    <3>11. Publishes BY DEF Publishes
    <3> QED BY <3>10, <3>11
  <2> QED BY <2>3, <2>4, <2>5, <2>6, <2>7

<1>SyncFacts.
    ASSUME HostInv, Apart, Sync
    PROVE  HostInv' /\ Syncs
  <2> USE <1>SyncFacts
  <2>1. /\ worker.pc = "placed" /\ worker.pc \in Executing
        /\ worker \in WorkerType /\ disk \in DirectoryType
    BY DEF Sync, Executing, HostInv
  <2> USE <2>1
  <2>2. /\ worker.active # None /\ slot.op = "complete" /\ ~ disk.failed /\ disk.reserved = 1
    BY ExecFacts DEF PastClock
  <2> USE <2>2
  <2> DEFINE w == Dropped(worker)
  <2>3. w \in WorkerType /\ w.active = None /\ w.floor = worker.floor
    BY DEF Dropped, WorkerType
  <2>4. PICK d, result :
          /\ \/ result = "Durable" /\ d = SyncDirectory(disk)
             \/ result = "DurabilityUnknown" /\ d = disk
          /\ disk' = Drop(d, TRUE) /\ Returns(w, result)
    BY DEF Sync
  <2> USE <2>4
  <2> HIDE DEF w
  <2>5. /\ d \in DirectoryType /\ d.entry = disk.entry /\ d.lost = disk.lost
        /\ d.reserved = 1 /\ ~ d.failed
        /\ result = "Durable" => d.synced = {n \in Names : disk.entry[n] # None}
        /\ result = "DurabilityUnknown" => d.synced = disk.synced
    <3>1. CASE result = "DurabilityUnknown" /\ d = disk BY <3>1
    <3>2. CASE result = "Durable" /\ d = SyncDirectory(disk)
      <4> USE <3>2
      <4> DEFINE names == {n \in Names : disk.entry[n] # None}
      <4>1. names \in SUBSET Names OBVIOUS
      <4>2. d = [disk EXCEPT !.synced = names] BY DEF SyncDirectory
      <4> HIDE DEF names
      <4>3. /\ d \in DirectoryType /\ d.entry = disk.entry /\ d.lost = disk.lost
            /\ d.reserved = disk.reserved /\ d.failed = disk.failed /\ d.synced = names
        BY <4>1, <4>2 DEF DirectoryType
      <4> QED BY <4>3 DEF names
    <3> QED BY <3>1, <3>2
  <2> USE <2>5
  <2>6. /\ disk' \in DirectoryType /\ disk'.entry = disk.entry /\ disk'.lost = disk.lost
        /\ disk'.part = None /\ disk'.reserved = 0 /\ ~ disk'.failed /\ disk'.synced = d.synced
    <3>1. d \in DirectoryType /\ TRUE \in BOOLEAN OBVIOUS
    <3>2. /\ disk' \in DirectoryType /\ disk'.entry = d.entry /\ disk'.lost = d.lost
          /\ disk'.part = None /\ disk'.reserved = d.reserved - 1 /\ disk'.failed = d.failed
          /\ disk'.synced = d.synced
      BY <3>1, <1>DropFacts
    <3>3. 1 - 1 = 0 BY SMTT(30)
    <3> QED BY <3>2, <3>3
  <2>7. result \in Results /\ result \in S!Published /\ result \notin {"Begun", "Written"}
    BY DEF Results, S!Published
  <2>8. /\ HostInv' /\ worker'.pc = "loop" /\ worker'.active = None
        /\ worker'.floor = worker.floor /\ slot'.st = "Complete" /\ slot'.result = result
        /\ slot'.op = slot.op /\ slot'.file = slot.file
    BY <2>3, <2>6, <2>7, <1>ReturnsOK
  <2>9. Syncs BY <2>6, <2>8 DEF Syncs
  <2> QED BY <2>8, <2>9

<1>PanicFacts.
    ASSUME HostInv, Apart, Panic
    PROVE  HostInv' /\ Stores
  <2> USE <1>PanicFacts
  <2>1. worker.pc \in Executing /\ worker \in WorkerType BY DEF Panic, HostInv
  <2> USE <2>1
  <2>2. CASE worker.pc \in {"verified"} \cup PastClock
    <3> DEFINE w == Dropped(worker)
    <3>1. w \in WorkerType /\ w.active = None /\ w.floor = worker.floor
      BY DEF Dropped, WorkerType
    <3>2. DropsDisk /\ Returns(w, "Unknown") BY <2>2 DEF Panic, Drops, DropsDisk
    <3> HIDE DEF w
    <3> QED BY <3>1, <3>2, <1>FailsFacts
  <2>3. CASE worker.pc \notin {"verified"} \cup PastClock
    <3>1. Returns(worker, "Unknown") /\ disk' = disk /\ worker.pc # "placed"
      BY <2>3 DEF Panic, PastClock
    <3> QED BY <3>1, <1>FailsFacts
  <2> QED BY <2>2, <2>3

<1>1. UNCHANGED <<tx, rx, standing, toHost, toSender, cut>>
  BY DEF WorkerStep, WorkerPanics, lane
<1> USE <1>1
<1>2. CASE Loop
  <2> USE <1>2
  <2>1. Approved BY DEF Loop
  <2> QED BY <2>1, RevokeApart, <1>LoopFacts
<1>3. CASE StopWorker
  <2> USE <1>3
  <2>1. Revoke BY DEF StopWorker
  <2> QED BY <2>1, RevokeApart, <1>EndingFacts
<1>4. CASE Drain
  <2> USE <1>4
  <2>1. Approved BY DEF Drain
  <2> QED BY <2>1, RevokeApart, <1>EndingFacts
<1>5. CASE Begin
  <2> USE <1>5
  <2>1. Approved BY DEF Begin, Refuses
  <2> QED BY <2>1, RevokeApart, <1>BeginFacts
<1>6. CASE Begun \/ WrittenOut
  <2> USE <1>6
  <2>1. Approved BY DEF Begun, WrittenOut, Recheck
  <2> QED BY <2>1, RevokeApart, <1>RecheckedFacts
<1>7. CASE Chunk \/ Verify
  <2> USE <1>7
  <2>1. Approved BY DEF Chunk, Verify, Refuses
  <2> QED BY <2>1, RevokeApart, <1>ChunkFacts
<1>8. CASE Sample \/ GatePermit \/ GateStanding
  <2> USE <1>8
  <2>1. Approved BY DEF Sample, GatePermit, GateStanding, Recheck
  <2> QED BY <2>1, RevokeApart, <1>GateFacts
<1>9. CASE PublishFile
  <2> USE <1>9
  <2>1. Approved BY DEF PublishFile
  <2> QED BY <2>1, RevokeApart, <1>PublishFacts
<1>10. CASE Sync
  <2> USE <1>10
  <2>1. Approved BY DEF Sync
  <2> QED BY <2>1, RevokeApart, <1>SyncFacts
<1>11. CASE Panic
  <2> USE <1>11
  <2>1. Revoke BY DEF Panic
  <2> QED BY <2>1, RevokeApart, <1>PanicFacts
<1> QED
  BY <1>2, <1>3, <1>4, <1>5, <1>6, <1>7, <1>8, <1>9, <1>10, <1>11
  DEF WorkerStep, WorkerPanics

\* A crash keeps the names that survive it and what an ended worker may hold.
LEMMA CrashFacts ==
    ASSUME HostInv, Crash
    PROVE  /\ HostInv' /\ worker'.pc = "dead" /\ worker'.active = None
           /\ worker'.floor = worker.floor /\ ~ permit' /\ slot' = Idle
           /\ rx'.reply = None /\ rx'.refusal = rx.refusal /\ worker.pc # "dead"
           /\ \E gone \in SUBSET Unsynced(disk) :
                /\ disk'.entry = [n \in Names |-> IF n \in gone THEN None ELSE disk.entry[n]]
                /\ disk'.lost = {disk.entry[n] : n \in gone} /\ disk'.synced = disk.synced
<1>1. /\ rx \in OwnerType /\ worker \in WorkerType /\ disk \in DirectoryType
      /\ toHost \in Seq(Records) /\ toSender \in Seq(Replies)
  BY OwnedParts DEF HostInv
<1> USE <1>1
<1>2. /\ worker' = [worker EXCEPT !.pc = "dead", !.active = None] /\ worker.pc # "dead"
      /\ rx' = [rx EXCEPT !.state = "Retired", !.reply = None, !.pending = None, !.sent = FALSE]
      /\ slot' = Idle /\ ~ permit' /\ toHost' = toHost /\ toSender' = toSender /\ permit' \in BOOLEAN
  BY DEF Crash, Revoke
<1> USE <1>2
<1>3. PICK gone \in SUBSET Unsynced(disk) : disk' = Crashed(disk, gone) BY DEF Crash
<1>4. /\ worker' \in WorkerType /\ worker'.pc = "dead" /\ worker'.active = None
      /\ worker'.floor = worker.floor
  BY DEF WorkerType
<1> USE <1>4
<1>5. /\ rx' \in OwnerType /\ rx'.pending = None /\ rx'.reply = None /\ rx'.refusal = rx.refusal
  <2> DEFINE v == [rx EXCEPT !.state = "Retired", !.reply = None]
  <2>1. v \in OwnerType /\ v.reply = None /\ v.refusal = rx.refusal BY DEF
       OwnerType
  <2>2. rx' = [v EXCEPT !.pending = None, !.sent = FALSE] OBVIOUS
  <2> HIDE DEF v
  <2> QED BY <2>1, <2>2 DEF OwnerType
<1> USE <1>5
<1>6. slot' \in SlotType /\ slot'.st = "Idle" BY DEF Idle, SlotType
<1> USE <1>6
<1>7. /\ Owned' \in OwnedType /\ Owned'.slot = slot' /\ Owned'.rx = rx' /\ Owned'.permit = permit'
  BY DEF Owned, OwnedType
<1> USE <1>7
<1>8. /\ disk' \in DirectoryType /\ disk'.synced = disk.synced
      /\ disk'.entry = [n \in Names |-> IF n \in gone THEN None ELSE disk.entry[n]]
      /\ disk'.lost = {disk.entry[n] : n \in gone}
  <2> DEFINE names == [n \in Names |-> IF n \in gone THEN None ELSE disk.entry[n]]
             went == {disk.entry[n] : n \in gone}
             part == IF disk.part = "named" THEN disk.part ELSE None
             e == [disk EXCEPT !.entry = names]
             g == [e EXCEPT !.part = part]
  <2>1. names \in [Names -> Files \cup {Local, None}] BY DEF DirectoryType
  <2>2. went \in SUBSET (Files \cup {Local})
    BY SMTT(30) DEF Unsynced, DirectoryType
  <2>3. part \in {"unnamed", "named", None} OBVIOUS
  <2>4. disk' = [g EXCEPT !.lost = went] BY <1>3 DEF Crashed
  <2> HIDE DEF names, went, part
  <2>5. e \in DirectoryType /\ e.entry = names /\ e.synced = disk.synced
    BY <2>1 DEF DirectoryType
  <2> HIDE DEF e
  <2>6. g \in DirectoryType /\ g.entry = names /\ g.synced = disk.synced
    BY <2>3, <2>5 DEF DirectoryType
  <2> HIDE DEF g
  <2>7. /\ disk' \in DirectoryType /\ disk'.entry = names /\ disk'.lost = went
        /\ disk'.synced = disk.synced
    BY <2>2, <2>4, <2>6 DEF DirectoryType
  <2> QED BY <2>7 DEF names, went
<1>9. worker'.pc \notin Executing \cup PastClock BY DEF Executing, PastClock
<1> USE <1>9
<1>10. Mailbox(Owned)' BY DEF Mailbox
<1>11. Holding(Owned)' BY DEF Holding
<1>12. Charged(Owned)' BY DEF Charged
<1>13. HostInv' BY <1>8, <1>10, <1>11, <1>12 DEF HostInv, HostOK
<1> QED BY <1>8, <1>13

\* Another program's file only adds a name, where there was none.
LEMMA LocalFacts ==
    ASSUME HostInv, Fit(tx), LocalFile
    PROVE  /\ HostInv'
           /\ UNCHANGED <<tx, rx, slot, worker, permit, standing, fence, toHost, toSender, cut>>
           /\ \E n \in Names : /\ disk.entry[n] = None
                               /\ disk'.entry = [disk.entry EXCEPT ![n] = Local]
                               /\ disk'.synced = disk.synced \cup {n}
                               /\ disk'.lost = disk.lost
<1>1. worker \in WorkerType /\ disk \in DirectoryType /\ tx \in S!SenderType
  BY DEF HostInv, Fit, Loose
<1> USE <1>1
<1>2. Outstanding \subseteq Files
  <2>1. \A i \in DOMAIN tx.queue : tx.queue[i] \in Files BY SMTT(30) DEF S!SenderType
  <2>2. tx.transfer # None => tx.transfer.file \in Files
    BY DEF S!SenderType, S!Transfers
  <2>3. worker.active # None => worker.active.file \in Files
    BY DEF WorkerType, Pendings
  <2> QED BY <2>1, <2>2, <2>3 DEF Outstanding
<1>3. PICK n \in Outstanding \X (0..MaxConflicts) :
        disk.entry[n] = None /\ disk' = LocalCreate(disk, n)
  BY DEF LocalFile
<1>4. n \in Names BY <1>2 DEF Names
<1>5. UNCHANGED <<tx, rx, slot, worker, permit, standing, fence, toHost, toSender, cut>>
  BY DEF LocalFile, lane
<1> USE <1>5
<1>6. /\ disk' \in DirectoryType /\ disk'.entry = [disk.entry EXCEPT ![n] = Local]
      /\ disk'.synced = disk.synced \cup {n} /\ disk'.lost = disk.lost
      /\ disk'.part = disk.part /\ disk'.reserved = disk.reserved /\ disk'.failed = disk.failed
  <2> DEFINE names == [disk.entry EXCEPT ![n] = Local]
             kept == disk.synced \cup {n}
             e == [disk EXCEPT !.entry = names]
  <2>1. names \in [Names -> Files \cup {Local, None}] /\ kept \in SUBSET Names
    BY <1>4 DEF DirectoryType
  <2>2. disk' = [e EXCEPT !.synced = kept] BY <1>3 DEF LocalCreate, DirectoryType
  <2> HIDE DEF names, kept
  <2>3. /\ e \in DirectoryType /\ e.entry = names /\ e.synced = disk.synced /\ e.lost = disk.lost
        /\ e.part = disk.part /\ e.reserved = disk.reserved /\ e.failed = disk.failed
    BY <2>1 DEF DirectoryType
  <2> HIDE DEF e
  <2>4. /\ disk' \in DirectoryType /\ disk'.entry = names /\ disk'.synced = kept
        /\ disk'.lost = disk.lost /\ disk'.part = disk.part
        /\ disk'.reserved = disk.reserved /\ disk'.failed = disk.failed
    BY <2>1, <2>2, <2>3 DEF DirectoryType
  <2> QED BY <2>4 DEF names, kept
<1> USE <1>6
<1>7. Owned' = Owned BY DEF Owned
<1> USE <1>7
<1>8. HostInv'
  <2>1. Mailbox(Owned)' BY DEF HostInv, HostOK, Mailbox
  <2>2. Holding(Owned)' BY DEF HostInv, HostOK, Holding
  <2>3. Charged(Owned)' BY DEF HostInv, HostOK, Charged
  <2> QED BY <2>1, <2>2, <2>3 DEF HostInv, HostOK
<1> QED BY <1>3, <1>4, <1>8

-----------------------------------------------------------------------------
(* Fences.                                                                 *)

FenceType ==
    [permit : (SUBSET Files) \cup {None}, revoked : (SUBSET Files) \cup {None},
     late : (SUBSET Files) \cup {None}]

\* Whatever is past a fence that has fallen was past it when it fell.
Fencing ==
    /\ ~ permit => Past(PastPermit) \subseteq fence.permit
    /\ standing = "revoked" => Past(PastStanding) \subseteq fence.revoked
    /\ standing = "late" =>
         /\ Past({}) \subseteq fence.late
         /\ worker.pc \in PastClock /\ worker.timely => worker.active.file \in fence.late
    /\ worker.pc \in PastStanding => worker.timely

Standings == {"live", "revoked", "late"}

-----------------------------------------------------------------------------
(* The inductive invariant of the fences and the charges.                  *)

LaneInv ==
    /\ Fit(tx) /\ HostInv /\ fence \in FenceType /\ standing \in Standings /\ Fencing

LEMMA ChainStreams ==
    ASSUME toHost \in Seq(Records), toSender \in Seq(Replies), NEW s, NEW h, NEW u,
           Chain(s, h, u)
    PROVE  toHost' \in Seq(Records) /\ toSender' \in Seq(Replies) /\ Fit(tx')
<1>1. toSender' \in Seq(Replies)
  <2>1. toSender' = toSender \/ (toSender # << >> /\ toSender' = Tail(toSender)) BY DEF Chain
  <2> QED BY <2>1, SMTT(30)
<1>2. Fit(tx') BY DEF Chain, Ends
<1>3. toHost' \in Seq(Records)
  <2>1. CASE toHost' = toHost BY <2>1
  <2>2. ASSUME NEW p \in S!Packets, toHost' = Append(toHost, Answer(p, h.transfer.file)),
               Working(h)
        PROVE  toHost' \in Seq(Records)
    <3> USE <2>2
    <3>1. h.transfer.file \in Files
      BY DEF Working, Fit, Loose, S!SenderType, S!Transfers
    <3>2. Answer(p, h.transfer.file) \in Records BY <3>1 DEF Answer, Records
    <3> QED BY <3>2, SMTT(30)
  <2> QED BY <2>1, <2>2 DEF Chain, Sent
<1> QED BY <1>1, <1>2, <1>3

LEMMA LaneInit ==
    ASSUME Init
    PROVE  LaneInv

<1>NewSenderFits.
    ASSUME NEW n \in 1..Cardinality(Files)
    PROVE  Fit(S!NewSender([i \in 1..n |-> i]))
  <2> DEFINE q == [i \in 1..n |-> i]
             s == S!NewSender(q)
  <2>1. Cardinality(Files) \in Nat /\ Files = 1..Cardinality(Files)
    BY FilesAreNumbers, LaneAssumption
  <2> USE <2>1
  <2>2. q \in Seq(Files) /\ Len(q) = n /\ \A i \in 1..n : q[i] = i
    <3>1. n \in Nat /\ \A i \in 1..n : i \in Files BY SMTT(30)
    <3> QED BY <3>1, SMTT(30)
  <2> USE <2>2
  <2> HIDE DEF q
  <2>3. S!NoSource \in S!SourceType BY DEF S!NoSource, S!SourceType
  <2>4. [f \in Files |-> None] \in [Files -> S!Outcomes \cup {None}] OBVIOUS
  <2>5. /\ s \in S!SenderType /\ s.queue = q /\ s.transfer = None /\ s.stop = None
        /\ ~ s.complete /\ s.receipts = [f \in Files |-> None]
    BY <2>3, <2>4 DEF S!NewSender, S!SenderType
  <2> USE <2>5
  <2> HIDE DEF s
  <2>6. q[1] = 1 /\ n \in Nat BY SMTT(30)
  <2>7. \A g \in Files : s.receipts[g] = IF g < q[1] THEN "Durable" ELSE None
    BY <2>6, SMTT(30)
  <2>8. \A i \in 1..Len(s.queue) : s.queue[i] = s.queue[1] + i - 1 BY <2>6, SMTT(30)
  <2>9. Selected(s) BY <2>7, <2>8 DEF Selected
  <2>10. Fit(s) BY <2>9 DEF Fit, Loose
  <2> QED BY <2>10 DEF s, q

<1>1. Fit(tx) BY <1>NewSenderFits DEF Init
<1>2. /\ rx = [state |-> "Active", reply |-> None, sent |-> FALSE, refusal |-> None,
               active |-> None, pending |-> None, last |-> 0]
      /\ slot = Idle /\ permit = TRUE /\ toHost = << >> /\ toSender = << >>
      /\ worker = [pc |-> "loop", active |-> None, closed |-> FALSE, floor |-> 0, timely |-> TRUE]
      /\ disk = EmptyDirectory /\ standing = "live"
      /\ fence = [permit |-> None, revoked |-> None, late |-> None]
  BY DEF Init
<1> USE <1>2
<1>3. rx \in OwnerType /\ rx.pending = None /\ rx.active = None BY DEF OwnerType
<1> USE <1>3
<1>4. slot \in SlotType /\ slot.st = "Idle" BY DEF Idle, SlotType
<1> USE <1>4
<1>5. worker \in WorkerType /\ worker.pc = "loop" /\ worker.active = None
  BY DEF WorkerType
<1> USE <1>5
<1>6. /\ disk \in DirectoryType /\ ~ disk.failed /\ disk.reserved = 0 /\ disk.part = None
  <2> DEFINE e == [n \in Names |-> None]
  <2>1. e \in [Names -> Files \cup {Local, None}] OBVIOUS
  <2>2. disk = [entry |-> e, synced |-> {}, part |-> None, reserved |-> 0, failed |-> FALSE, lost |-> {}]
    BY DEF EmptyDirectory
  <2> HIDE DEF e
  <2>3. disk \in DirectoryType BY <2>1, <2>2, SMTT(30) DEF DirectoryType
  <2> QED BY <2>2, <2>3, SMTT(30)
<1>7. << >> \in Seq(Records) /\ << >> \in Seq(Replies) BY SMTT(30)
<1>8. Owned \in OwnedType /\ Owned.slot = slot /\ Owned.rx = rx
  BY <1>7 DEF Owned, OwnedType
<1> USE <1>8
<1>9. worker.pc \notin Executing \cup PastClock \cup PastStanding
  BY DEF Executing, PastClock, PastStanding
<1> USE <1>9
<1>10. Mailbox(Owned) BY DEF Mailbox
<1>11. Holding(Owned) BY DEF Holding
<1>12. Charged(Owned) BY <1>6 DEF Charged
<1>13. fence \in FenceType BY DEF FenceType
<1>14. Fencing BY DEF Fencing
<1> QED
  BY <1>1, <1>6, <1>10, <1>11, <1>12, <1>13, <1>14 DEF LaneInv, HostInv, HostOK,
     Standings

LEMMA LaneStep ==
    ASSUME LaneInv, [Next]_vars
    PROVE  LaneInv'

<1>PastFiles.
    ASSUME HostInv, NEW pcs \in {{}, PastClock, PastPermit, PastStanding}
    PROVE  Past(pcs) \in SUBSET Files
  <2> USE <1>PastFiles
  <2>1. worker.pc \in pcs => worker.pc \in Executing /\ worker.pc # "begin"
    BY DEF PastClock, PastPermit, PastStanding, Executing
  <2>2. worker.pc \in pcs => worker.active.file \in Files
    BY <2>1, ExecFacts
  <2> QED BY <2>2 DEF Past

\* The same names, and no more of the worker: nothing new is past.
<1>PastKept.
    ASSUME NEW pcs, \A n \in Names, f \in Files : disk'.entry[n] = f => disk.entry[n] = f,
           worker'.pc \in pcs => worker.pc \in pcs /\ worker'.active.file = worker.active.file
    PROVE  Past(pcs)' \subseteq Past(pcs)
  <2> USE <1>PastKept
  <2>1. \A f \in Files : Placed(disk, f)' # {} => Placed(disk, f) # {} BY DEF Placed
  <2> QED BY <2>1 DEF Past

<1>FencingStep.
    ASSUME Fencing, HostInv, fence \in FenceType, standing \in Standings, standing' = standing,
           \/ Approved /\ (permit \/ Past(PastPermit)' \subseteq Past(PastPermit))
           \/ Revoke /\ Past(PastPermit)' \subseteq Past(PastPermit),
           standing = "revoked" => Past(PastStanding)' \subseteq Past(PastStanding),
           standing = "late" =>
             /\ Past({})' \subseteq fence.late
             /\ worker'.pc \in PastClock /\ worker'.timely => worker'.active.file \in fence.late,
           worker'.pc \in PastStanding => worker'.timely
    PROVE  Fencing' /\ fence' \in FenceType
  <2> USE <1>FencingStep
  <2>1. permit \in BOOLEAN BY OwnedParts DEF HostInv
  <2>2. CASE fence' = fence /\ ~ permit' /\ Past(PastPermit)' \subseteq fence.permit
    BY <2>2 DEF Fencing
  <2>3. CASE fence' = fence /\ permit' BY <2>3 DEF Fencing
  <2>4. CASE ~ permit' /\ fence' = [fence EXCEPT !.permit = Past(PastPermit)]
             /\ Past(PastPermit)' \subseteq Past(PastPermit)
    <3> USE <2>4
    <3> DEFINE past == Past(PastPermit)
    <3>1. past \in SUBSET Files BY <1>PastFiles
    <3>2. fence' = [fence EXCEPT !.permit = past] /\ past' \subseteq past OBVIOUS
    <3> HIDE DEF past
    <3>3. /\ fence' \in FenceType /\ fence'.permit = past /\ fence'.late = fence.late
          /\ fence'.revoked = fence.revoked
      BY <3>1, <3>2 DEF FenceType
    <3>4. Past(PastPermit)' \subseteq fence'.permit BY <3>2, <3>3 DEF past
    <3> QED BY <3>3, <3>4 DEF Fencing
  <2>5. CASE Approved
    <3>1. permit' = permit /\ fence' = fence BY <2>5 DEF Approved
    <3> USE <3>1
    <3>2. CASE permit
      <4>1. permit' BY <3>2
      <4> QED BY <2>3, <4>1
    <3>3. CASE ~ permit
      <4> USE <3>3
      <4>1. ~ permit' OBVIOUS
      <4>2. Past(PastPermit)' \subseteq fence.permit BY DEF Fencing
      <4> QED BY <2>2, <4>1, <4>2
    <3> QED BY <3>2, <3>3
  <2>6. CASE Revoke /\ Past(PastPermit)' \subseteq Past(PastPermit)
    <3> USE <2>6
    <3>1. permit' = FALSE
          /\ fence' = IF permit THEN [fence EXCEPT !.permit = Past(PastPermit)] ELSE fence
      BY DEF Revoke
    <3> USE <3>1
    <3>2. CASE permit BY <2>4, <3>2
    <3>3. CASE ~ permit
      <4> USE <3>3
      <4>1. fence' = fence OBVIOUS
      <4>2. Past(PastPermit)' \subseteq fence.permit BY DEF Fencing
      <4> QED BY <2>2, <4>1, <4>2
    <3> QED BY <3>2, <3>3
  <2> QED BY <2>5, <2>6

\* A step after which the worker is not about to publish, and no file has appeared.
<1>FencingAway.
    ASSUME Fencing, HostInv, fence \in FenceType, standing \in Standings, standing' = standing,
           Approved \/ Revoke, worker'.pc \notin PastClock,
           \A n \in Names, f \in Files : disk'.entry[n] = f => disk.entry[n] = f
    PROVE  Fencing' /\ fence' \in FenceType
  <2> USE <1>FencingAway
  <2>1. worker'.pc \notin PastPermit \cup PastStanding
    BY DEF PastClock, PastPermit, PastStanding
  <2>2. /\ Past(PastPermit)' \subseteq Past(PastPermit)
        /\ Past(PastStanding)' \subseteq Past(PastStanding)
        /\ Past({})' \subseteq Past({})
    BY <2>1, <1>PastKept
  <2>3. standing = "late" => Past({})' \subseteq fence.late BY <2>2 DEF Fencing
  <2> QED BY <2>1, <2>2, <2>3, <1>FencingStep

<1>FencingMoves.
    ASSUME Fencing, HostInv, fence \in FenceType, standing \in Standings, standing' = standing,
           Approved, Moves
    PROVE  Fencing' /\ fence' \in FenceType
  <2> USE <1>FencingMoves
  <2>1. \A n \in Names, f \in Files : disk'.entry[n] = f => disk.entry[n] = f
    BY DEF Moves, SameShelf
  <2> USE <2>1
  <2>2. CASE worker'.pc \notin PastClock BY <2>2, <1>FencingAway
  <2>3. CASE worker'.pc \in PastClock
    <3> USE <2>3
    <3>1. worker'.active.file = worker.active.file
      BY DEF Moves, PastClock, Commands
    <3> USE <3>1
    <3>2. permit \/ Past(PastPermit)' \subseteq Past(PastPermit)
      <4>1. CASE permit BY <4>1
      <4>2. CASE ~ permit
        <5>1. worker'.pc \in PastPermit => worker.pc \in PastPermit BY <4>2 DEF Moves
        <5> QED BY <5>1, <1>PastKept
      <4> QED BY <4>1, <4>2
    <3>3. ASSUME standing = "revoked" PROVE Past(PastStanding)' \subseteq Past(PastStanding)
      <4>1. worker'.pc \in PastStanding => worker.pc \in PastStanding BY <3>3 DEF Moves
      <4> QED BY <4>1, <1>PastKept
    <3>4. ASSUME standing = "late"
          PROVE  /\ Past({})' \subseteq fence.late
                 /\ worker'.pc \in PastClock /\ worker'.timely => worker'.active.file \in fence.late
      <4> USE <3>4
      <4>1. Past({})' \subseteq Past({}) BY <1>PastKept
      <4>2. worker'.timely => worker.pc \in PastClock /\ worker.timely BY DEF
           Moves
      <4> QED BY <4>1, <4>2 DEF Fencing
    <3>5. worker'.pc \in PastStanding => worker'.timely BY DEF Moves, Fencing
    <3> QED BY <3>2, <3>3, <3>4, <3>5, <1>FencingStep
  <2> QED BY <2>2, <2>3

\* The file that appears was past every fence.
<1>FencingPublishes.
    ASSUME Fencing, HostInv, fence \in FenceType, standing \in Standings, standing' = standing,
           Approved, Publishes
    PROVE  Fencing' /\ fence' \in FenceType
  <2> USE <1>FencingPublishes
  <2> DEFINE file == worker.active.file
  <2>1. worker.pc = "publish" /\ worker.pc \in Executing /\ worker'.pc = "placed"
        /\ worker'.active.file = file /\ worker'.timely = worker.timely
    BY DEF Publishes, Executing
  <2> USE <2>1
  <2>2. /\ worker.pc \in PastClock \cap PastPermit \cap PastStanding
        /\ worker'.pc \in PastClock \cap PastPermit \cap PastStanding
    BY DEF PastClock, PastPermit, PastStanding
  <2> USE <2>2
  <2>3. worker.active \in Pendings /\ disk \in DirectoryType /\ file \in Files
    BY ExecFacts DEF HostInv
  <2>4. disk'.entry = [disk.entry EXCEPT ![Target(worker.active)] = file]
    BY <2>3, PublishDisk DEF Publishes
  <2>5. \A n \in Names, f \in Files : f # file /\ disk'.entry[n] = f => disk.entry[n] = f
    BY <2>3, <2>4 DEF DirectoryType
  <2>6. \A f \in Files : f # file /\ Placed(disk, f)' # {} => Placed(disk, f) # {}
    BY <2>5 DEF Placed
  <2>7. \A pcs : worker.pc \in pcs /\ worker'.pc \in pcs => Past(pcs)' \subseteq Past(pcs)
    BY <2>6 DEF Past
  <2>8. Past({})' \subseteq Past({}) \cup {file} BY <2>6 DEF Past
  <2>9. worker.timely BY DEF Fencing
  <2>10. standing = "late" => file \in fence.late BY <2>9 DEF Fencing
  <2>11. standing = "late" => Past({})' \subseteq fence.late BY <2>8, <2>10 DEF Fencing
  <2>12. /\ Past(PastPermit)' \subseteq Past(PastPermit)
         /\ Past(PastStanding)' \subseteq Past(PastStanding)
    BY <2>7
  <2> QED BY <2>9, <2>10, <2>11, <2>12, <1>FencingStep

<1>WorkerFencing.
    ASSUME Fencing, HostInv, fence \in FenceType, standing \in Standings,
           WorkerStep \/ WorkerPanics
    PROVE  Fencing' /\ fence' \in FenceType
  <2> USE <1>WorkerFencing
  <2>1. /\ standing' = standing
        /\ \/ (Moves \/ Publishes \/ Syncs) /\ Approved
           \/ (Stores \/ Idles) /\ (Approved \/ Revoke)
    BY WorkerFacts
  <2> USE <2>1
  <2>2. CASE Moves /\ Approved BY <2>2, <1>FencingMoves
  <2>3. CASE Publishes /\ Approved BY <2>3, <1>FencingPublishes
  <2>4. CASE (Syncs \/ Stores \/ Idles) /\ (Approved \/ Revoke)
    <3> USE <2>4
    <3>1. /\ worker'.pc \notin PastClock
          /\ \A n \in Names, f \in Files : disk'.entry[n] = f => disk.entry[n] = f
      BY DEF Syncs, Stores, Idles, SameShelf, PastClock
    <3> QED BY <3>1, <1>FencingAway
  <2> QED BY <2>2, <2>3, <2>4

\* The same worker and names: only the fences change.
<1>FencingBeside.
    ASSUME Fencing, HostInv, fence \in FenceType, standing \in Standings, standing' = standing,
           Approved \/ Revoke, worker' = worker,
           \A n \in Names, f \in Files : disk'.entry[n] = f => disk.entry[n] = f
    PROVE  Fencing' /\ fence' \in FenceType
  <2> USE <1>FencingBeside
  <2>1. \A pcs : Past(pcs)' \subseteq Past(pcs) BY <1>PastKept
  <2>2. standing = "late" =>
          /\ Past({})' \subseteq fence.late
          /\ worker'.pc \in PastClock /\ worker'.timely => worker'.active.file \in fence.late
    BY <2>1 DEF Fencing
  <2>3. worker'.pc \in PastStanding => worker'.timely BY DEF Fencing
  <2> QED BY <2>1, <2>2, <2>3, <1>FencingStep

<1>StandingFencing.
    ASSUME Fencing, HostInv, fence \in FenceType, StandingLost
    PROVE  Fencing' /\ fence' \in FenceType /\ standing' \in Standings
  <2> USE <1>StandingFencing
  <2>1. /\ standing = "live" /\ worker' = worker /\ disk' = disk /\ permit' = permit
    BY DEF StandingLost
  <2> USE <2>1
  <2>2. \A pcs : Past(pcs)' = Past(pcs) BY DEF Past
  <2> USE <2>2
  <2>3. CASE standing' = "revoked" /\ fence' = [fence EXCEPT !.revoked = Past(PastStanding)]
    <3> USE <2>3
    <3> DEFINE past == Past(PastStanding)
    <3>1. past \in SUBSET Files BY <1>PastFiles
    <3>2. fence' = [fence EXCEPT !.revoked = past] OBVIOUS
    <3> HIDE DEF past
    <3>3. /\ fence' \in FenceType /\ fence'.revoked = past /\ fence'.permit = fence.permit
      BY <3>1, <3>2 DEF FenceType
    <3> USE <3>3
    <3>4. Past(PastStanding)' \subseteq fence'.revoked BY DEF past
    <3>5. ~ permit' => Past(PastPermit)' \subseteq fence'.permit BY DEF Fencing
    <3>6. worker'.pc \in PastStanding => worker'.timely BY DEF Fencing
    <3> QED BY <3>4, <3>5, <3>6 DEF Fencing, Standings
  <2>4. CASE standing' = "late" /\ fence' = [fence EXCEPT !.late = Past(PastClock)]
    <3> USE <2>4
    <3> DEFINE past == Past(PastClock)
    <3>1. past \in SUBSET Files BY <1>PastFiles
    <3>2. fence' = [fence EXCEPT !.late = past] OBVIOUS
    <3>3. /\ Past({}) \subseteq past
          /\ worker.pc \in PastClock => worker.active.file \in past
      BY DEF Past
    <3> HIDE DEF past
    <3>4. /\ fence' \in FenceType /\ fence'.late = past /\ fence'.permit = fence.permit
      BY <3>1, <3>2 DEF FenceType
    <3> USE <3>4
    <3>5. ~ permit' => Past(PastPermit)' \subseteq fence'.permit BY DEF Fencing
    <3>6. worker'.pc \in PastStanding => worker'.timely BY DEF Fencing
    <3>7. /\ Past({})' \subseteq fence'.late
          /\ worker'.pc \in PastClock => worker'.active.file \in fence'.late
      BY <3>3
    <3> QED BY <3>5, <3>6, <3>7 DEF Fencing, Standings
  <2> QED BY <2>3, <2>4 DEF StandingLost

\* The sender's steps leave the receiving end alone, but for the two streams.
<1>SenderBeside.
    ASSUME LaneInv, UNCHANGED host, toHost' \in Seq(Records), toSender' \in Seq(Replies),
           Fit(tx')
    PROVE  LaneInv'
  <2> USE <1>SenderBeside
  <2>1. UNCHANGED <<rx, slot, worker, disk, permit, standing, fence>> BY DEF host
  <2> USE <2>1
  <2>2. Owned' \in OwnedType BY OwnedParts DEF LaneInv, HostInv, Owned,
       OwnedType
  <2>3. Owned'.rx = Owned.rx /\ Owned'.slot = Owned.slot /\ Owned'.permit = Owned.permit
    BY DEF Owned
  <2> USE <2>3
  <2>4. Mailbox(Owned)' BY DEF LaneInv, HostInv, HostOK, Mailbox
  <2>5. Holding(Owned)' BY DEF LaneInv, HostInv, HostOK, Holding
  <2>6. Charged(Owned)' BY DEF LaneInv, HostInv, HostOK, Charged
  <2>7. HostInv' BY <2>2, <2>4, <2>5, <2>6 DEF LaneInv, HostInv, HostOK
  <2>8. Fencing' BY DEF LaneInv, Fencing, Past
  <2> QED BY <2>7, <2>8 DEF LaneInv

<1>OwnerInv.
    ASSUME LaneInv, OwnerTurn \/ OwnerCollects \/ OwnerStops
    PROVE  LaneInv'
  <2> USE <1>OwnerInv
  <2>1. PICK c, p, f : OwnerChain(c, p, f, Owned') /\ Left
    BY OwnerShape DEF LaneInv, HostInv
  <2> USE <2>1
  <2>2. HostOK(Owned') BY OwnerChainOK DEF LaneInv, HostInv
  <2> USE <2>2
  <2>3. /\ UNCHANGED <<tx, worker, disk, standing, cut>>
        /\ fence' = IF permit /\ ~ permit' THEN [fence EXCEPT !.permit = Past(PastPermit)] ELSE fence
    BY DEF Left
  <2> USE <2>3
  <2>4. permit \in BOOLEAN /\ permit' \in BOOLEAN /\ (permit' => permit)
    BY OwnerChainOK DEF LaneInv, HostInv, HostOK, Owned, OwnedType
  <2>5. Approved \/ Revoke
    <3>1. CASE permit /\ ~ permit'
      <4> USE <3>1
      <4>1. permit' = FALSE BY <2>4
      <4> QED BY <4>1 DEF Revoke
    <3>2. CASE ~ (permit /\ ~ permit')
      <4> USE <3>2
      <4>1. permit' = permit BY <2>4
      <4> QED BY <4>1 DEF Approved
    <3> QED BY <3>1, <3>2
  <2>6. HostInv'
    <3>1. Mailbox(Owned)' BY DEF HostOK, Mailbox
    <3>2. Holding(Owned)' BY DEF HostOK, Holding
    <3>3. Charged(Owned)' BY DEF HostOK, Charged
    <3> QED BY <3>1, <3>2, <3>3 DEF LaneInv, HostInv, HostOK
  <2>7. Fencing' /\ fence' \in FenceType
    BY <2>5, <1>FencingBeside DEF LaneInv
  <2> QED BY <2>6, <2>7 DEF LaneInv

<1>0. HostInv /\ Fit(tx) /\ toHost \in Seq(Records) /\ toSender \in Seq(Replies)
  BY OwnedParts DEF LaneInv, HostInv
<1> USE <1>0
<1>1. CASE WorkerStep \/ WorkerPanics
  <2> USE <1>1
  <2>1. HostInv' /\ tx' = tx /\ standing' = standing BY WorkerFacts
  <2>2. Fencing' /\ fence' \in FenceType BY <1>WorkerFencing DEF LaneInv
  <2> QED BY <2>1, <2>2 DEF LaneInv
<1>2. CASE OwnerTurn \/ OwnerCollects \/ OwnerStops BY <1>2, <1>OwnerInv
<1>3. CASE SenderTurn \/ SenderCancels
  <2> USE <1>3
  <2>1. \E s, h, u : Chain(s, h, u) BY TurnShape
  <2>2. toHost' \in Seq(Records) /\ toSender' \in Seq(Replies) /\ Fit(tx')
    BY <2>1, ChainStreams
  <2>3. UNCHANGED host BY DEF SenderTurn, SenderCancels
  <2> QED BY <2>2, <2>3, <1>SenderBeside
<1>4. CASE SenderPauses \/ SourceStep \/ Late
  <2> USE <1>4
  <2>1. Fit(tx') BY BesideFacts DEF Beside
  <2>2. UNCHANGED host /\ toHost' = toHost /\ toSender' = toSender
    BY DEF SenderPauses, SourceStep, Late, lane
  <2> QED BY <2>1, <2>2, <1>SenderBeside
<1>5. CASE StandingLost
  <2> USE <1>5
  <2>1. Fencing' /\ fence' \in FenceType /\ standing' \in Standings
    BY <1>StandingFencing DEF LaneInv
  <2>2. UNCHANGED <<tx, rx, slot, worker, disk, permit, toHost, toSender>>
    BY DEF StandingLost, lane
  <2> USE <2>2
  <2>3. HostInv'
    <3>1. Owned' = Owned BY DEF Owned
    <3>2. HostOK(Owned)' BY <3>1, SMTT(30) DEF HostInv, HostOK, Mailbox, Holding, Charged
    <3> QED BY <3>2 DEF HostInv
  <2> QED BY <2>1, <2>3 DEF LaneInv
<1>6. CASE ConnectionLost
  <2>1. /\ UNCHANGED <<tx, rx, slot, worker, disk, standing, toHost, toSender>>
        /\ Approved \/ Revoke
    BY <1>6 DEF ConnectionLost
  <2> USE <2>1
  <2>2. Fencing' /\ fence' \in FenceType BY <1>FencingBeside DEF LaneInv
  <2>3. Apart /\ slot' \in SlotType BY RevokeApart, OwnedParts DEF HostInv
  <2>4. /\ Owned' \in OwnedType /\ Owned'.slot = Owned.slot /\ Owned'.rx = Owned.rx
        /\ (Owned'.permit => Owned.permit)
    BY <2>3, OwnedNext DEF HostInv, Owned, Apart
  <2> USE <2>4
  <2>5. Mailbox(Owned)' BY DEF HostInv, HostOK, Mailbox
  <2>6. Holding(Owned)' BY DEF HostInv, HostOK, Holding
  <2>7. Charged(Owned)' BY DEF HostInv, HostOK, Charged
  <2>8. HostInv' BY <2>5, <2>6, <2>7 DEF HostInv, HostOK
  <2> QED BY <2>2, <2>8 DEF LaneInv
<1>7. CASE Crash
  <2> USE <1>7
  <2>1. HostInv' /\ worker'.pc = "dead" BY CrashFacts
  <2>2. \A n \in Names, f \in Files : disk'.entry[n] = f => disk.entry[n] = f
    BY CrashFacts, FilesAreNumbers
  <2>3. UNCHANGED <<tx, standing>> /\ Revoke BY DEF Crash
  <2>4. worker'.pc \notin PastClock BY <2>1 DEF PastClock
  <2>5. Fencing' /\ fence' \in FenceType BY <2>2, <2>3, <2>4, <1>FencingAway DEF LaneInv
  <2> QED BY <2>1, <2>3, <2>5 DEF LaneInv
<1>8. CASE LocalFile
  <2> USE <1>8
  <2>1. /\ HostInv'
        /\ UNCHANGED <<tx, rx, slot, worker, permit, standing, fence, toHost, toSender, cut>>
    BY LocalFacts
  <2> USE <2>1
  <2>2. PICK n \in Names : disk'.entry = [disk.entry EXCEPT ![n] = Local]
    BY LocalFacts
  <2>3. \A m \in Names, f \in Files : disk'.entry[m] = f => disk.entry[m] = f
    BY <2>2, FilesAreNumbers DEF HostInv, DirectoryType
  <2>4. Approved BY DEF Approved
  <2>5. Fencing' /\ fence' \in FenceType BY <2>3, <2>4, <1>FencingBeside DEF LaneInv
  <2> QED BY <2>5 DEF LaneInv
<1>9. CASE UNCHANGED vars
  <2>1. UNCHANGED host /\ tx' = tx /\ toHost' = toHost /\ toSender' = toSender
    BY <1>9 DEF vars, host
  <2> QED BY <2>1, <1>SenderBeside
<1> QED BY <1>1, <1>2, <1>3, <1>4, <1>5, <1>6, <1>7, <1>8, <1>9 DEF Next

LEMMA LaneInvariant == Spec => []LaneInv
<1>1. Init => LaneInv BY LaneInit
<1>2. LaneInv /\ [Next]_vars => LaneInv' BY LaneStep
<1> QED BY <1>1, <1>2, PTL DEF Spec

\* After Permission::revoke, or once the controller's authority is revoked or past its
\* deadline, no file appears but the one whose last look at that fence was behind it:
\* for every number of files, chunks, conflict names and failures.
THEOREM FencesHold == Spec => []FencedNotPublished
<1>1. ASSUME LaneInv PROVE FencedNotPublished
  <2> USE <1>1
  <2> SUFFICES ASSUME NEW f \in Files, Placed(disk, f) # {}
               PROVE  /\ ~ permit => f \in fence.permit
                      /\ standing # "live" => f \in fence[standing]
    BY DEF FencedNotPublished
  <2>1. \A pcs : f \in Past(pcs) BY DEF Past
  <2> USE <2>1
  <2>2. ~ permit => f \in fence.permit BY DEF LaneInv, Fencing
  <2> USE <2>2
  <2>3. CASE standing = "revoked" BY <2>3 DEF LaneInv, Fencing
  <2>4. CASE standing = "late" BY <2>4 DEF LaneInv, Fencing
  <2>5. CASE standing = "live" BY <2>5
  <2> QED BY <2>3, <2>4, <2>5 DEF LaneInv, Standings
<1> QED BY <1>1, LaneInvariant, PTL

\* A staging object is charged while the process lives, and a worker that has ended
\* (Task::try_finish_cleanup) reports a failed cleanup exactly when it left one behind.
THEOREM CleanupIsReported == Spec => []CleanupReportIsTrue
<1>1. ASSUME LaneInv PROVE CleanupReportIsTrue
  <2>1. Charged(Owned) /\ Holding(Owned) /\ disk \in DirectoryType
    BY <1>1 DEF LaneInv, HostInv, HostOK
  <2>2. worker.pc # "dead" =>
          /\ disk.reserved = IF worker.active # None \/ disk.failed THEN 1 ELSE 0
          /\ disk.part # None => disk.failed \/ worker.active # None
          /\ disk.failed => disk.part # None
    BY <2>1 DEF Charged
  <2>3. worker.pc = "done" => worker.active = None /\ worker.pc # "dead" BY <2>1 DEF Holding
  <2>4. ASSUME worker.pc = "done"
        PROVE  /\ disk.failed <=> disk.part # None
               /\ disk.reserved = IF disk.failed THEN 1 ELSE 0
    BY <2>2, <2>3, <2>4
  <2> QED BY <2>2, <2>4, SMTT(30) DEF CleanupReportIsTrue
<1> QED BY <1>1, LaneInvariant, PTL

=============================================================================
