-------------------------- MODULE FileDeliveryProofs --------------------------
(***************************************************************************)
(* A file lane implements the promise of FileDelivery, for every number of  *)
(* files, chunks, conflict names and failures.                              *)
(***************************************************************************)
EXTENDS FileLaneProofs

\* A leaf goes to Zenon, which knows sets, functions and records; one that needs
\* arithmetic or sequences names SMT.
USE ZenonT(60)

-----------------------------------------------------------------------------
(* What the two ends know of each other.  s is the sender, h the owner.     *)

\* Nothing of the file was ever published, and it is published and synced.
Fresh(f) == Placed(disk, f) = {} /\ f \notin disk.lost
Durably(f) == Placed(disk, f) # {} /\ Placed(disk, f) \subseteq disk.synced

\* The worker's numbers only rise, and every file is published once.
Ordered ==
    /\ worker.active # None =>
         /\ worker.active.file <= worker.floor
         /\ worker.pc # "placed" => Fresh(worker.active.file)
         /\ worker.pc = "placed" => Placed(disk, worker.active.file) # {}
    /\ \A f \in Files : worker.floor < f => Fresh(f)
    /\ \A f \in Files : \A m, n \in Placed(disk, f) : m = n
    /\ worker.pc # "dead" => disk.lost = {}
    /\ \A f \in Files : f \in disk.lost => Placed(disk, f) = {}
    /\ \A n \in disk.synced : disk.entry[n] # None
    /\ Locals(disk) \subseteq disk.synced

\* A result in the mailbox is true of its file.
SlotTrue(h) ==
    h.slot.st = "Complete" =>
      /\ h.slot.result = "Durable" => Durably(h.slot.file)
      /\ h.slot.result = "DurabilityUnknown" => ~ Fresh(h.slot.file)
      /\ h.slot.result \in {"Begun", "Error"} => Fresh(h.slot.file)

\* The file's turn has come in the report, and its completion has not reached the disk.
TurnOf(s, f) == \A g \in Files : g < f => s.receipts[g] = "Durable"

Undone(h, f) ==
    /\ \A i \in 1..Len(h.toHost) : h.toHost[i].file = f => h.toHost[i].kind # "End"
    /\ ~ (h.slot.st # "Idle" /\ h.slot.op = "complete" /\ h.slot.file = f)
    /\ Fresh(f)

Quiet(h) == h.toHost = << >> /\ h.slot.st = "Idle"

\* A record on its way: an offer comes first and a completion last.
Travelling(s, h, i) ==
    LET m == h.toHost[i]
    IN /\ TurnOf(s, m.file) /\ Fresh(m.file)
       /\ m.kind = "Prepared" => i = 1 /\ h.slot.st = "Idle" /\ worker.floor < m.file
       /\ m.kind = "End" => i = Len(h.toHost)
       /\ s.transfer # None => m.file = s.transfer.file

\* A command under way.
Commanded(s, h) ==
    h.slot.st # "Idle" =>
      /\ TurnOf(s, h.slot.file)
      /\ s.transfer # None => h.slot.file = s.transfer.file
      /\ h.slot.op = "complete" => h.toHost = << >> /\ (s.transfer # None => s.transfer.admitted)
      /\ h.slot.op = "begin" /\ (h.slot.st = "Queued" \/ worker.pc = "begin") =>
           worker.floor < h.slot.file
      /\ h.slot.st = "Queued" => Fresh(h.slot.file)

\* What the sender's transfer, or the next of its queue, may rely on.
Relied(s, h) ==
    /\ worker.active # None => TurnOf(s, worker.active.file)
    /\ s.transfer = None /\ s.queue # << >> => Quiet(h)
    /\ \A i \in 1..Len(s.queue) : /\ worker.floor < s.queue[i]
                                  /\ \A m \in SaidBy(h) : m.file < s.queue[i]
                                  /\ h.rx.refusal # None => h.rx.refusal < s.queue[i]
    /\ s.transfer # None =>
         /\ s.transfer.stage = "Preparing" => Quiet(h) /\ worker.floor < s.transfer.file
         /\ ~ s.transfer.admitted => Undone(h, s.transfer.file)
         /\ s.transfer.result = "Durable" => Quiet(h)
         /\ \A m \in SaidBy(h) : m.kind = "Durable" /\ m.file = s.transfer.file =>
              Quiet(h) /\ s.transfer.admitted

Linked(s, h) ==
    (\A i \in 1..Len(h.toHost) : Travelling(s, h, i)) /\ Commanded(s, h) /\ Relied(s, h)

\* What is said of a file is true, and stays true.
Barred(h) == ~ h.permit /\ worker.pc \notin PastPermit

Truth(h, f, o) ==
    /\ o = "Durable" => Durably(f)
    /\ o = "DurabilityUnknown" => ~ Fresh(f)
    /\ o = "Refused" => Fresh(f) /\ Barred(h)
    /\ o = "Interrupted" => Undone(h, f)

Told(s, h) ==
    /\ \A f \in Files : Truth(h, f, s.receipts[f])
    /\ s.transfer # None => Truth(h, s.transfer.file, s.transfer.result)
    /\ \A m \in SaidBy(h) : Truth(h, m.file, m.kind)
    /\ h.rx.refusal # None => Truth(h, h.rx.refusal, "Refused")

PromiseInv == Ordered /\ SlotTrue(Owned) /\ Linked(tx, Owned) /\ Told(tx, Owned)

\* r is q without its first record, or q.
Shorter(q, r) ==
    /\ q = << >> => r = << >>
    /\ \A i \in 1..Len(r) : \E j \in 1..Len(q) :
         r[i] = q[j] /\ (i = Len(r) <=> j = Len(q)) /\ (j = 1 => i = 1)

\* Nothing lies between one and none.
LEMMA NoneBelow == 1..0 = {}
  BY SMTT(30)

\* What the host has said is read off its link and its pending answer alone.
LEMMA SaidAlike ==
    ASSUME NEW h, NEW u, u.toSender = h.toSender, u.rx.reply = h.rx.reply
    PROVE  SaidBy(u) = SaidBy(h)
  BY DEF SaidBy

\* All of it is replies.
LEMMA SaidAreReplies ==
    ASSUME NEW h, h.toSender \in Seq(Replies), h.rx.reply \in Replies \cup {None}
    PROVE  \A m \in SaidBy(h) : m \in Replies
<1>1. \A i \in 1..Len(h.toSender) : h.toSender[i] \in Replies
  BY SMTT(30)
<1> QED BY <1>1 DEF SaidBy

\* A stream with no record left is empty.
LEMMA NothingLeft ==
    ASSUME NEW q \in Seq(Records), Len(q) = 0
    PROVE  q = << >>
BY SMTT(30)

\* No outcome at all says nothing.
LEMMA TruthNone ==
    ASSUME NEW h, NEW f
    PROVE  Truth(h, f, None) /\ Truth(h, f, "Unknown") /\ Truth(h, f, "Accept")
           /\ None # "Durable" /\ None # "Interrupted"
BY NoneAssumption DEF Truth, S!Outcomes

LEMMA OutcomeFacts ==
    ASSUME NEW t
    PROVE  /\ t.result # None => Outcome(t) = t.result
           /\ t.result = None => Outcome(t) = IF t.admitted THEN "Unknown" ELSE "Interrupted"
           /\ Outcome(t) # None
           /\ Outcome(t) = "Durable" => t.result = "Durable"
BY NoneAssumption DEF Outcome, S!GivenUp, S!Outcomes

-----------------------------------------------------------------------------
(* The worker's steps.                                                      *)

LEMMA ShelfFacts ==
    ASSUME disk'.entry = disk.entry, disk'.lost = disk.lost
    PROVE  /\ \A f : Fresh(f)' <=> Fresh(f)
           /\ \A f : Placed(disk, f)' = Placed(disk, f)
           /\ Locals(disk)' = Locals(disk)
           /\ disk'.synced = disk.synced => \A f : Durably(f)' <=> Durably(f)
BY DEF Fresh, Durably, Placed, Locals

\* The mailbox, the worker and the directory, as the worker's steps find them.
LEMMA AtDisk ==
    ASSUME LaneInv, PromiseInv
    PROVE  /\ Owned.slot = slot /\ Owned.toHost = toHost /\ Owned.permit = permit
           /\ slot \in SlotType /\ worker \in WorkerType /\ disk \in DirectoryType
           /\ toHost \in Seq(Records) /\ worker.floor \in Nat
           /\ (slot.st # "Idle" => slot.file \in Files)
           /\ (slot.st = "Executing" <=> worker.pc \in Executing)
           /\ (worker.pc \in Executing /\ worker.pc # "placed" => Fresh(slot.file))
           /\ (worker.pc \in Executing \ {"begin"} =>
                 worker.active # None /\ worker.active.file = slot.file)
           /\ (worker.active # None => worker.active \in Pendings /\ worker.active.file \in Files)
           /\ (worker.pc \in PastClock => slot.op = "complete")
           /\ Ordered /\ SlotTrue(Owned) /\ Commanded(tx, Owned)
<1>1. /\ HostOK(Owned) /\ worker \in WorkerType /\ disk \in DirectoryType
      /\ Ordered /\ SlotTrue(Owned) /\ Commanded(tx, Owned)
  BY DEF LaneInv, HostInv, PromiseInv, Linked
<1> USE <1>1
<1>2. Owned.slot = slot /\ Owned.rx = rx /\ Owned.toHost = toHost /\ Owned.permit = permit
  BY DEF Owned
<1> USE <1>2
<1>3. rx \in OwnerType /\ slot \in SlotType /\ toHost \in Seq(Records) BY OwnedParts
<1>4. slot.st # "Idle" => slot.file \in Files
  <2>1. slot.st # "Idle" => rx.pending # None /\ slot.file = rx.pending
    BY DEF HostOK, Mailbox
  <2> QED BY <1>3, <2>1 DEF OwnerType
<1>5. slot.st = "Executing" <=> worker.pc \in Executing BY DEF HostOK, Mailbox
<1>6. worker.pc \in Executing \ {"begin"} => worker.active # None /\ worker.active.file = slot.file
  BY DEF HostOK, Holding
<1>7. ASSUME worker.pc \in Executing, worker.pc # "placed" PROVE Fresh(slot.file)
  <2> USE <1>7
  <2>1. CASE worker.pc = "begin"
    <3> USE <2>1
    <3>1. slot.op = "begin" /\ slot.st = "Executing"
      BY <1>5 DEF HostOK, Mailbox
    <3>2. worker.floor < slot.file BY <3>1 DEF Commanded
    <3> QED BY <1>4, <3>1, <3>2 DEF Ordered
  <2>2. CASE worker.pc # "begin"
    BY <1>6, <2>2 DEF Ordered
  <2> QED BY <2>1, <2>2
<1>8. worker.active # None => worker.active \in Pendings /\ worker.active.file \in Files
  BY DEF WorkerType, Pendings
<1>9. worker.floor \in Nat BY DEF WorkerType
<1>10. worker.pc \in PastClock => slot.op = "complete" BY DEF HostOK, Mailbox
<1> QED BY <1>3, <1>4, <1>5, <1>6, <1>7, <1>8, <1>9, <1>10

\* A name that was free is taken.
LEMMA EntryFacts ==
    ASSUME disk \in DirectoryType, NEW n \in Names, NEW x \in Files \cup {Local},
           disk.entry[n] = None, disk'.entry = [disk.entry EXCEPT ![n] = x]
    PROVE  /\ \A f \in Files \cup {Local} : f # x => Placed(disk, f)' = Placed(disk, f)
           /\ Placed(disk, x)' = Placed(disk, x) \cup {n}
           /\ \A m \in Names : disk.entry[m] # None => disk'.entry[m] = disk.entry[m]
<1>1. disk.entry \in [Names -> Files \cup {Local, None}] BY DEF DirectoryType
<1>2. \A f \in Files \cup {Local} : f # None BY FilesAreNumbers, NoneAssumption, SMTT(30) DEF Local
<1>3. disk'.entry[n] = x /\ \A m \in Names : m # n => disk'.entry[m] = disk.entry[m] BY <1>1
<1> QED BY <1>2, <1>3 DEF Placed

LEMMA PromiseInit ==
    ASSUME Init
    PROVE  PromiseInv
<1>1. PICK n \in 1..Cardinality(Files) : tx = S!NewSender([i \in 1..n |-> i]) BY DEF Init
<1>2. /\ rx = [state |-> "Active", reply |-> None, sent |-> FALSE, refusal |-> None,
               active |-> None, pending |-> None, last |-> 0]
      /\ slot = Idle /\ toHost = << >> /\ toSender = << >> /\ disk = EmptyDirectory
      /\ worker = [pc |-> "loop", active |-> None, closed |-> FALSE, floor |-> 0, timely |-> TRUE]
  BY DEF Init
<1> USE <1>2
<1>3. Fit(tx) /\ disk \in DirectoryType BY LaneInit DEF LaneInv, HostInv
<1>4. /\ tx.transfer = None /\ tx.receipts = [f \in Files |-> None] /\ tx.queue \in Seq(Files)
  BY <1>1, <1>3 DEF S!NewSender, Fit, Loose, S!SenderType
<1> USE <1>4
<1>5. /\ disk.entry = [n2 \in Names |-> None] /\ disk.synced = {} /\ disk.lost = {}
  BY DEF EmptyDirectory
<1> USE <1>5
<1>6. \A f \in Files \cup {Local} : Placed(disk, f) = {}
  <2>1. \A f \in Files \cup {Local} : f # None BY FilesAreNumbers, NoneAssumption, SMTT(30) DEF Local
  <2> QED BY <2>1 DEF Placed
<1> USE <1>6
<1>7. \A f \in Files : Fresh(f) BY DEF Fresh
<1>8. worker.active = None /\ worker.floor = 0 OBVIOUS
<1> USE <1>8
<1>9. Ordered
  <2>1. Locals(disk) = {} BY DEF Locals, Placed
  <2> QED BY <1>7, <2>1 DEF Ordered
<1>10. /\ Owned.toHost = << >> /\ Owned.toSender = << >> /\ Owned.slot.st = "Idle"
       /\ Owned.rx.reply = None /\ Owned.rx.refusal = None
  BY DEF Owned, Idle
<1> USE <1>10
<1>11. SaidBy(Owned) = {} /\ Quiet(Owned) /\ Len(Owned.toHost) = 0
  <2>1. Len(Owned.toHost) = 0 /\ Len(Owned.toSender) = 0 OBVIOUS
  <2> QED BY <2>1, SMTT(30) DEF SaidBy, Quiet
<1> USE <1>11
<1>12. SlotTrue(Owned) BY DEF SlotTrue
<1>13. \A i \in 1..Len(tx.queue) : worker.floor < tx.queue[i]
  <2>1. \A i \in 1..Len(tx.queue) : tx.queue[i] \in Files BY SMTT(30)
  <2> QED BY <2>1, FilesAreNumbers
<1>14. Linked(tx, Owned)
  <2>1. Relied(tx, Owned) BY <1>13 DEF Relied
  <2>2. Commanded(tx, Owned) BY DEF Commanded
  <2> QED BY <2>1, <2>2, SMTT(30) DEF Linked
<1>15. Told(tx, Owned) BY TruthNone, SMTT(30) DEF Told
<1> QED BY <1>9, <1>12, <1>14, <1>15 DEF PromiseInv

LEMMA PromiseStep ==
    ASSUME LaneInv, LaneInv', PromiseInv, [Next]_vars
    PROVE  PromiseInv'

<1>ShorterTail.
    ASSUME NEW M, NEW q \in Seq(M)
    PROVE  Shorter(q, q) /\ (q # << >> => Shorter(q, Tail(q)))
  <2>1. Shorter(q, q) BY DEF Shorter
  <2>2. ASSUME q # << >> PROVE Shorter(q, Tail(q))
    <3> USE <2>2
    <3>1. Len(Tail(q)) = Len(q) - 1 /\ Len(q) \in Nat /\ Len(q) > 0 BY SMTT(30)
    <3>2. ASSUME NEW i \in 1..Len(Tail(q))
          PROVE  \E j \in 1..Len(q) :
                   Tail(q)[i] = q[j] /\ (i = Len(Tail(q)) <=> j = Len(q)) /\ (j = 1 => i = 1)
      <4>1. i + 1 \in 1..Len(q) /\ Tail(q)[i] = q[i + 1] BY <3>1, SMTT(30)
      <4>2. (i = Len(Tail(q)) <=> i + 1 = Len(q)) /\ i + 1 # 1 BY <3>1, SMTT(30)
      <4> QED BY <4>1, <4>2
    <3> QED BY <3>2 DEF Shorter
  <2> QED BY <2>1, <2>2

<1>UndoneShorter.
    ASSUME NEW h, NEW u, NEW f, Undone(h, f), Shorter(h.toHost, u.toHost),
           \/ u.slot.st = "Idle"
           \/ u.slot.op = h.slot.op /\ u.slot.file = h.slot.file /\ h.slot.st # "Idle"
           \/ ~ (u.slot.op = "complete" /\ u.slot.file = f)
    PROVE  Undone(u, f)
  <2> USE <1>UndoneShorter
  <2>1. \A i \in 1..Len(u.toHost) : u.toHost[i].file = f => u.toHost[i].kind # "End"
    BY DEF Undone, Shorter
  <2>2. ~ (u.slot.st # "Idle" /\ u.slot.op = "complete" /\ u.slot.file = f) BY DEF Undone
  <2> QED BY <2>1, <2>2 DEF Undone

<1>TravellingShorter.
    ASSUME NEW s, NEW h, NEW u, Shorter(h.toHost, u.toHost),
           \A j \in 1..Len(h.toHost) : Travelling(s, h, j),
           \/ h.slot.st = "Idle" => u.slot.st = "Idle"
           \/ \A i \in 1..Len(u.toHost) : u.toHost[i].kind # "Prepared"
    PROVE  \A i \in 1..Len(u.toHost) : Travelling(s, u, i)
  <2> USE <1>TravellingShorter
  <2> SUFFICES ASSUME NEW i \in 1..Len(u.toHost) PROVE Travelling(s, u, i) OBVIOUS
  <2>1. PICK j \in 1..Len(h.toHost) :
          /\ u.toHost[i] = h.toHost[j] /\ (i = Len(u.toHost) <=> j = Len(h.toHost))
          /\ j = 1 => i = 1
    BY DEF Shorter
  <2>2. Travelling(s, h, j) OBVIOUS
  <2> QED BY <2>1, <2>2 DEF Travelling

\* Truth moves on when the permission does not come back and no completion comes up.
<1>TruthKept.
    ASSUME NEW h, NEW u, NEW f, NEW o, Truth(h, f, o), ~ h.permit => ~ u.permit,
           Undone(h, f) => Undone(u, f)
    PROVE  Truth(u, f, o)
  BY <1>TruthKept DEF Truth, Barred

<1>QuietlyLinked.
    ASSUME NEW s, NEW h, NEW u, h \in OwnedType, Quietly(h, u), SlotTrue(h),
           Linked(s, h), Told(s, h)
    PROVE  SlotTrue(u) /\ Linked(s, u) /\ Told(s, u)
  <2> USE <1>QuietlyLinked
  <2>1. Shorter(h.toHost, u.toHost)
    <3>1. h.toHost \in Seq(Records) BY DEF OwnedType
    <3> QED BY <3>1, <1>ShorterTail DEF Quietly
  <2> USE <2>1
  <2>2. /\ u.slot = h.slot /\ (~ h.permit => ~ u.permit)
        /\ u.rx.refusal = None \/ u.rx.refusal = h.rx.refusal
        /\ \A m \in SaidBy(u) : \/ m \in SaidBy(h)
                                \/ h.rx.refusal # None /\ m = Answer("Refused", h.rx.refusal)
    BY DEF Quietly
  <2> USE <2>2
  <2>3. SlotTrue(u) BY DEF SlotTrue
  <2>4. \A f : Undone(h, f) => Undone(u, f)
    <3>1. \/ u.slot.st = "Idle"
          \/ u.slot.op = h.slot.op /\ u.slot.file = h.slot.file /\ h.slot.st # "Idle"
      OBVIOUS
    <3> QED BY <3>1, <1>UndoneShorter
  <2>5. \A f, o : Truth(h, f, o) => Truth(u, f, o) BY <2>4, <1>TruthKept
  <2> USE <2>5
  <2>6. \A i \in 1..Len(u.toHost) : Travelling(s, u, i)
    BY <1>TravellingShorter DEF Linked
  <2>7. h.toHost = << >> => u.toHost = << >> BY DEF Shorter
  <2>8. Commanded(s, u) BY <2>7 DEF Linked, Commanded
  <2>9. Quiet(h) => Quiet(u) BY <2>7 DEF Quiet
  <2>10. ASSUME h.rx.refusal # None
         PROVE  Answer("Refused", h.rx.refusal).kind = "Refused"
                /\ Answer("Refused", h.rx.refusal).file = h.rx.refusal
    BY DEF Answer
  <2>11. Relied(s, u)
    <3>1. \A i \in 1..Len(s.queue) : /\ worker.floor < s.queue[i]
                                     /\ \A m \in SaidBy(u) : m.file < s.queue[i]
                                     /\ u.rx.refusal # None => u.rx.refusal < s.queue[i]
      BY <2>10 DEF Linked, Relied
    <3>2. s.transfer # None =>
            \A m \in SaidBy(u) : m.kind = "Durable" /\ m.file = s.transfer.file =>
               Quiet(u) /\ s.transfer.admitted
      BY <2>9, <2>10 DEF Linked, Relied
    <3> QED BY <2>4, <2>9, <3>1, <3>2 DEF Linked, Relied
  <2>12. \A m \in SaidBy(u) : Truth(u, m.file, m.kind)
    BY <2>10 DEF Told
  <2>13. Told(s, u)
    <3>1. \A f \in Files : Truth(u, f, s.receipts[f]) BY DEF Told
    <3>2. s.transfer # None => Truth(u, s.transfer.file, s.transfer.result) BY DEF Told
    <3>3. u.rx.refusal # None => Truth(u, u.rx.refusal, "Refused") BY DEF Told
    <3> QED BY <2>12, <3>1, <3>2, <3>3 DEF Told
  <2> QED BY <2>3, <2>6, <2>8, <2>11, <2>13 DEF Linked

\* What a step of the owner has to show for the two ends to stay linked.
<1>OwnerGoesOn.
    ASSUME NEW s, NEW h, NEW u, Linked(s, h), Told(s, h),
           \A i \in 1..Len(u.toHost) : Travelling(s, u, i), Commanded(s, u),
           \A f : Undone(h, f) => Undone(u, f), ~ h.permit => ~ u.permit,
           Quiet(h) => Quiet(u),
           \A m \in SaidBy(u) \ SaidBy(h) :
             /\ Truth(u, m.file, m.kind)
             /\ \A i \in 1..Len(s.queue) : m.file < s.queue[i]
             /\ s.transfer # None /\ m.kind = "Durable" => Quiet(u) /\ s.transfer.admitted,
           \/ u.rx.refusal = None \/ u.rx.refusal = h.rx.refusal
           \/ /\ Truth(u, u.rx.refusal, "Refused")
              /\ \A i \in 1..Len(s.queue) : u.rx.refusal < s.queue[i]
    PROVE  Linked(s, u) /\ Told(s, u)
  <2> USE <1>OwnerGoesOn
  <2>1. \A f, o : Truth(h, f, o) => Truth(u, f, o) BY <1>TruthKept
  <2> USE <2>1
  <2>2. \A m \in SaidBy(u) : Truth(u, m.file, m.kind) BY DEF Told
  <2>3. Told(s, u)
    <3>1. \A f \in Files : Truth(u, f, s.receipts[f]) BY DEF Told
    <3>2. s.transfer # None => Truth(u, s.transfer.file, s.transfer.result) BY DEF Told
    <3>3. u.rx.refusal # None => Truth(u, u.rx.refusal, "Refused") BY DEF Told
    <3> QED BY <2>2, <3>1, <3>2, <3>3 DEF Told
  <2>4. Relied(s, u)
    <3>1. \A i \in 1..Len(s.queue) : /\ worker.floor < s.queue[i]
                                     /\ \A m \in SaidBy(u) : m.file < s.queue[i]
                                     /\ u.rx.refusal # None => u.rx.refusal < s.queue[i]
      BY DEF Linked, Relied
    <3>2. s.transfer # None =>
            \A m \in SaidBy(u) : m.kind = "Durable" /\ m.file = s.transfer.file =>
               Quiet(u) /\ s.transfer.admitted
      BY DEF Linked, Relied
    <3> QED BY <3>1, <3>2 DEF Linked, Relied
  <2> QED BY <2>3, <2>4 DEF Linked

\* The files behind the transfer are later ones.
<1>QueueBehind.
    ASSUME NEW s, Loose(s), s.transfer # None, NEW i \in 1..Len(s.queue)
    PROVE  s.transfer.file \in Files /\ s.queue[i] \in Files /\ s.transfer.file < s.queue[i]
  <2> USE <1>QueueBehind
  <2>1. s.queue \in Seq(Files) /\ s.transfer.file \in Files
    BY DEF Loose, S!SenderType, S!Transfers
  <2> USE <2>1
  <2>2. s.queue # << >> /\ s.queue[i] \in Files /\ Len(s.queue) \in Nat BY SMTT(30)
  <2> USE <2>2
  <2>3. s.queue[i] = s.queue[1] + i - 1 /\ s.queue[1] = s.transfer.file + 1
    BY DEF Loose, Selected
  <2>4. i \in Nat /\ i > 0 BY SMTT(30)
  <2>5. s.transfer.file \in Nat BY FilesAreNumbers
  <2> QED BY <2>3, <2>4, <2>5, SMTT(30)

\* A file that is under way is no later than the transfer.
<1>UnderWay.
    ASSUME NEW s, NEW h, Loose(s), Relied(s, h), ~ Quiet(h), NEW f,
           s.transfer # None => f = s.transfer.file
    PROVE  \A i \in 1..Len(s.queue) : f < s.queue[i]
  <2> USE <1>UnderWay
  <2>1. s.queue \in Seq(Files) BY DEF Loose, S!SenderType
  <2>2. CASE s.transfer = None
    <3>1. s.queue = << >> BY <2>2 DEF Relied
    <3> QED BY <3>1, SMTT(30)
  <2>3. CASE s.transfer # None BY <2>3, <1>QueueBehind
  <2> QED BY <2>2, <2>3

<1>FinishesLinked.
    ASSUME NEW s, NEW h, NEW u, Loose(s), HostOK(h), Finishes(h, u), SlotTrue(h),
           Linked(s, h), Told(s, h)
    PROVE  SlotTrue(u) /\ Linked(s, u) /\ Told(s, u)
  <2> USE <1>FinishesLinked
  <2>1. /\ h.slot.st = "Complete" /\ u.slot.st = "Idle" /\ u.toHost = h.toHost
        /\ u.toSender = h.toSender /\ u.rx.refusal = h.rx.refusal /\ h.rx.reply = None
        /\ (~ h.permit => ~ u.permit) /\ h.slot.file \in Files
        /\ (h.slot.result \in {"Error", "Unknown"} => ~ u.permit)
    BY SMTT(30) DEF Finishes, Idle
  <2> USE <2>1
  <2>2. h.toHost \in Seq(Records) BY DEF HostOK, OwnedType
  <2>3. Shorter(h.toHost, u.toHost) BY <2>2, <1>ShorterTail
  <2>4. SlotTrue(u) BY DEF SlotTrue
  <2>5. \A f : Undone(h, f) => Undone(u, f) BY <2>3, <1>UndoneShorter
  <2>6. \A i \in 1..Len(u.toHost) : Travelling(s, u, i) BY <2>3, <1>TravellingShorter DEF
       Linked
  <2>7. Commanded(s, u) BY DEF Commanded
  <2>8. Quiet(h) => Quiet(u) BY DEF Quiet
  <2>9. worker.pc \notin PastPermit
    BY DEF HostOK, Mailbox, Executing, PastPermit
  <2>10. ASSUME NEW m \in SaidBy(u) \ SaidBy(h)
         PROVE  /\ Truth(u, m.file, m.kind)
                /\ \A i \in 1..Len(s.queue) : m.file < s.queue[i]
                /\ s.transfer # None /\ m.kind = "Durable" => Quiet(u) /\ s.transfer.admitted
    <3>1. m = u.rx.reply /\ m # None BY DEF SaidBy
    <3> USE <3>1
    <3>2. /\ m.file = h.slot.file
          /\ \/ h.slot.result = "Begun" /\ m.kind = "Accept"
             \/ h.slot.result = "Begun" /\ m.kind = "Refused" /\ ~ h.permit
             \/ h.slot.result = "Error" /\ m.kind = "Refused"
             \/ h.slot.result \notin {"Written", "Begun", "Error"} /\ m.kind = h.slot.result
      <4>1. h.slot.result # "Written" BY DEF Finishes
      <4>2. CASE h.slot.result = "Begun" BY <4>2, SMTT(30) DEF Finishes, Answer
      <4>3. CASE h.slot.result = "Error" BY <4>3, SMTT(30) DEF Finishes, Answer
      <4>4. CASE h.slot.result \notin {"Written", "Begun", "Error"}
        BY <4>4, SMTT(30) DEF Finishes, Answer
      <4> QED BY <4>1, <4>2, <4>3, <4>4
    <3> USE <3>2
    <3>3. m.kind = "Refused" => Fresh(m.file) /\ Barred(u)
      <4>1. h.slot.result # "Refused" /\ h.slot.result # "Interrupted"
        <5>1. h.slot \in SlotType /\ h.slot.result # None BY DEF HostOK, OwnedType, Finishes
        <5> QED BY <5>1 DEF SlotType, Results
      <4>2. m.kind = "Refused" => Fresh(m.file) BY <4>1 DEF SlotTrue
      <4>3. m.kind = "Refused" => ~ u.permit BY <4>1
      <4> QED BY <2>9, <4>2, <4>3 DEF Barred
    <3>4. m.kind # "Interrupted"
      <4>1. h.slot \in SlotType /\ h.slot.result # None BY DEF HostOK, OwnedType, Finishes
      <4> QED BY <4>1 DEF SlotType, Results
    <3>5. Truth(u, m.file, m.kind) BY <3>3, <3>4 DEF Truth, SlotTrue
    <3>6. ~ Quiet(h) /\ (s.transfer # None => h.slot.file = s.transfer.file)
      BY DEF Quiet, Linked, Commanded
    <3>7. \A i \in 1..Len(s.queue) : m.file < s.queue[i]
      BY <3>6, <1>UnderWay DEF Linked
    <3>8. m.kind = "Durable" => h.slot.op = "complete"
      BY DEF HostOK, Mailbox, S!Published
    <3>9. s.transfer # None /\ m.kind = "Durable" => Quiet(u) /\ s.transfer.admitted
      BY <3>8 DEF Linked, Commanded, Quiet
    <3> QED BY <3>5, <3>7, <3>9
  <2> QED BY <2>4, <2>5, <2>6, <2>7, <2>8, <2>10, <1>OwnerGoesOn

<1>TakesLinked.
    ASSUME NEW s, NEW h, NEW u, HostOK(h), Takes(h, u), Linked(s, h), Told(s, h)
    PROVE  SlotTrue(u) /\ Linked(s, u) /\ Told(s, u)
  <2> USE <1>TakesLinked
  <2> DEFINE m == h.toHost[1]
  <2>1. h.toHost \in Seq(Records) /\ h.toHost # << >> BY DEF HostOK, OwnedType, Takes
  <2> USE <2>1
  <2>2. /\ m = Head(h.toHost) /\ 1 \in 1..Len(h.toHost) /\ Len(h.toHost) \in Nat
        /\ Len(Tail(h.toHost)) = Len(h.toHost) - 1
    BY SMTT(30)
  <2> USE <2>2
  <2>3. /\ u.toHost = Tail(h.toHost) /\ u.toSender = h.toSender /\ u.permit = h.permit
        /\ u.rx.reply = h.rx.reply /\ u.rx.refusal = h.rx.refusal
        /\ u.slot.st = "Queued" /\ u.slot.file = m.file
        /\ (u.slot.op = "begin" => m.kind = "Prepared")
        /\ (u.slot.op = "complete" => m.kind = "End")
    BY DEF Takes
  <2> USE <2>3
  <2>4. h.slot.st = "Idle" BY DEF HostOK, Mailbox, Takes
  <2>5. Travelling(s, h, 1) BY DEF Linked
  <2>6. Shorter(h.toHost, u.toHost) BY <1>ShorterTail
  <2> HIDE DEF m
  <2>7. SlotTrue(u) BY DEF SlotTrue
  <2>8. ASSUME NEW f, Undone(h, f) PROVE Undone(u, f)
    <3> USE <2>8
    <3>1. ~ (m.kind = "End" /\ m.file = f) BY DEF Undone, m
    <3>2. ~ (u.slot.op = "complete" /\ u.slot.file = f) BY <3>1
    <3> QED BY <2>6, <3>2, <1>UndoneShorter
  <2>9. \A i \in 1..Len(u.toHost) : Travelling(s, u, i)
    <3>1. ASSUME NEW i \in 1..Len(u.toHost) PROVE u.toHost[i].kind # "Prepared"
      <4>1. i + 1 \in 1..Len(h.toHost) /\ u.toHost[i] = h.toHost[i + 1] /\ i + 1 # 1
        BY SMTT(30)
      <4>2. Travelling(s, h, i + 1) BY <4>1 DEF Linked
      <4> QED BY <4>1, <4>2 DEF Travelling
    <3> QED BY <2>6, <3>1, <1>TravellingShorter DEF Linked
  <2>10. Commanded(s, u)
    <3>1. /\ TurnOf(s, m.file) /\ Fresh(m.file)
          /\ m.kind = "Prepared" => worker.floor < m.file
          /\ m.kind = "End" => Len(h.toHost) = 1
          /\ s.transfer # None => m.file = s.transfer.file
      BY <2>5 DEF Travelling, m
    <3> USE <3>1
    <3>2. m.kind = "End" => u.toHost = << >>
      <4>1. ASSUME m.kind = "End" PROVE u.toHost = << >>
        <5>1. Len(u.toHost) = 0 /\ u.toHost \in Seq(Records) BY <4>1, SMTT(30)
        <5> QED BY <5>1, NothingLeft
      <4> QED BY <4>1
    <3>3. m.kind = "End" /\ s.transfer # None => s.transfer.admitted
      BY DEF Linked, Relied, Undone, m
    <3> QED BY <3>2, <3>3 DEF Commanded
  <2>11. ~ Quiet(h) BY DEF Quiet
  <2>12. SaidBy(u) = SaidBy(h) BY DEF SaidBy
  <2> QED BY <2>7, <2>8, <2>9, <2>10, <2>11, <2>12, <1>OwnerGoesOn

<1>RefusingLinked.
    ASSUME NEW s, NEW h, NEW u, Loose(s), HostOK(h), Refusing(h, u), Linked(s, h), Told(s, h)
    PROVE  SlotTrue(u) /\ Linked(s, u) /\ Told(s, u)
  <2> USE <1>RefusingLinked
  <2> DEFINE m == h.toHost[1]
  <2>1. h.toHost \in Seq(Records) /\ h.toHost # << >> BY DEF HostOK, OwnedType, Refusing
  <2> USE <2>1
  <2>2. m = Head(h.toHost) /\ 1 \in 1..Len(h.toHost) BY SMTT(30)
  <2>3. /\ u.toHost = Tail(h.toHost) /\ u.toSender = h.toSender /\ ~ u.permit
        /\ u.rx.reply = h.rx.reply /\ u.rx.refusal = m.file /\ u.slot = h.slot
    BY <2>2 DEF Refusing
  <2> USE <2>3
  <2>4. h.slot.st = "Idle" BY DEF HostOK, Mailbox, Refusing
  <2> USE <2>4
  <2>5. Travelling(s, h, 1) BY <2>2 DEF Linked
  <2>6. Shorter(h.toHost, u.toHost) BY <1>ShorterTail
  <2>7. Fresh(m.file) /\ (s.transfer # None => m.file = s.transfer.file)
    BY <2>5 DEF Travelling
  <2> HIDE DEF m
  <2>8. SlotTrue(u) BY DEF SlotTrue
  <2>9. \A f : Undone(h, f) => Undone(u, f) BY <2>6, <1>UndoneShorter
  <2>10. \A i \in 1..Len(u.toHost) : Travelling(s, u, i)
    BY <2>6, <1>TravellingShorter DEF Linked
  <2>11. Commanded(s, u) BY DEF Commanded
  <2>12. ~ Quiet(h) BY DEF Quiet
  <2>13. SaidBy(u) = SaidBy(h) BY DEF SaidBy
  <2>14. worker.pc \notin PastPermit BY DEF HostOK, Mailbox, Executing, PastPermit
  <2>15. Truth(u, m.file, "Refused") BY <2>7, <2>14 DEF Truth, Barred
  <2>16. \A i \in 1..Len(s.queue) : m.file < s.queue[i] BY <2>7, <2>12, <1>UnderWay DEF Linked
  <2> QED BY <2>8, <2>9, <2>10, <2>11, <2>12, <2>13, <2>15, <2>16, <1>OwnerGoesOn

\* A turn of the owner keeps the two ends linked.
<1>OwnerChainLinked.
    ASSUME NEW s, Loose(s), HostOK(Owned), SlotTrue(Owned), Linked(s, Owned), Told(s, Owned),
           NEW c, NEW p, NEW f, NEW u, OwnerChain(c, p, f, u)
    PROVE  SlotTrue(u) /\ Linked(s, u) /\ Told(s, u)
  <2> USE <1>OwnerChainLinked
  <2>0. HostOK(c) /\ HostOK(p) /\ HostOK(f) BY OwnerChainOK
  <2> USE <2>0
  <2>1. SlotTrue(c) /\ Linked(s, c) /\ Told(s, c)
    BY <1>QuietlyLinked DEF OwnerChain, HostOK
  <2>2. SlotTrue(p) /\ Linked(s, p) /\ Told(s, p)
    BY <2>1, <1>QuietlyLinked, <1>FinishesLinked DEF OwnerChain, HostOK
  <2>3. SlotTrue(f) /\ Linked(s, f) /\ Told(s, f)
    BY <2>2, <1>QuietlyLinked DEF OwnerChain, HostOK
  <2> QED BY <2>3, <1>QuietlyLinked, <1>TakesLinked, <1>RefusingLinked DEF OwnerChain,
       HostOK

\* Steps that leave the worker and the directory alone.
<1>PromiseBeside.
    ASSUME Ordered, worker' = worker, disk' = disk,
           SlotTrue(Owned'), Linked(tx', Owned'), Told(tx', Owned')
    PROVE  PromiseInv'
  <2> USE <1>PromiseBeside
  <2>1. Ordered' BY DEF Ordered, Fresh
  <2>2. SlotTrue(Owned)' BY DEF SlotTrue, Fresh, Durably
  <2>3. \A f : Undone(Owned', f) => Undone(Owned, f)' BY DEF Undone, Fresh
  <2>4. (\A i \in 1..Len(Owned.toHost) : Travelling(tx, Owned, i))'
    BY DEF Linked, Travelling, TurnOf, Fresh
  <2>5. Commanded(tx, Owned)' BY DEF Linked, Commanded, TurnOf, Fresh
  <2>6. Quiet(Owned') => Quiet(Owned)' BY DEF Quiet
  <2>7. Relied(tx, Owned)' BY <2>3, <2>6 DEF Linked, Relied, TurnOf, SaidBy
  <2>8. \A f, o : Truth(Owned', f, o) => Truth(Owned, f, o)'
    BY <2>3 DEF Truth, Fresh, Durably, Barred
  <2>9. Told(tx, Owned)' BY <2>8 DEF Told, SaidBy
  <2> QED BY <2>1, <2>2, <2>4, <2>5, <2>7, <2>9 DEF PromiseInv, Linked

<1>StartedLinked.
    ASSUME NEW s, NEW h, Fit(s), S!Starts(s), Ordered, worker \in WorkerType,
           Linked(s, h), Told(s, h)
    PROVE  Linked(S!Started(s), h) /\ Told(S!Started(s), h)
  <2> USE <1>StartedLinked
  <2> DEFINE v == S!Started(s)
             f == s.queue[1]
  <2>1. /\ v.receipts = s.receipts /\ v.transfer = S!NewTransfer(f) /\ v.transfer # None
        /\ f \in Files /\ v.queue = Tail(s.queue)
    BY StartedFacts
  <2> USE <2>1
  <2>2. v.transfer.file = f /\ ~ v.transfer.admitted /\ v.transfer.result = None
    BY SMTT(30) DEF S!NewTransfer
  <2>3. s.queue \in Seq(Files) /\ s.queue # << >> /\ s.transfer = None
    BY DEF Fit, Loose, S!SenderType, S!Starts
  <2> USE <2>3
  <2> HIDE DEF v
  <2>4. Quiet(h) BY DEF Linked, Relied
  <2> USE <2>4
  <2>5. 1 \in 1..Len(s.queue) BY SMTT(30)
  <2>6. /\ worker.floor < f /\ (h.rx.refusal # None => h.rx.refusal < f)
        /\ \A m \in SaidBy(h) : m.file < f
    BY <2>5 DEF Linked, Relied
  <2> USE <2>6
  <2>7. \A i \in 1..Len(v.queue) : i + 1 \in 1..Len(s.queue) /\ v.queue[i] = s.queue[i + 1]
    BY SMTT(30)
  <2>8. f \in Nat /\ ~ (f < f)
    <3>1. f \in Nat BY FilesAreNumbers
    <3> QED BY <3>1, SMTT(30)
  <2>9. Undone(h, f)
    <3>1. Fresh(f) BY DEF Ordered
    <3>2. h.toHost = << >> /\ h.slot.st = "Idle" BY DEF Quiet
    <3>3. Len(h.toHost) = 0 BY <3>2, SMTT(30)
    <3> QED BY <3>1, <3>2, <3>3, SMTT(30) DEF Undone
  <2>10. Relied(v, h)
    <3>1. worker.active # None => TurnOf(v, worker.active.file)
      BY DEF Linked, Relied, TurnOf
    <3>2. \A i \in 1..Len(v.queue) : /\ worker.floor < v.queue[i]
                                     /\ \A m \in SaidBy(h) : m.file < v.queue[i]
                                     /\ h.rx.refusal # None => h.rx.refusal < v.queue[i]
      BY <2>7 DEF Linked, Relied
    <3>3. \A m \in SaidBy(h) : m.file # f BY <2>8
    <3> QED BY <2>2, <2>9, <3>1, <3>2, <3>3, TruthNone DEF Relied
  <2>11. (\A i \in 1..Len(h.toHost) : Travelling(v, h, i)) /\ Commanded(v, h)
    <3>1. h.toHost = << >> /\ h.slot.st = "Idle" BY DEF Quiet
    <3>2. Len(h.toHost) = 0 BY <3>1, SMTT(30)
    <3> QED BY <3>1, <3>2, SMTT(30) DEF Commanded
  <2>12. Told(v, h) BY <2>2, TruthNone DEF Told
  <2> QED BY <2>10, <2>11, <2>12 DEF Linked, v

\* The same transfer, perhaps with a result.
<1>SenderGoesOn.
    ASSUME NEW s, NEW v, NEW h, Linked(s, h), Told(s, h),
           v.receipts = s.receipts, v.queue = s.queue,
           s.transfer # None, v.transfer # None, v.transfer.file = s.transfer.file,
           v.transfer.admitted = s.transfer.admitted,
           v.transfer.stage = "Preparing" => s.transfer.stage = "Preparing",
           Truth(h, v.transfer.file, v.transfer.result),
           v.transfer.result = "Durable" => Quiet(h)
    PROVE  Linked(v, h) /\ Told(v, h)
  <2> USE <1>SenderGoesOn
  <2>1. \A f : TurnOf(s, f) => TurnOf(v, f) BY DEF TurnOf
  <2> USE <2>1
  <2>2. \A i \in 1..Len(h.toHost) : Travelling(v, h, i) BY DEF Linked, Travelling
  <2>3. Commanded(v, h) BY DEF Linked, Commanded
  <2>4. Relied(v, h) BY DEF Linked, Relied
  <2>5. Told(v, h) BY DEF Told
  <2> QED BY <2>2, <2>3, <2>4, <2>5 DEF Linked

\* A reply leaves the stream, and is heard.
<1>TakenLinked.
    ASSUME NEW s, NEW h \in OwnedType, NEW g \in OwnedType, SlotTrue(h), Linked(s, h), Told(s, h),
           h.toSender # << >>, g.toSender = Tail(h.toSender),
           g.rx = h.rx, g.slot = h.slot, g.permit = h.permit, g.toHost = h.toHost
    PROVE  /\ Linked(s, g) /\ Told(s, g)
           /\ Head(h.toSender) \in Replies
           /\ Truth(g, Head(h.toSender).file, Head(h.toSender).kind)
           /\ s.transfer # None /\ Head(h.toSender).kind = "Durable"
              /\ Head(h.toSender).file = s.transfer.file => Quiet(g)
  <2> USE <1>TakenLinked
  <2> DEFINE r == Head(h.toSender)
  <2>1. h.toSender \in Seq(Replies) BY DEF OwnedType
  <2>2. r \in Replies /\ 1 \in 1..Len(h.toSender) /\ r = h.toSender[1] BY <2>1, SMTT(30)
  <2>3. \A i \in 1..Len(g.toSender) : \E j \in 1..Len(h.toSender) : g.toSender[i] = h.toSender[j]
    <3>1. \A i \in 1..Len(g.toSender) : i + 1 \in 1..Len(h.toSender) /\ g.toSender[i] = h.toSender[i + 1]
      BY <2>1, SMTT(30)
    <3> QED BY <3>1
  <2>4. SaidBy(g) \subseteq SaidBy(h) BY <2>3, SMTT(30) DEF SaidBy
  <2>5. Quietly(h, g) BY <2>4 DEF Quietly
  <2>6. Linked(s, g) /\ Told(s, g) BY <2>5, <1>QuietlyLinked
  <2>7. r \in SaidBy(h) BY <2>2 DEF SaidBy
  <2>8. Truth(h, r.file, r.kind) BY <2>7 DEF Told
  <2>9. \A f : Undone(h, f) => Undone(g, f) BY DEF Undone
  <2>10. Truth(g, r.file, r.kind) BY <2>8, <2>9, <1>TruthKept
  <2>11. Quiet(h) => Quiet(g) BY DEF Quiet
  <2>12. s.transfer # None /\ r.kind = "Durable" /\ r.file = s.transfer.file => Quiet(g)
    BY <2>7, <2>11 DEF Linked, Relied
  <2> QED BY <2>2, <2>6, <2>10, <2>12

<1>HeardLinked.
    ASSUME NEW s, NEW h, NEW r \in Replies, Fit(s), ~ S!Unexpected(s.transfer, r),
           Linked(s, h), Told(s, h), Truth(h, r.file, r.kind),
           s.transfer # None /\ r.kind = "Durable" /\ r.file = s.transfer.file => Quiet(h)
    PROVE  Linked(S!Heard(s, r), h) /\ Told(S!Heard(s, r), h) /\ Loose(S!Heard(s, r))
  <2> USE <1>HeardLinked
  <2> DEFINE v == S!Heard(s, r)
  <2>1. /\ Loose(v) /\ Keeps(s, v) /\ s.transfer # None /\ s.transfer.file = r.file
        /\ v.transfer # None /\ v.transfer.file = r.file
        /\ v.transfer.admitted = s.transfer.admitted /\ v.transfer.stage # "Preparing"
        /\ v.transfer.result = IF r.kind = "Accept" THEN None ELSE r.kind
    BY HeardFacts
  <2> USE <2>1
  <2> HIDE DEF v
  <2>2. v.receipts = s.receipts /\ v.queue = s.queue BY DEF Keeps
  <2>3. Truth(h, v.transfer.file, v.transfer.result) BY TruthNone
  <2>4. v.transfer.result = "Durable" => Quiet(h) BY TruthNone
  <2>5. Linked(v, h) /\ Told(v, h) BY <2>2, <2>3, <2>4, <1>SenderGoesOn
  <2> QED BY <2>5 DEF v

\* At most one packet of the transfer is handed to the stream.
<1>PacketLinked.
    ASSUME NEW s, NEW v, NEW h \in OwnedType, NEW g, NEW p \in S!Packets,
           Working(s), Still(s, v), Linked(s, h), Told(s, h),
           g.toHost = Append(h.toHost, Answer(p, s.transfer.file)), g.toSender = h.toSender,
           g.rx = h.rx, g.slot = h.slot, g.permit = h.permit,
           p = "Prepared" => s.transfer.stage = "Preparing",
           ~ s.transfer.admitted, v.transfer.admitted <=> p = "End",
           v.transfer.stage # "Preparing"
    PROVE  Linked(v, g) /\ Told(v, g)
  <2> USE <1>PacketLinked
  <2> DEFINE f == s.transfer.file
             n == Len(h.toHost)
  <2>1. /\ Loose(s) /\ s.transfer # None /\ s.transfer.result = None /\ v.transfer # None
        /\ v.transfer.file = f /\ v.transfer.result = None
        /\ v.receipts = s.receipts /\ v.queue = s.queue
    BY DEF Working, Still, Fit, Keeps
  <2> USE <2>1
  <2>2. /\ h.toHost \in Seq(Records) /\ h.toSender \in Seq(Replies)
        /\ h.rx.reply \in Replies \cup {None}
    BY DEF OwnedType, OwnerType
  <2>3. /\ n \in Nat /\ Len(g.toHost) = n + 1 /\ g.toHost[n + 1] = Answer(p, f)
        /\ \A i \in 1..n : g.toHost[i] = h.toHost[i]
    BY <2>2, SMTT(30)
  <2> USE <2>3
  <2>4. Undone(h, f) BY DEF Linked, Relied
  <2> USE <2>4
  <2>5. Answer(p, f).kind = p /\ Answer(p, f).file = f BY DEF Answer
  <2> HIDE DEF n
  <2>6. ASSUME NEW i \in 1..Len(g.toHost), i # n + 1
        PROVE  i \in 1..n /\ g.toHost[i] = h.toHost[i]
    BY <2>6, SMTT(30)
  <2>7. \A e : Undone(h, e) /\ (e # f \/ p # "End") => Undone(g, e)
    <3> SUFFICES ASSUME NEW e, Undone(h, e), e # f \/ p # "End" PROVE Undone(g, e) OBVIOUS
    <3>1. ASSUME NEW i \in 1..Len(g.toHost), g.toHost[i].file = e
          PROVE  g.toHost[i].kind # "End"
      <4> USE <3>1
      <4>1. CASE i = n + 1 BY <2>5, <4>1
      <4>2. CASE i # n + 1 BY <2>6, <4>2 DEF Undone, n
      <4> QED BY <4>1, <4>2
    <3> QED BY <3>1 DEF Undone
  <2>8. \A e : TurnOf(s, e) => TurnOf(v, e) BY DEF TurnOf
  <2> USE <2>8
  <2>9. ASSUME NEW i \in 1..Len(g.toHost) PROVE Travelling(v, g, i)
    <3>1. CASE i = n + 1
      <4> USE <3>1
      <4>1. TurnOf(v, f) BY DEF TurnOf, Loose, Selected
      <4>2. Fresh(f) BY DEF Undone
      <4>3. p = "Prepared" => i = 1 /\ h.slot.st = "Idle" /\ worker.floor < f
        <5>1. ASSUME p = "Prepared" PROVE i = 1 /\ h.slot.st = "Idle" /\ worker.floor < f
          <6>1. Quiet(h) /\ worker.floor < f BY <5>1 DEF Linked, Relied
          <6>2. n = 0 BY <6>1, SMTT(30) DEF Quiet, n
          <6> QED BY <6>1, <6>2, SMTT(30) DEF Quiet
        <5> QED BY <5>1
      <4> QED BY <2>5, <4>1, <4>2, <4>3 DEF Travelling
    <3>2. CASE i # n + 1
      <4>1. i \in 1..n /\ g.toHost[i] = h.toHost[i] BY <2>6, <3>2
      <4> USE <4>1
      <4>2. Travelling(s, h, i) BY DEF Linked, n
      <4>3. h.toHost[i].kind # "End" BY <4>2 DEF Travelling, Undone, n
      <4> QED BY <4>2, <4>3 DEF Travelling
    <3> QED BY <3>1, <3>2
  <2>10. Commanded(v, g) BY DEF Linked, Commanded
  <2>11. SaidBy(g) = SaidBy(h) BY SaidAlike
  <2> USE <2>11
  <2>12. Relied(v, g)
    <3>1. p # "End" => Undone(g, f) BY <2>7
    <3>2. \A m \in SaidBy(g) : ~ (m.kind = "Durable" /\ m.file = f)
      BY DEF Linked, Relied
    <3> QED BY <3>1, <3>2, TruthNone DEF Linked, Relied
  <2>13. \A e, o : Truth(h, e, o) /\ (o # "Interrupted" \/ e # f) => Truth(g, e, o)
    BY <2>7 DEF Truth, Barred
  <2>14. s.receipts[f] # "Interrupted"
    <3>1. s.receipts[f] = None BY DEF Loose, Selected
    <3> QED BY <3>1, TruthNone
  <2>15. \A m \in SaidBy(g) : m.kind # "Interrupted"
    <3>1. \A m \in SaidBy(h) : m \in Replies BY <2>2, SMTT(30) DEF SaidBy
    <3> QED BY <3>1, SMTT(30) DEF Replies
  <2>16. Told(v, g) BY <2>13, <2>14, <2>15, TruthNone DEF Told
  <2> QED BY <2>9, <2>10, <2>12, <2>16 DEF Linked

<1>EndsLinked.
    ASSUME NEW s, NEW v, NEW h, Loose(s), Ends(s, v), Linked(s, h), Told(s, h)
    PROVE  Linked(v, h) /\ Told(v, h)
  <2> USE <1>EndsLinked
  <2>1. s \in S!SenderType /\ s.queue \in Seq(Files) /\ (v.queue = s.queue \/ v.queue = << >>) /\ Fit(v)
    BY DEF Loose, S!SenderType, Ends
  <2> USE <2>1
  <2>2. \A i \in 1..Len(v.queue) : i \in 1..Len(s.queue) /\ v.queue[i] = s.queue[i] BY SMTT(30)
  <2>3. CASE s.transfer = None
    <3> USE <2>3
    <3>1. v.transfer = None /\ v.receipts = s.receipts BY DEF Ends
    <3> USE <3>1
    <3>2. \A f : TurnOf(s, f) => TurnOf(v, f) BY DEF TurnOf
    <3> USE <3>2
    <3>3. \A i \in 1..Len(h.toHost) : Travelling(v, h, i)
      BY DEF Linked, Travelling
    <3>4. Commanded(v, h) BY DEF Linked, Commanded
    <3>5. Relied(v, h)
      <4>1. v.transfer = None /\ v.queue # << >> => Quiet(h)
        BY DEF Linked, Relied
      <4> QED BY <2>2, <4>1 DEF Linked, Relied
    <3>6. Told(v, h) BY DEF Told
    <3> QED BY <3>3, <3>4, <3>5, <3>6 DEF Linked
  <2>4. CASE s.transfer # None
    <3> USE <2>4
    <3> DEFINE t == s.transfer
               f == t.file
               o == Outcome(t)
    <3>1. /\ v.receipts = [s.receipts EXCEPT ![f] = o]
          /\ o # "Durable" => v.queue = << >>
          /\ \/ v.transfer = None
             \/ /\ v.transfer # None /\ v.transfer.file = f /\ v.transfer.admitted = t.admitted
                /\ v.transfer.result = o
      BY DEF Ends
    <3> USE <3>1
    <3>2. /\ t.result # None => o = t.result
          /\ t.result = None => o = IF t.admitted THEN "Unknown" ELSE "Interrupted"
          /\ o # None /\ (o = "Durable" => t.result = "Durable")
      BY OutcomeFacts
    <3> USE <3>2
    <3>3. f \in Files /\ s.receipts \in [Files -> S!Outcomes \cup {None}]
      BY DEF S!SenderType, S!Transfers
    <3> HIDE DEF o
    <3>4. v.receipts[f] = o /\ \A e \in Files : e # f => v.receipts[e] = s.receipts[e]
      BY <3>3
    <3>5. s.receipts[f] = "Durable" => o = "Durable"
      BY TruthNone DEF Loose, Selected
    <3>6. \A e : TurnOf(s, e) => TurnOf(v, e) BY <3>4, <3>5 DEF TurnOf
    <3> USE <3>6
    <3>7. \A i \in 1..Len(h.toHost) : Travelling(v, h, i)
      BY DEF Linked, Travelling
    <3>8. Commanded(v, h) BY DEF Linked, Commanded
    <3>9. o = "Durable" => Quiet(h) BY DEF Linked, Relied
    <3>10. v.transfer # None => v.transfer.stage # "Preparing"
      BY DEF Fit, Loose, Packing
    <3>11. Relied(v, h)
      <4>1. v.transfer = None /\ v.queue # << >> => Quiet(h) BY <3>9
      <4> QED BY <2>2, <3>9, <3>10, <4>1 DEF Linked, Relied
    <3>12. Truth(h, f, o)
      <4>1. CASE t.result # None BY <4>1 DEF Told
      <4>2. CASE t.result = None /\ t.admitted BY <4>2, TruthNone
      <4>3. CASE t.result = None /\ ~ t.admitted
        <5> USE <4>3
        <5>1. Undone(h, f) BY DEF Linked, Relied
        <5> QED BY <5>1 DEF Truth
      <4> QED BY <4>1, <4>2, <4>3
    <3>13. Told(v, h) BY <3>4, <3>12 DEF Told
    <3> QED BY <3>7, <3>8, <3>11, <3>13 DEF Linked
  <2> QED BY <2>3, <2>4

\* A turn of the sender keeps the two ends linked.
<1>ChainLinked.
    ASSUME LaneInv, PromiseInv, UNCHANGED host, NEW s, NEW h, NEW u, Chain(s, h, u)
    PROVE  PromiseInv'
  <2> USE <1>ChainLinked
  <2> DEFINE g == [rx |-> rx, slot |-> slot, permit |-> permit, toHost |-> toHost,
                   toSender |-> toSender']
  <2>1. /\ Ordered /\ SlotTrue(Owned) /\ Linked(tx, Owned) /\ Told(tx, Owned)
        /\ Fit(tx) /\ HostInv /\ worker \in WorkerType /\ Owned \in OwnedType
    BY DEF LaneInv, PromiseInv, HostInv, HostOK
  <2> USE <2>1
  <2>2. /\ rx' = rx /\ slot' = slot /\ permit' = permit /\ worker' = worker /\ disk' = disk
    BY DEF host
  <2> USE <2>2
  <2>3. toHost' \in Seq(Records) /\ toSender' \in Seq(Replies)
    BY OwnedParts, ChainStreams DEF HostInv
  <2>4. g \in OwnedType /\ Owned' \in OwnedType
    BY <2>3, OwnedParts DEF HostInv, Owned, OwnedType
  <2>5. /\ g.rx = Owned.rx /\ g.slot = Owned.slot /\ g.permit = Owned.permit
        /\ g.toHost = Owned.toHost /\ g.toSender = toSender' /\ Owned.toSender = toSender
        /\ Owned'.rx = g.rx /\ Owned'.slot = g.slot /\ Owned'.permit = g.permit
        /\ Owned'.toHost = toHost' /\ Owned'.toSender = g.toSender /\ g.toHost = toHost
    BY DEF Owned
  <2> USE <2>5
  <2>6. toHost' = toHost => Owned' = g BY DEF Owned
  <2>7. toSender' = toSender => g = Owned BY DEF Owned
  <2> HIDE DEF g
  <2>8. Fit(s) /\ Linked(s, Owned) /\ Told(s, Owned)
    <3>1. CASE s = tx BY <3>1
    <3>2. CASE S!Starts(tx) /\ s = S!Started(tx)
      <4> USE <3>2
      <4>1. Fit(s) BY StartedFacts
      <4> QED BY <4>1, <1>StartedLinked
    <3> QED BY <3>1, <3>2 DEF Chain
  <2> USE <2>8
  <2>9. Loose(h) /\ Linked(h, g) /\ Told(h, g)
    <3>1. CASE h = s /\ toSender' = toSender BY <2>7, <3>1 DEF Fit
    <3>2. CASE toSender # << >> /\ toSender' = Tail(toSender)
      <4> USE <3>2
      <4> DEFINE r == Head(toSender)
      <4>1. /\ Linked(s, g) /\ Told(s, g) /\ r \in Replies /\ Truth(g, r.file, r.kind)
            /\ s.transfer # None /\ r.kind = "Durable" /\ r.file = s.transfer.file => Quiet(g)
        BY <2>4, <1>TakenLinked
      <4>2. CASE h = s BY <4>1, <4>2 DEF Fit
      <4>3. CASE ~ S!Unexpected(s.transfer, r) /\ h = S!Heard(s, r)
        BY <4>1, <4>3, <1>HeardLinked
      <4> QED BY <3>1, <4>2, <4>3 DEF Chain
    <3> QED BY <3>1, <3>2 DEF Chain
  <2> USE <2>9
  <2>10. Loose(u) /\ Linked(u, Owned') /\ Told(u, Owned')
    <3>1. CASE u = h /\ toHost' = toHost BY <2>6, <3>1
    <3>2. CASE Sent(h, u, toHost, toHost')
      <4> USE <3>2
      <4>1. Working(h) /\ Still(h, u) BY DEF Sent
      <4> USE <4>1
      <4>2. Loose(u) BY DEF Still, Fit
      <4>3. /\ u.receipts = h.receipts /\ u.queue = h.queue /\ h.transfer # None
            /\ u.transfer # None /\ u.transfer.file = h.transfer.file
            /\ u.transfer.result = None
        BY DEF Working, Still, Keeps
      <4>4. CASE toHost' = toHost /\ u.transfer.admitted = h.transfer.admitted
                 /\ u.transfer.stage = h.transfer.stage
        BY <2>6, <4>2, <4>3, <4>4, <1>SenderGoesOn, TruthNone, SMTT(30)
      <4>5. CASE \E p \in S!Packets :
                   /\ toHost' = Append(toHost, Answer(p, h.transfer.file))
                   /\ p = "Prepared" <=> h.transfer.stage = "Preparing"
                   /\ ~ h.transfer.admitted /\ (u.transfer.admitted <=> p = "End")
                   /\ u.transfer.stage # "Preparing"
        BY <2>4, <4>2, <4>5, <1>PacketLinked
      <4> QED BY <4>4, <4>5 DEF Sent
    <3> QED BY <3>1, <3>2 DEF Chain
  <2>11. Linked(tx', Owned') /\ Told(tx', Owned')
    BY <2>10, <1>EndsLinked DEF Chain
  <2>12. SlotTrue(Owned') BY DEF SlotTrue
  <2> QED BY <2>11, <2>12, <1>PromiseBeside

\* The source thread, the clock and set_paused are beside the link.
<1>BesideLinked.
    ASSUME PromiseInv, Keeps(tx, tx'), tx'.transfer = tx.transfer,
           UNCHANGED <<rx, slot, worker, disk, permit, toHost, toSender>>
    PROVE  PromiseInv'
  <2> USE <1>BesideLinked
  <2>1. Ordered /\ SlotTrue(Owned) /\ Linked(tx, Owned) /\ Told(tx, Owned) BY DEF PromiseInv
  <2> USE <2>1
  <2>2. Owned' = Owned BY DEF Owned
  <2>3. tx'.receipts = tx.receipts /\ tx'.queue = tx.queue BY DEF Keeps
  <2> USE <2>3
  <2>4. \A f : TurnOf(tx, f) => TurnOf(tx', f) BY DEF TurnOf
  <2> USE <2>4
  <2>5. Linked(tx', Owned)
    <3>1. \A i \in 1..Len(Owned.toHost) : Travelling(tx', Owned, i)
      BY DEF Linked, Travelling
    <3>2. Commanded(tx', Owned) BY DEF Linked, Commanded
    <3>3. Relied(tx', Owned) BY DEF Linked, Relied
    <3> QED BY <3>1, <3>2, <3>3 DEF Linked
  <2>6. Told(tx', Owned) BY DEF Told
  <2> QED BY <2>2, <2>5, <2>6, <1>PromiseBeside

\* What a step of the worker has to show.
<1>WorkerGoesOn.
    ASSUME LaneInv, PromiseInv, Apart, tx' = tx, Ordered', SlotTrue(Owned)',
           Commanded(tx, Owned)',
           \A i \in 1..Len(toHost) : Fresh(toHost[i].file)',
           \A f \in Files : Undone(Owned, f) => Undone(Owned, f)',
           \A f \in Files : Durably(f) => Durably(f)',
           \A f \in Files : ~ Fresh(f) => ~ Fresh(f)',
           Barred(Owned) => Barred(Owned)' /\ \A f \in Files : Fresh(f) => Fresh(f)',
           worker'.active # None =>
             \/ worker.active # None /\ worker'.active.file = worker.active.file
             \/ slot.st # "Idle" /\ worker'.active.file = slot.file,
           worker'.floor = worker.floor \/ (slot.st # "Idle" /\ worker'.floor = slot.file),
           slot.st = "Idle" => slot'.st = "Idle"
    PROVE  PromiseInv'
  <2> USE <1>WorkerGoesOn
  <2>1. /\ Loose(tx) /\ Linked(tx, Owned) /\ Told(tx, Owned)
        /\ Commanded(tx, Owned) /\ Relied(tx, Owned)
        /\ \A i \in 1..Len(Owned.toHost) : Travelling(tx, Owned, i)
    BY DEF LaneInv, PromiseInv, Fit, Linked
  <2> USE <2>1
  <2>2. /\ Owned'.toHost = toHost /\ Owned'.toSender = Owned.toSender /\ Owned'.rx = Owned.rx
        /\ Owned'.slot = slot' /\ Owned.slot = slot /\ Owned.toHost = toHost
        /\ tx'.receipts = tx.receipts /\ toHost' = toHost
    BY DEF Apart, Owned
  <2> USE <2>2
  <2>3. SaidBy(Owned)' = SaidBy(Owned)
    <3>1. SaidBy(Owned)' = SaidBy(Owned') BY DEF SaidBy
    <3>2. SaidBy(Owned') = SaidBy(Owned) BY SaidAlike
    <3> QED BY <3>1, <3>2
  <2> USE <2>3
  <2>0. /\ tx.transfer # None => tx.transfer.file \in Files
        /\ Owned.rx.refusal # None => Owned.rx.refusal \in Files
        /\ \A m \in SaidBy(Owned) : m.file \in Files
    <3>1. tx.transfer # None => tx.transfer.file \in Files
      BY DEF Loose, S!SenderType, S!Transfers
    <3>2. Owned \in OwnedType BY DEF LaneInv, HostInv, HostOK
    <3>3. Owned.rx.refusal # None => Owned.rx.refusal \in Files BY <3>2 DEF OwnedType, OwnerType
    <3>4. \A m \in SaidBy(Owned) : m \in Replies
      <4>1. Owned.toSender \in Seq(Replies) /\ Owned.rx.reply \in Replies \cup {None}
        BY <3>2 DEF OwnedType, OwnerType
      <4> QED BY <4>1, SaidAreReplies
    <3> QED BY <3>1, <3>3, <3>4 DEF Replies
  <2> USE <2>0
  <2>4. \A f : TurnOf(tx, f)' <=> TurnOf(tx, f) BY DEF TurnOf
  <2>5. Quiet(Owned) => Quiet(Owned)' BY DEF Quiet
  <2>6. ~ Quiet(Owned) \/ worker'.floor = worker.floor BY DEF Quiet
  <2>7. (\A i \in 1..Len(Owned.toHost) : Travelling(tx, Owned, i))'
    <3> SUFFICES ASSUME NEW i \in 1..Len(toHost) PROVE Travelling(tx, Owned, i)' OBVIOUS
    <3>1. Travelling(tx, Owned, i) OBVIOUS
    <3>2. TurnOf(tx, toHost[i].file)' BY <2>4, <3>1 DEF Travelling
    <3>3. Fresh(toHost[i].file)' OBVIOUS
    <3> QED BY <3>1, <3>2, <3>3 DEF Travelling
  <2>8. \A i \in 1..Len(tx.queue) : worker'.floor < tx.queue[i]
    <3>1. CASE worker'.floor = worker.floor BY <3>1 DEF Relied
    <3>2. CASE slot.st # "Idle" /\ worker'.floor = slot.file
      <4> USE <3>2
      <4>1. ~ Quiet(Owned) BY DEF Quiet
      <4>2. tx.transfer # None => slot.file = tx.transfer.file BY DEF Commanded
      <4> QED BY <4>1, <4>2, <1>UnderWay
    <3> QED BY <3>1, <3>2
  <2>9. worker'.active # None => TurnOf(tx, worker'.active.file)
    BY DEF Relied, Commanded
  <2>10. Relied(tx, Owned)'
    <3>1. (worker.active # None => TurnOf(tx, worker.active.file))' BY <2>9 DEF TurnOf
    <3>2. (tx.transfer = None /\ tx.queue # << >> => Quiet(Owned))' BY <2>5 DEF Relied
    <3>3. (\A i \in 1..Len(tx.queue) :
             /\ worker.floor < tx.queue[i]
             /\ \A m \in SaidBy(Owned) : m.file < tx.queue[i]
             /\ Owned.rx.refusal # None => Owned.rx.refusal < tx.queue[i])'
      BY <2>8 DEF Relied
    <3>4. (tx.transfer # None =>
             /\ tx.transfer.stage = "Preparing" => Quiet(Owned) /\ worker.floor < tx.transfer.file
             /\ ~ tx.transfer.admitted => Undone(Owned, tx.transfer.file)
             /\ tx.transfer.result = "Durable" => Quiet(Owned)
             /\ \A m \in SaidBy(Owned) : m.kind = "Durable" /\ m.file = tx.transfer.file =>
                  Quiet(Owned) /\ tx.transfer.admitted)'
      BY <2>5, <2>6 DEF Relied
    <3> QED BY <3>1, <3>2, <3>3, <3>4 DEF Relied
  <2>11. \A f \in Files : \A o : Truth(Owned, f, o) => Truth(Owned, f, o)' BY DEF Truth
  <2> USE <2>11
  <2>12. Told(tx, Owned)'
    <3>1. (\A f \in Files : Truth(Owned, f, tx.receipts[f]))' BY DEF Told
    <3>2. (tx.transfer # None => Truth(Owned, tx.transfer.file, tx.transfer.result))'
      BY DEF Told
    <3>3. (\A m \in SaidBy(Owned) : Truth(Owned, m.file, m.kind))'
      BY DEF Told
    <3>4. (Owned.rx.refusal # None => Truth(Owned, Owned.rx.refusal, "Refused"))'
      BY DEF Told
    <3> QED BY <3>1, <3>2, <3>3, <3>4 DEF Told
  <2> QED BY <2>7, <2>10, <2>12 DEF PromiseInv, Linked

\* Where the names stay as they are.
<1>ShelfGoesOn.
    ASSUME LaneInv, PromiseInv, Apart, tx' = tx, SameShelf, SlotTrue(Owned)',
           Commanded(tx, Owned)', worker'.floor \in Nat,
           worker.pc # "dead",
           slot' = slot \/ (slot.st # "Idle" /\ slot'.op = slot.op /\ slot'.file = slot.file),
           ~ permit /\ worker.pc \notin PastPermit => worker'.pc \notin PastPermit,
           worker'.active # None =>
             /\ worker'.pc # "placed" /\ worker.pc # "placed"
             /\ \/ worker.active # None /\ worker'.active.file = worker.active.file
                \/ /\ slot.st # "Idle" /\ worker'.active.file = slot.file
                   /\ Fresh(slot.file) /\ slot.file <= worker'.floor,
           \/ worker'.floor = worker.floor
           \/ slot.st # "Idle" /\ worker'.floor = slot.file /\ worker.floor < slot.file
    PROVE  PromiseInv'
  <2> USE <1>ShelfGoesOn
  <2>1. /\ Owned.slot = slot /\ Owned.toHost = toHost /\ Owned.permit = permit
        /\ worker.floor \in Nat /\ Ordered
        /\ (worker.active # None => worker.active.file \in Files)
        /\ (slot.st # "Idle" => slot.file \in Files)
    BY AtDisk
  <2> USE <2>1
  <2>2. Owned'.slot = slot' /\ Owned'.toHost = toHost /\ Owned'.permit = permit'
    BY DEF Owned, Apart
  <2>3. /\ disk'.entry = disk.entry /\ disk'.lost = disk.lost /\ disk'.synced = disk.synced
    BY DEF SameShelf
  <2> USE <2>3
  <2>4. /\ \A f : Fresh(f)' <=> Fresh(f)
        /\ \A f : Placed(disk, f)' = Placed(disk, f)
        /\ Locals(disk)' = Locals(disk)
        /\ \A f : Durably(f)' <=> Durably(f)
    BY ShelfFacts
  <2> USE <2>4
  <2>5. worker.floor <= worker'.floor
    <3>1. slot.st # "Idle" => slot.file \in Nat BY FilesAreNumbers
    <3> QED BY <3>1, SMTT(30)
  <2>6. Ordered'
    <3>1. worker'.active # None =>
            worker'.active.file <= worker'.floor /\ Fresh(worker'.active.file)
      <4>1. worker.active # None => worker.active.file \in Nat /\ worker.active.file <= worker.floor
        BY FilesAreNumbers DEF Ordered
      <4>2. CASE worker'.active # None /\ worker.active # None
                 /\ worker'.active.file = worker.active.file /\ worker.pc # "placed"
        <5> USE <4>2
        <5>1. Fresh(worker.active.file) BY DEF Ordered
        <5> QED BY <2>5, <4>1, <5>1, SMTT(30)
      <4> QED BY <4>2
    <3>2. (worker.active # None =>
             /\ worker.active.file <= worker.floor
             /\ worker.pc # "placed" => Fresh(worker.active.file)
             /\ worker.pc = "placed" => Placed(disk, worker.active.file) # {})'
      BY <3>1
    <3>3. (\A f \in Files : worker.floor < f => Fresh(f))'
      <4>1. \A f \in Files : worker'.floor < f => worker.floor < f
        BY <2>5, FilesAreNumbers, SMTT(30)
      <4> QED BY <4>1 DEF Ordered
    <3>4. (\A f \in Files : \A m, n \in Placed(disk, f) : m = n)' BY SMTT(30) DEF Ordered
    <3>5. (\A f \in Files : f \in disk.lost => Placed(disk, f) = {})'
      BY DEF Ordered
    <3>6. disk'.lost = {} BY DEF Ordered
    <3>7. (\A n \in disk.synced : disk.entry[n] # None)' BY DEF Ordered
    <3>8. (Locals(disk) \subseteq disk.synced)' BY DEF Ordered
    <3> QED BY <3>2, <3>3, <3>4, <3>5, <3>6, <3>7, <3>8 DEF Ordered
  <2>7. \A i \in 1..Len(toHost) : Fresh(toHost[i].file)'
    <3>1. \A i \in 1..Len(toHost) : Fresh(toHost[i].file)
      BY DEF PromiseInv, Linked, Travelling
    <3>2. toHost' = toHost BY DEF Apart
    <3> QED BY <3>1, <3>2
  <2>8. \A f : Undone(Owned, f) => Undone(Owned, f)' BY <2>2 DEF Undone
  <2>9. Barred(Owned) => Barred(Owned)' BY <2>2 DEF Barred, Apart
  <2>10. slot.st = "Idle" => slot'.st = "Idle" OBVIOUS
  <2> QED BY <2>6, <2>7, <2>8, <2>9, <2>10, <1>WorkerGoesOn

<1>StoresPromise.
    ASSUME LaneInv, PromiseInv, HostInv', Apart, tx' = tx, Stores
    PROVE  PromiseInv'
  <2> USE <1>StoresPromise
  <2>1. /\ Owned.slot = slot /\ Owned.toHost = toHost /\ slot \in SlotType
        /\ (slot.st = "Executing" <=> worker.pc \in Executing)
        /\ (worker.pc \in Executing /\ worker.pc # "placed" => Fresh(slot.file))
        /\ Ordered /\ Commanded(tx, Owned)
    BY AtDisk
  <2> USE <2>1
  <2>2. /\ worker.pc \in Executing /\ worker'.pc = "loop" /\ SameShelf
        /\ slot'.st = "Complete" /\ slot'.op = slot.op /\ slot'.file = slot.file
        /\ worker'.active \in {worker.active, None}
        /\ slot'.result \in {"Begun", "Error"} => worker.pc # "placed"
        /\ slot'.result \notin {"Durable", "DurabilityUnknown"}
        /\ \/ worker'.floor = worker.floor
           \/ worker.floor < slot.file /\ worker'.floor = slot.file
    BY DEF Stores
  <2> USE <2>2
  <2>3. slot.st = "Executing" /\ worker.pc # "dead" BY DEF Executing
  <2>4. Owned'.slot = slot' /\ Owned'.toHost = toHost /\ tx'.receipts = tx.receipts
    BY DEF Owned, Apart
  <2>5. \A f : Fresh(f)' <=> Fresh(f) BY ShelfFacts DEF SameShelf
  <2>6. SlotTrue(Owned)'
    <3>1. (slot.result \in {"Begun", "Error"} => Fresh(slot.file))' BY <2>5
    <3> QED BY <2>4, <3>1 DEF SlotTrue
  <2>7. Commanded(tx, Owned)' BY <2>3, <2>4, SMTT(30) DEF Commanded, TurnOf
  <2>8. worker'.active # None => worker'.pc # "placed" /\ worker.pc # "placed"
                                 /\ worker.active # None /\ worker'.active.file = worker.active.file
    <3>1. worker.active # None => (worker.active.state = "Published" <=> worker.pc = "placed")
      BY DEF LaneInv, HostInv, HostOK, Holding
    <3>2. worker'.active # None => (worker'.active.state = "Published" <=> worker'.pc = "placed")
      BY DEF HostInv, HostOK, Holding
    <3> QED BY <3>1, <3>2
  <2>9. worker'.floor \in Nat BY DEF HostInv, WorkerType
  <2>10. worker'.pc \notin PastPermit BY DEF PastPermit
  <2> QED BY <2>3, <2>6, <2>7, <2>8, <2>9, <2>10, <1>ShelfGoesOn

<1>MovesPromise.
    ASSUME LaneInv, PromiseInv, HostInv', Apart, tx' = tx, Moves
    PROVE  PromiseInv'
  <2> USE <1>MovesPromise
  <2>1. /\ Owned.slot = slot /\ Owned.toHost = toHost /\ slot \in SlotType
        /\ (slot.st = "Executing" <=> worker.pc \in Executing)
        /\ (slot.st # "Idle" => slot.file \in Files)
        /\ Ordered /\ Commanded(tx, Owned)
    BY AtDisk
  <2> USE <2>1
  <2>2. /\ slot.st \in {"Queued", "Executing"} /\ slot'.st = "Executing" /\ SameShelf
        /\ slot'.op = slot.op /\ slot'.file = slot.file
        /\ worker.pc # "placed" /\ worker'.pc # "placed"
        /\ worker'.pc \in PastPermit => worker.pc \in PastPermit \/ permit
    BY DEF Moves
  <2> USE <2>2
  <2>3. Owned'.slot = slot' /\ Owned'.toHost = toHost /\ tx'.receipts = tx.receipts
    BY DEF Owned, Apart
  <2>4. \/ /\ slot.st = "Queued" /\ worker.pc = "loop"
           /\ worker'.active = worker.active /\ worker'.floor = worker.floor
        \/ /\ slot.st = "Executing" /\ worker.active # None
           /\ worker'.active.file = worker.active.file /\ worker'.floor = worker.floor
           /\ worker'.pc # "begin"
        \/ /\ slot.st = "Executing" /\ worker'.pc = "begun" /\ worker'.active.file = slot.file
           /\ worker.floor < slot.file /\ worker'.floor = slot.file
    BY DEF Moves
  <2> USE <2>4
  <2>5. worker.pc # "dead"
    BY DEF Executing
  <2>6. SlotTrue(Owned)' BY <2>3 DEF SlotTrue
  <2>7. Commanded(tx, Owned)'
    <3>1. slot.op = "begin" /\ worker'.pc = "begin" => worker'.floor < slot.file
      BY DEF Commanded
    <3> QED BY <2>3, <3>1 DEF Commanded, TurnOf
  <2>8. worker'.floor \in Nat BY DEF HostInv, WorkerType
  <2>9. worker'.active # None =>
          \/ worker.active # None /\ worker'.active.file = worker.active.file
          \/ /\ slot.st # "Idle" /\ worker'.active.file = slot.file
             /\ Fresh(slot.file) /\ slot.file <= worker'.floor
    <3>1. ASSUME worker.floor < slot.file, worker'.floor = slot.file
          PROVE  Fresh(slot.file) /\ slot.file <= worker'.floor
      <4> USE <3>1
      <4>1. slot.file \in Files OBVIOUS
      <4>2. Fresh(slot.file) BY <4>1 DEF Ordered
      <4> QED BY <2>8, <4>2, SMTT(30)
    <3> QED BY <3>1
  <2>10. \/ worker'.floor = worker.floor
         \/ slot.st # "Idle" /\ worker'.floor = slot.file /\ worker.floor < slot.file
    OBVIOUS
  <2> QED BY <2>5, <2>6, <2>7, <2>8, <2>9, <2>10, <1>ShelfGoesOn

<1>IdlesPromise.
    ASSUME LaneInv, PromiseInv, HostInv', Apart, tx' = tx, Idles
    PROVE  PromiseInv'
  <2> USE <1>IdlesPromise
  <2>1. /\ Owned.slot = slot /\ Owned.toHost = toHost /\ SlotTrue(Owned)
        /\ Ordered /\ Commanded(tx, Owned)
    BY AtDisk
  <2> USE <2>1
  <2>2. /\ worker.pc # "dead" /\ worker'.pc \notin PastPermit /\ worker'.pc # "begin"
        /\ worker'.active = None /\ worker'.floor = worker.floor /\ SameShelf
        /\ \/ slot' = slot
           \/ /\ slot.st = "Queued" /\ slot'.st = "Complete" /\ slot'.result = "Error"
              /\ slot'.op = slot.op /\ slot'.file = slot.file
    BY DEF Idles, PastPermit
  <2> USE <2>2
  <2>3. Owned'.slot = slot' /\ Owned'.toHost = toHost /\ tx'.receipts = tx.receipts
    BY DEF Owned, Apart
  <2> USE <2>3
  <2>4. \A f : (Fresh(f)' <=> Fresh(f)) /\ (Durably(f)' <=> Durably(f))
    BY ShelfFacts DEF SameShelf
  <2> USE <2>4
  <2>5. SlotTrue(Owned)'
    <3>1. CASE slot' = slot BY <3>1 DEF SlotTrue
    <3>2. CASE slot.st = "Queued" /\ slot'.result = "Error" /\ slot'.file = slot.file
      <4> USE <3>2
      <4>1. Fresh(slot.file) BY DEF Commanded
      <4>2. Fresh(slot.file)' BY <4>1
      <4> QED BY <4>2 DEF SlotTrue
    <3> QED BY <3>1, <3>2
  <2>6. Commanded(tx, Owned)'
    <3>1. CASE slot' = slot BY <3>1 DEF Commanded, TurnOf
    <3>2. CASE slot.st = "Queued" /\ slot'.st = "Complete" /\ slot'.op = slot.op
               /\ slot'.file = slot.file
      BY <3>2, SMTT(30) DEF Commanded, TurnOf
    <3> QED BY <3>1, <3>2
  <2>7. worker'.floor \in Nat BY DEF HostInv, WorkerType
  <2> QED BY <2>5, <2>6, <2>7, <1>ShelfGoesOn

<1>PublishesPromise.
    ASSUME LaneInv, PromiseInv, HostInv', Apart, tx' = tx, Publishes
    PROVE  PromiseInv'
  <2> USE <1>PublishesPromise
  <2> DEFINE a == worker.active
             f == a.file
             n == Target(a)
  <2>0. /\ worker.pc = "publish" /\ worker.pc \in Executing \ {"begin", "placed"}
        /\ worker.pc \in PastClock /\ worker.pc \in PastPermit
    BY DEF Publishes, Executing, PastClock, PastPermit
  <2> USE <2>0
  <2>1. /\ Owned.slot = slot /\ Owned.toHost = toHost /\ slot.st = "Executing"
        /\ disk \in DirectoryType /\ toHost \in Seq(Records) /\ worker.floor \in Nat
        /\ Fresh(f) /\ slot.file = f /\ slot.op = "complete" /\ a \in Pendings /\ f \in Files
        /\ Ordered /\ SlotTrue(Owned) /\ Commanded(tx, Owned)
    BY AtDisk
  <2> USE <2>1
  <2>2. /\ disk' = Publish(disk, a) /\ slot' = slot /\ disk.entry[n] = None
        /\ worker'.pc = "placed" /\ worker'.active # None /\ worker'.floor = worker.floor
        /\ worker'.active.file = f
    BY DEF Publishes, Occupied
  <2> USE <2>2
  <2>3. Owned'.slot = slot /\ Owned'.toHost = toHost /\ tx'.receipts = tx.receipts
    BY DEF Owned, Apart
  <2> USE <2>3
  <2>4. /\ n \in Names /\ disk'.entry = [disk.entry EXCEPT ![n] = f]
        /\ disk'.synced = disk.synced /\ disk'.lost = disk.lost
    BY PublishDisk
  <2> USE <2>4
  <2> HIDE DEF n
  <2>5. /\ \A e \in Files \cup {Local} : e # f => Placed(disk, e)' = Placed(disk, e)
        /\ Placed(disk, f)' = Placed(disk, f) \cup {n}
        /\ \A m \in Names : disk.entry[m] # None => disk'.entry[m] = disk.entry[m]
    BY EntryFacts, SMTT(30)
  <2> USE <2>5
  <2>6. Placed(disk, f) = {} /\ f \notin disk.lost /\ Placed(disk, f)' = {n}
    BY DEF Fresh
  <2> USE <2>6
  <2>7. \A e \in Files : e # f => (Fresh(e)' <=> Fresh(e)) /\ (Durably(e)' <=> Durably(e))
    BY DEF Fresh, Durably
  <2> USE <2>7
  <2>8. ~ Durably(f) /\ ~ Fresh(f)' BY DEF Durably, Fresh
  <2>9. toHost = << >> BY DEF Commanded
  <2>10. Ordered'
    <3>1. f \in Nat /\ f <= worker.floor
      BY FilesAreNumbers, AtDisk DEF Publishes, Ordered
    <3>2. (worker.active # None =>
             /\ worker.active.file <= worker.floor
             /\ worker.pc # "placed" => Fresh(worker.active.file)
             /\ worker.pc = "placed" => Placed(disk, worker.active.file) # {})'
      BY <3>1
    <3>3. (\A e \in Files : worker.floor < e => Fresh(e))'
      <4>1. \A e \in Files : worker.floor < e => e # f BY <3>1, FilesAreNumbers, SMTT(30)
      <4> QED BY <4>1 DEF Ordered
    <3>4. (\A e \in Files : \A m, k \in Placed(disk, e) : m = k)'
      <4> SUFFICES ASSUME NEW e \in Files, NEW m \in Placed(disk, e)', NEW k \in Placed(disk, e)'
                   PROVE  m = k
        OBVIOUS
      <4>1. CASE e = f BY <4>1, SMTT(30)
      <4>2. CASE e # f BY <4>2, SMTT(30) DEF Ordered
      <4> QED BY <4>1, <4>2
    <3>5. (\A e \in Files : e \in disk.lost => Placed(disk, e) = {})'
      BY DEF Ordered
    <3>6. disk'.lost = {} BY DEF Ordered
    <3>7. (\A m \in disk.synced : disk.entry[m] # None)'
      BY SMTT(30) DEF Ordered, DirectoryType
    <3>8. (Locals(disk) \subseteq disk.synced)'
      <4>1. Local # f BY FilesAreNumbers
      <4>2. Placed(disk, Local)' = Placed(disk, Local) BY <4>1
      <4>3. Locals(disk)' = Locals(disk) BY <4>2 DEF Locals, Placed
      <4> QED BY <4>3 DEF Ordered
    <3> QED BY <3>2, <3>3, <3>4, <3>5, <3>6, <3>7, <3>8 DEF Ordered
  <2>11. SlotTrue(Owned)' BY DEF SlotTrue
  <2>12. Commanded(tx, Owned)' BY SMTT(30) DEF Commanded, TurnOf
  <2>13. \A i \in 1..Len(toHost) : Fresh(toHost[i].file)'
    <3>1. Len(toHost) = 0 BY <2>9, SMTT(30)
    <3> QED BY <3>1, NoneBelow
  <2>14. \A e \in Files : Undone(Owned, e) => Undone(Owned, e)'
    <3>1. ~ Undone(Owned, f) BY DEF Undone
    <3> QED BY <3>1, SMTT(30) DEF Undone
  <2>15. \A e \in Files : (Durably(e) => Durably(e)') /\ (~ Fresh(e) => ~ Fresh(e)')
    BY <2>8
  <2>16. ~ Barred(Owned) BY DEF Barred
  <2>17. a # None BY DEF Publishes
  <2>18. \A e \in Files : Durably(e) => Durably(e)' BY <2>15
  <2>19. \A e \in Files : ~ Fresh(e) => ~ Fresh(e)' BY <2>15
  <2> QED BY <2>10, <2>11, <2>12, <2>13, <2>14, <2>16, <2>17, <2>18, <2>19, <1>WorkerGoesOn

<1>SyncsPromise.
    ASSUME LaneInv, PromiseInv, HostInv', Apart, tx' = tx, Syncs
    PROVE  PromiseInv'
  <2> USE <1>SyncsPromise
  <2>0. /\ worker.pc = "placed" /\ worker.pc \in Executing \ {"begin"}
        /\ worker.pc \in PastClock /\ worker.pc \in PastPermit
    BY DEF Syncs, Executing, PastClock, PastPermit
  <2> USE <2>0
  <2>1. /\ Owned.slot = slot /\ Owned.toHost = toHost /\ slot.st = "Executing"
        /\ disk \in DirectoryType /\ toHost \in Seq(Records) /\ worker.floor \in Nat
        /\ slot.op = "complete" /\ worker.active # None /\ worker.active.file = slot.file
        /\ slot.file \in Files /\ Ordered /\ Commanded(tx, Owned)
    BY AtDisk
  <2> USE <2>1
  <2>2. /\ worker'.pc = "loop" /\ worker'.active = None /\ worker'.floor = worker.floor
        /\ disk'.entry = disk.entry /\ disk'.lost = disk.lost
        /\ slot'.st = "Complete" /\ slot'.op = slot.op /\ slot'.file = slot.file
        /\ \/ slot'.result = "Durable" /\ disk'.synced = {n \in Names : disk.entry[n] # None}
           \/ slot'.result = "DurabilityUnknown" /\ disk'.synced = disk.synced
    BY DEF Syncs
  <2> USE <2>2
  <2>3. Owned'.slot = slot' /\ Owned'.toHost = toHost /\ tx'.receipts = tx.receipts
    BY DEF Owned, Apart
  <2> USE <2>3
  <2>4. /\ \A f : Fresh(f)' <=> Fresh(f)
        /\ \A f : Placed(disk, f)' = Placed(disk, f)
        /\ Locals(disk)' = Locals(disk)
    BY ShelfFacts
  <2> USE <2>4
  <2>5. Placed(disk, slot.file) # {} BY DEF Ordered
  <2>6. disk.synced \subseteq disk'.synced
    <3>1. disk.synced \subseteq {n \in Names : disk.entry[n] # None}
      BY DEF Ordered, DirectoryType
    <3> QED BY <3>1
  <2>7. \A f \in Files : Durably(f) => Durably(f)' BY <2>6 DEF Durably
  <2>8. SlotTrue(Owned)'
    <3>1. ~ Fresh(slot.file) BY <2>5 DEF Fresh
    <3>2. slot'.result = "Durable" => Placed(disk, slot.file) \subseteq disk'.synced
      <4>1. slot.file # None BY FilesAreNumbers
      <4> QED BY <4>1 DEF Placed
    <3>3. (slot.result = "Durable" => Durably(slot.file))'
      BY <2>5, <3>2 DEF Durably
    <3>4. (~ Fresh(slot.file))' BY <3>1
    <3>5. slot'.result \notin {"Begun", "Error"} OBVIOUS
    <3> QED BY <3>3, <3>4, <3>5 DEF SlotTrue
  <2>9. Commanded(tx, Owned)' BY SMTT(30) DEF Commanded, TurnOf
  <2>10. Ordered'
    <3>1. (\A f \in Files : worker.floor < f => Fresh(f))' BY DEF Ordered
    <3>2. (\A f \in Files : \A m, k \in Placed(disk, f) : m = k)' BY SMTT(30) DEF Ordered
    <3>3. (\A f \in Files : f \in disk.lost => Placed(disk, f) = {})'
      BY DEF Ordered
    <3>4. disk'.lost = {} BY DEF Ordered
    <3>5. (\A m \in disk.synced : disk.entry[m] # None)' BY SMTT(30) DEF Ordered
    <3>6. (Locals(disk) \subseteq disk.synced)' BY <2>6 DEF Ordered
    <3> QED BY <3>1, <3>2, <3>3, <3>4, <3>5, <3>6 DEF Ordered
  <2>11. \A i \in 1..Len(toHost) : Fresh(toHost[i].file)'
    <3>1. toHost = << >> BY DEF Commanded
    <3>2. Len(toHost) = 0 BY <3>1, SMTT(30)
    <3> QED BY <3>2, SMTT(30)
  <2>12. \A f \in Files : Undone(Owned, f) => Undone(Owned, f)'
    BY DEF Undone
  <2>13. ~ Barred(Owned) BY DEF Barred
  <2> QED BY <2>7, <2>8, <2>9, <2>10, <2>11, <2>12, <2>13, <1>WorkerGoesOn

\* Steps that only take names from the directory, or add those of other programs.
<1>DiskGoesOn.
    ASSUME tx' = tx, Fit(tx), Owned' \in OwnedType, Linked(tx, Owned'), Told(tx, Owned'),
           \A f \in Files : Fresh(f)' <=> Fresh(f),
           \A f \in Files : Durably(f) => Durably(f)',
           worker'.floor = worker.floor,
           worker'.active # None =>
             worker.active # None /\ worker'.active.file = worker.active.file,
           worker.pc \notin PastPermit => worker'.pc \notin PastPermit,
           worker'.pc = "begin" => worker.pc = "begin",
           slot'.st # "Idle" => slot'.file \in Files
    PROVE  Linked(tx, Owned)' /\ Told(tx, Owned)'
  <2> USE <1>DiskGoesOn
  <2>0. /\ Owned'.toHost \in Seq(Records) /\ Owned'.toSender \in Seq(Replies)
        /\ Owned'.rx.reply \in Replies \cup {None} /\ Owned'.rx.refusal \in Files \cup {None}
        /\ Owned'.slot = slot'
    <3>1. Owned'.slot = slot' BY DEF Owned
    <3> QED BY <3>1 DEF OwnedType, OwnerType
  <2> USE <2>0
  <2>1. /\ \A i \in 1..Len(Owned'.toHost) : Owned'.toHost[i].file \in Files
        /\ \A m \in SaidBy(Owned') : m.file \in Files
        /\ tx.transfer # None => tx.transfer.file \in Files
    <3>1. \A i \in 1..Len(Owned'.toHost) : Owned'.toHost[i] \in Records BY SMTT(30)
    <3>2. \A m \in SaidBy(Owned') : m \in Replies BY SaidAreReplies
    <3>3. tx.transfer # None => tx.transfer.file \in Files
      BY DEF Fit, Loose, S!SenderType, S!Transfers
    <3> QED BY <3>1, <3>2, <3>3 DEF Records, Replies
  <2> USE <2>1
  <2>2. \A f : TurnOf(tx, f) => TurnOf(tx, f)' BY DEF TurnOf
  <2> USE <2>2
  <2>3. \A f \in Files : Undone(Owned', f) => Undone(Owned, f)' BY DEF Undone
  <2>4. Quiet(Owned') => Quiet(Owned)' BY DEF Quiet
  <2>5. (\A i \in 1..Len(Owned.toHost) : Travelling(tx, Owned, i))'
    <3> SUFFICES ASSUME NEW i \in 1..Len(Owned'.toHost) PROVE Travelling(tx, Owned, i)' OBVIOUS
    <3>1. Travelling(tx, Owned', i) BY DEF Linked
    <3> USE <3>1
    <3>2. Fresh(Owned.toHost[i].file)' BY DEF Travelling
    <3>3. TurnOf(tx, Owned.toHost[i].file)' BY DEF Travelling
    <3> QED BY <3>2, <3>3 DEF Travelling
  <2>6. Commanded(tx, Owned)'
    <3>1. Commanded(tx, Owned') BY DEF Linked
    <3> USE <3>1
    <3>2. slot'.st = "Queued" => Fresh(slot.file)' BY DEF Commanded
    <3>3. slot'.st # "Idle" => TurnOf(tx, slot.file)' BY DEF Commanded
    <3> QED BY <3>2, <3>3 DEF Commanded
  <2>7. Relied(tx, Owned)'
    <3>1. Relied(tx, Owned') BY DEF Linked
    <3> USE <3>1
    <3>2. (worker.active # None => TurnOf(tx, worker.active.file))'
      BY DEF Relied
    <3>3. (tx.transfer # None /\ ~ tx.transfer.admitted => Undone(Owned, tx.transfer.file))'
      BY <2>3 DEF Relied
    <3> QED BY <2>4, <3>2, <3>3 DEF Relied, SaidBy
  <2>8. \A f \in Files : \A o : Truth(Owned', f, o) => Truth(Owned, f, o)'
    BY <2>3 DEF Truth, Barred
  <2> USE <2>8
  <2>9. Told(tx, Owned)'
    <3>1. (\A f \in Files : Truth(Owned, f, tx.receipts[f]))' BY DEF Told
    <3>2. (tx.transfer # None => Truth(Owned, tx.transfer.file, tx.transfer.result))'
      BY DEF Told
    <3>3. (\A m \in SaidBy(Owned) : Truth(Owned, m.file, m.kind))'
      <4>1. SaidBy(Owned)' = SaidBy(Owned') BY DEF SaidBy
      <4> QED BY <4>1 DEF Told
    <3>4. (Owned.rx.refusal # None => Truth(Owned, Owned.rx.refusal, "Refused"))'
      BY DEF Told
    <3> QED BY <3>1, <3>2, <3>3, <3>4 DEF Told
  <2> QED BY <2>5, <2>6, <2>7, <2>9 DEF Linked

<1>CrashPromise.
    ASSUME LaneInv, PromiseInv, Crash
    PROVE  PromiseInv'
  <2> USE <1>CrashPromise
  <2>1. /\ HostInv' /\ worker'.pc = "dead" /\ worker'.active = None
        /\ worker'.floor = worker.floor /\ ~ permit' /\ slot' = Idle
        /\ rx'.reply = None /\ rx'.refusal = rx.refusal /\ worker.pc # "dead"
    BY CrashFacts DEF LaneInv
  <2> USE <2>1
  <2>2. PICK gone \in SUBSET Unsynced(disk) :
          /\ disk'.entry = [n \in Names |-> IF n \in gone THEN None ELSE disk.entry[n]]
          /\ disk'.lost = {disk.entry[n] : n \in gone} /\ disk'.synced = disk.synced
    BY CrashFacts DEF LaneInv
  <2> USE <2>2
  <2>3. /\ tx' = tx /\ Fit(tx) /\ toHost' = toHost /\ toSender' = toSender /\ slot'.st = "Idle"
        /\ Owned' \in OwnedType /\ Owned \in OwnedType
    BY SMTT(30) DEF Crash, LaneInv, HostInv, HostOK, Idle
  <2> USE <2>3
  <2>4. /\ disk \in DirectoryType /\ Ordered /\ Owned.toHost = toHost
    BY AtDisk
  <2> USE <2>4
  <2>5. /\ Owned'.toHost = Owned.toHost /\ Owned'.toSender = Owned.toSender
        /\ Owned'.slot.st = "Idle" /\ Owned'.rx.reply = None /\ Owned'.rx.refusal = Owned.rx.refusal
        /\ ~ Owned'.permit
    BY DEF Owned
  <2> USE <2>5
  <2>6. Linked(tx, Owned') /\ Told(tx, Owned')
    <3>1. Linked(tx, Owned) /\ Told(tx, Owned) BY DEF PromiseInv
    <3>2. Owned.toHost \in Seq(Records) BY DEF OwnedType
    <3>3. Shorter(Owned.toHost, Owned'.toHost) BY <3>2, <1>ShorterTail
    <3>4. \A f : Undone(Owned, f) => Undone(Owned', f) BY <3>3, <1>UndoneShorter
    <3>5. \A i \in 1..Len(Owned'.toHost) : Travelling(tx, Owned', i)
      BY <3>1, <3>3, <1>TravellingShorter DEF Linked
    <3>6. Commanded(tx, Owned') BY DEF Commanded
    <3>7. Quiet(Owned) => Quiet(Owned') BY DEF Quiet
    <3>8. SaidBy(Owned') \subseteq SaidBy(Owned) BY SMTT(30) DEF SaidBy
    <3> QED BY <3>1, <3>4, <3>5, <3>6, <3>7, <3>8, <1>OwnerGoesOn
  <2>7. gone \subseteq Names /\ gone \cap disk.synced = {} BY DEF Unsynced
  <2> USE <2>7
  <2>8. \A f \in Files \cup {Local} : Placed(disk, f)' = Placed(disk, f) \ gone
    <3>1. \A f \in Files \cup {Local} : f # None BY FilesAreNumbers, NoneAssumption, SMTT(30) DEF Local
    <3> QED BY <3>1 DEF Placed
  <2> USE <2>8
  <2>9. disk.lost = {} BY DEF Ordered
  <2>10. \A f : f \in disk'.lost <=> Placed(disk, f) \cap gone # {}
    BY DEF Placed
  <2>11. \A f \in Files : Fresh(f)' <=> Fresh(f)
    <3> SUFFICES ASSUME NEW f \in Files PROVE Fresh(f)' <=> Fresh(f) OBVIOUS
    <3>1. Placed(disk, f)' = Placed(disk, f) \ gone OBVIOUS
    <3>2. f \in disk'.lost <=> Placed(disk, f) \cap gone # {} BY <2>10
    <3> QED BY <2>9, <3>1, <3>2 DEF Fresh
  <2>12. \A f \in Files : Durably(f) => Durably(f)'
    <3> SUFFICES ASSUME NEW f \in Files, Durably(f) PROVE Durably(f)' OBVIOUS
    <3>1. Placed(disk, f)' = Placed(disk, f) \ gone OBVIOUS
    <3>2. Placed(disk, f) \cap gone = {} BY DEF Durably
    <3> QED BY <3>1, <3>2 DEF Durably
  <2>13. Ordered'
    <3>1. (\A f \in Files : worker.floor < f => Fresh(f))' BY <2>11 DEF Ordered
    <3>2. (\A f \in Files : \A m, k \in Placed(disk, f) : m = k)' BY SMTT(30) DEF Ordered
    <3>3. (\A f \in Files : f \in disk.lost => Placed(disk, f) = {})'
      BY <2>10, SMTT(30) DEF Ordered
    <3>4. (\A m \in disk.synced : disk.entry[m] # None)'
      BY DEF Ordered, DirectoryType
    <3>5. (Locals(disk) \subseteq disk.synced)'
      <4>1. Locals(disk)' \subseteq Locals(disk) BY DEF Locals, Placed
      <4> QED BY <4>1 DEF Ordered
    <3> QED BY <3>1, <3>2, <3>3, <3>4, <3>5 DEF Ordered
  <2>14. SlotTrue(Owned)' BY DEF SlotTrue
  <2>15. worker'.pc \notin PastPermit /\ worker'.pc # "begin" BY DEF PastPermit
  <2>16. Linked(tx, Owned)' /\ Told(tx, Owned)'
    BY <2>6, <2>11, <2>12, <2>15, <1>DiskGoesOn
  <2> QED BY <2>13, <2>14, <2>16 DEF PromiseInv

<1>LocalPromise.
    ASSUME LaneInv, PromiseInv, LocalFile
    PROVE  PromiseInv'
  <2> USE <1>LocalPromise
  <2>1. /\ HostInv /\ Fit(tx) /\ Ordered /\ SlotTrue(Owned) /\ Linked(tx, Owned) /\ Told(tx, Owned)
        /\ Owned \in OwnedType /\ disk \in DirectoryType
    BY DEF LaneInv, HostInv, HostOK, PromiseInv
  <2> USE <2>1
  <2>2. UNCHANGED <<tx, rx, slot, worker, permit, toHost, toSender>> BY LocalFacts
  <2> USE <2>2
  <2>3. PICK n \in Names : /\ disk.entry[n] = None
                           /\ disk'.entry = [disk.entry EXCEPT ![n] = Local]
                           /\ disk'.synced = disk.synced \cup {n}
                           /\ disk'.lost = disk.lost
    BY LocalFacts
  <2> USE <2>3
  <2>4. Owned' = Owned BY DEF Owned
  <2>5. /\ \A f \in Files \cup {Local} : f # Local => Placed(disk, f)' = Placed(disk, f)
        /\ Placed(disk, Local)' = Placed(disk, Local) \cup {n}
        /\ \A m \in Names : disk.entry[m] # None => disk'.entry[m] = disk.entry[m]
    BY EntryFacts
  <2> USE <2>5
  <2>6. \A f \in Files : Placed(disk, f)' = Placed(disk, f) BY FilesAreNumbers
  <2> USE <2>6
  <2>7. \A f \in Files : (Fresh(f)' <=> Fresh(f)) /\ (Durably(f) => Durably(f)')
    BY DEF Fresh, Durably
  <2> USE <2>7
  <2>8. Ordered'
    <3>0. worker.active # None => worker.active.file \in Files BY AtDisk
    <3>1. (worker.active # None =>
             /\ worker.active.file <= worker.floor
             /\ worker.pc # "placed" => Fresh(worker.active.file)
             /\ worker.pc = "placed" => Placed(disk, worker.active.file) # {})'
      BY <3>0 DEF Ordered
    <3>2. (\A f \in Files : worker.floor < f => Fresh(f))' BY DEF Ordered
    <3>3. (\A f \in Files : \A m, k \in Placed(disk, f) : m = k)' BY DEF Ordered
    <3>4. (\A f \in Files : f \in disk.lost => Placed(disk, f) = {})'
      BY DEF Ordered
    <3>5. (\A m \in disk.synced : disk.entry[m] # None)'
      <4>1. disk'.entry[n] = Local /\ Local # None
        BY NoneAssumption, SMTT(30) DEF DirectoryType, Local
      <4> QED BY <4>1 DEF Ordered, DirectoryType
    <3>6. (Locals(disk) \subseteq disk.synced)'
      <4>1. Locals(disk)' = Locals(disk) \cup {n} BY DEF Locals, Placed
      <4> QED BY <4>1 DEF Ordered
    <3>7. (worker.pc # "dead" => disk.lost = {})' BY DEF Ordered
    <3> QED BY <3>1, <3>2, <3>3, <3>4, <3>5, <3>6, <3>7 DEF Ordered
  <2>9. SlotTrue(Owned)'
    <3>0. Owned.slot = slot /\ (slot.st # "Idle" => slot.file \in Files) BY AtDisk
    <3> USE <3>0
    <3>1. slot' = slot /\ Owned'.slot = slot BY <2>4
    <3> USE <3>1
    <3>2. SlotTrue(Owned) OBVIOUS
    <3>3. CASE slot.st # "Complete" BY <3>3 DEF SlotTrue
    <3>4. CASE slot.st = "Complete"
      <4> USE <3>4
      <4>1. slot.file \in Files OBVIOUS
      <4>2. (Fresh(slot.file)' <=> Fresh(slot.file)) /\ (Durably(slot.file) => Durably(slot.file)')
        BY <4>1
      <4> QED BY <3>2, <4>2 DEF SlotTrue
    <3> QED BY <3>3, <3>4
  <2>10. slot'.st # "Idle" => slot'.file \in Files BY AtDisk
  <2>11. \A f \in Files : Fresh(f)' <=> Fresh(f) OBVIOUS
  <2>12. \A f \in Files : Durably(f) => Durably(f)' OBVIOUS
  <2>13. Linked(tx, Owned)' /\ Told(tx, Owned)'
    BY <2>4, <2>10, <2>11, <2>12, <1>DiskGoesOn
  <2> QED BY <2>8, <2>9, <2>13 DEF PromiseInv

\* A revocation from outside, and the loss of the connection or of the standing.
<1>RevokedPromise.
    ASSUME PromiseInv, HostInv, permit' \in BOOLEAN, permit' => permit,
           UNCHANGED <<tx, rx, slot, worker, disk, toHost, toSender>>
    PROVE  PromiseInv'
  <2> USE <1>RevokedPromise
  <2>1. /\ Ordered /\ SlotTrue(Owned) /\ Linked(tx, Owned) /\ Told(tx, Owned) /\ Owned \in OwnedType
    BY DEF PromiseInv, HostInv, HostOK
  <2>2. /\ Owned'.rx = Owned.rx /\ Owned'.slot = Owned.slot /\ Owned'.toHost = Owned.toHost
        /\ Owned'.toSender = Owned.toSender /\ (Owned'.permit => Owned.permit)
    BY DEF Owned
  <2>3. Owned' \in OwnedType BY OwnedParts DEF HostInv, Owned, OwnedType
  <2>4. SaidBy(Owned') = SaidBy(Owned) BY <2>2 DEF SaidBy
  <2>5. Quietly(Owned, Owned') BY <2>2, <2>3, <2>4 DEF Quietly
  <2>6. SlotTrue(Owned') /\ Linked(tx, Owned') /\ Told(tx, Owned') BY <2>1, <2>5, <1>QuietlyLinked
  <2> QED BY <2>1, <2>6, <1>PromiseBeside

<1>0. HostInv /\ HostInv' /\ Fit(tx) /\ HostOK(Owned) /\ Loose(tx) /\ permit \in BOOLEAN
      /\ toSender \in Seq(Replies)
  BY OwnedParts DEF LaneInv, HostInv, Fit
<1> USE <1>0
<1>1. CASE WorkerStep \/ WorkerPanics
  <2>1. Apart /\ tx' = tx /\ (Moves \/ Publishes \/ Syncs \/ Stores \/ Idles)
    BY <1>1, WorkerFacts
  <2> QED
    BY <2>1, <1>StoresPromise, <1>MovesPromise, <1>IdlesPromise, <1>PublishesPromise,
       <1>SyncsPromise
<1>2. CASE OwnerTurn \/ OwnerCollects \/ OwnerStops
  <2>1. PICK c, p, f : OwnerChain(c, p, f, Owned') /\ Left BY <1>2, OwnerShape
  <2>2. tx' = tx /\ worker' = worker /\ disk' = disk BY <2>1 DEF Left
  <2>3. SlotTrue(Owned') /\ Linked(tx, Owned') /\ Told(tx, Owned')
    BY <2>1, <1>OwnerChainLinked DEF PromiseInv
  <2>4. Ordered BY DEF PromiseInv
  <2> QED BY <2>2, <2>3, <2>4, <1>PromiseBeside
<1>3. CASE SenderTurn \/ SenderCancels
  <2> USE <1>3
  <2>1. \E s, h, u : Chain(s, h, u) BY TurnShape
  <2>2. UNCHANGED host BY DEF SenderTurn, SenderCancels
  <2> QED BY <2>1, <2>2, <1>ChainLinked
<1>4. CASE SenderPauses \/ SourceStep \/ Late
  <2> USE <1>4
  <2>1. Keeps(tx, tx') /\ tx'.transfer = tx.transfer BY BesideFacts DEF Beside
  <2>2. UNCHANGED <<rx, slot, worker, disk, permit, toHost, toSender>>
    BY DEF SenderPauses, SourceStep, Late, lane, host
  <2> QED BY <2>1, <2>2, <1>BesideLinked
<1>5. CASE StandingLost \/ ConnectionLost
  <2> USE <1>5
  <2>1. UNCHANGED <<tx, rx, slot, worker, disk, toHost, toSender>>
    BY DEF StandingLost, ConnectionLost, lane
  <2>2. permit' = permit \/ permit' = FALSE
    BY DEF StandingLost, ConnectionLost, Revoke, Approved
  <2>3. permit' \in BOOLEAN /\ (permit' => permit)
    <3>1. CASE permit' = permit BY <3>1
    <3>2. CASE permit' = FALSE BY <3>2
    <3> QED BY <2>2, <3>1, <3>2
  <2> QED BY <2>1, <2>3, <1>RevokedPromise
<1>6. CASE Crash BY <1>6, <1>CrashPromise
<1>7. CASE LocalFile BY <1>7, <1>LocalPromise
<1>8. CASE UNCHANGED vars
  <2>1. UNCHANGED <<tx, rx, slot, worker, disk, toHost, toSender>> /\ permit' = permit
    BY <1>8 DEF vars
  <2> QED BY <2>1, <1>RevokedPromise
<1> QED BY <1>1, <1>2, <1>3, <1>4, <1>5, <1>6, <1>7, <1>8 DEF Next

LEMMA PromiseInvariant == Spec => [](LaneInv /\ PromiseInv)
<1>1. Init => LaneInv /\ PromiseInv BY LaneInit, PromiseInit
<1>2. LaneInv /\ PromiseInv /\ [Next]_vars => (LaneInv /\ PromiseInv)'
  BY LaneStep, PromiseStep
<1> QED BY <1>1, <1>2, PTL DEF Spec

-----------------------------------------------------------------------------
(* The lane implements the promise.                                        *)

\* What an observer of the promise sees of the lane.
Seen == <<[f \in Files |-> Whereabouts(f)], Locals(disk), tx.receipts>>

LEMMA WhereFacts ==
    ASSUME Ordered, NEW f \in Files
    PROVE  /\ Whereabouts(f) = "no" <=> Fresh(f)
           /\ Whereabouts(f) = "lost" <=> Placed(disk, f) = {} /\ f \in disk.lost
           /\ Whereabouts(f) = "durable" <=> Durably(f)
           /\ Whereabouts(f) \in {"no", "lost", "placed", "durable"}
<1>1. \A m, n \in Placed(disk, f) : m = n BY DEF Ordered
<1> QED BY <1>1 DEF Whereabouts, Fresh, Durably

LEMMA DeliveryInit ==
    ASSUME Init
    PROVE  Delivery!Init
<1>1. Ordered BY PromiseInit DEF PromiseInv
<1>2. tx.receipts = [f \in Files |-> None] BY SMTT(30) DEF Init, S!NewSender
<1>3. disk.entry = [n \in Names |-> None] /\ disk.lost = {} BY DEF Init, EmptyDirectory
<1>4. Locals(disk) = {}
  <2>1. Local # None BY NoneAssumption, SMTT(30) DEF Local
  <2> QED BY <1>3, <2>1 DEF Locals
<1>5. ASSUME NEW f \in Files PROVE Whereabouts(f) = "no"
  <2>1. f # None BY FilesAreNumbers
  <2>2. Fresh(f) BY <1>3, <2>1 DEF Fresh, Placed
  <2> QED BY <1>1, <2>2, WhereFacts
<1>6. [f \in Files |-> Whereabouts(f)] = [f \in Files |-> "no"] BY <1>5
<1> QED BY <1>2, <1>4, <1>6 DEF Delivery!Init

LEMMA DeliveryStep ==
    ASSUME LaneInv, LaneInv', PromiseInv, PromiseInv', [Next]_vars
    PROVE  [Delivery!Next]_Seen

<1>WhereNext.
    ASSUME Ordered', NEW f \in Files
    PROVE  /\ Whereabouts(f)' = "no" <=> Fresh(f)'
           /\ Whereabouts(f)' = "lost" <=> Placed(disk', f) = {} /\ f \in disk'.lost
           /\ Whereabouts(f)' = "durable" <=> Durably(f)'
           /\ Whereabouts(f)' \in {"no", "lost", "placed", "durable"}
  <2> USE <1>WhereNext
  <2>1. \A m, n \in Placed(disk', f) : m = n BY DEF Ordered
  <2> QED BY <2>1 DEF Whereabouts, Fresh, Durably

\* Where nothing is published, synced or lost, a file stays what it was.
<1>SameWhere.
    ASSUME Ordered, Ordered', NEW f \in Files, Fresh(f)' <=> Fresh(f), Durably(f)' <=> Durably(f),
           disk'.lost = disk.lost, Placed(disk', f) = Placed(disk, f)
    PROVE  Whereabouts(f)' = Whereabouts(f)
  <2> USE <1>SameWhere
  <2>1. \/ Whereabouts(f) = "no" /\ Whereabouts(f)' = "no"
        \/ Whereabouts(f) = "lost" /\ Whereabouts(f)' = "lost"
        \/ Whereabouts(f) = "durable" /\ Whereabouts(f)' = "durable"
        \/ Whereabouts(f) = "placed" /\ Whereabouts(f)' = "placed"
    BY WhereFacts, <1>WhereNext
  <2> QED BY <2>1, SMTT(30)

<1>SameShelfSeen.
    ASSUME PromiseInv, PromiseInv', SameShelf, tx'.receipts = tx.receipts
    PROVE  UNCHANGED Seen
  <2> USE <1>SameShelfSeen
  <2>1. Ordered /\ Ordered' BY DEF PromiseInv
  <2>2. disk'.entry = disk.entry /\ disk'.lost = disk.lost /\ disk'.synced = disk.synced
    BY DEF SameShelf
  <2> USE <2>2
  <2>3. Locals(disk)' = Locals(disk) BY ShelfFacts
  <2>4. ASSUME NEW f \in Files PROVE Whereabouts(f)' = Whereabouts(f)
    <3>1. (Fresh(f)' <=> Fresh(f)) /\ (Durably(f)' <=> Durably(f)) /\ Placed(disk', f) = Placed(disk, f)
      BY ShelfFacts DEF Placed
    <3> QED BY <2>1, <3>1, <1>SameWhere
  <2>5. [f \in Files |-> Whereabouts(f)]' = [f \in Files |-> Whereabouts(f)] BY <2>4
  <2> QED BY <2>3, <2>5 DEF Seen

\* A publication.
<1>PlaceStep.
    ASSUME LaneInv, PromiseInv, PromiseInv', tx' = tx, Publishes
    PROVE  \E f \in Files : Delivery!Place(f)
  <2> USE <1>PlaceStep
  <2> DEFINE a == worker.active
             f == a.file
             n == Target(a)
  <2>0. /\ worker.pc = "publish" /\ worker.pc \in Executing \ {"begin", "placed"}
        /\ worker.pc \in PastClock /\ worker.pc \in PastPermit
    BY DEF Publishes, Executing, PastClock, PastPermit
  <2>1. /\ Owned.slot = slot /\ slot.st = "Executing" /\ disk \in DirectoryType
        /\ Fresh(f) /\ slot.file = f /\ slot.op = "complete" /\ a \in Pendings /\ f \in Files
        /\ Ordered /\ a # None
    BY <2>0, AtDisk
  <2> USE <2>1
  <2>2. disk' = Publish(disk, a) /\ disk.entry[n] = None BY DEF Publishes, Occupied
  <2> USE <2>2
  <2>3. /\ n \in Names /\ disk'.entry = [disk.entry EXCEPT ![n] = f]
        /\ disk'.synced = disk.synced /\ disk'.lost = disk.lost
    BY PublishDisk
  <2> USE <2>3
  <2>4. Ordered' /\ Relied(tx, Owned) /\ Told(tx, Owned) BY DEF PromiseInv, Linked
  <2> USE <2>4
  <2>5. PICK x \in Files : x = f OBVIOUS
  <2> USE <2>5
  <2>6. /\ \A e \in Files \cup {Local} : e # x => Placed(disk, e)' = Placed(disk, e)
        /\ Placed(disk, x)' = Placed(disk, x) \cup {n}
    <3> HIDE DEF n, a
    <3> QED BY EntryFacts, SMTT(30)
  <2> USE <2>6
  <2>7. TurnOf(tx, x) BY DEF Relied
  <2>8. Truth(Owned, x, tx.receipts[x]) BY DEF Told
  <2>9. tx.receipts[x] \in S!Outcomes \cup {None}
    BY DEF LaneInv, Fit, Loose, S!SenderType
  <2>10. Fresh(x) /\ ~ Durably(x) BY DEF Fresh, Durably
  <2>11. ~ Barred(Owned) /\ ~ Undone(Owned, x) BY <2>0 DEF Barred, Undone
  <2>12. tx.receipts[x] \in {None, "Unknown"}
    BY <2>8, <2>9, <2>10, <2>11 DEF Truth, S!Outcomes
  <2>13. Whereabouts(x) = "no" BY <2>10, WhereFacts
  <2>14. Whereabouts(x)' = "placed"
    <3>1. n \notin disk.synced BY DEF Ordered
    <3>2. n \in Placed(disk', x) OBVIOUS
    <3> USE <3>2
    <3>3. ~ Durably(x)' BY <3>1 DEF Durably
    <3>4. ~ Fresh(x)' BY DEF Fresh
    <3> QED BY <3>3, <3>4, <1>WhereNext
  <2>15. \A e \in Files : e # x => Whereabouts(e)' = Whereabouts(e)
    <3> SUFFICES ASSUME NEW e \in Files, e # x PROVE Whereabouts(e)' = Whereabouts(e) OBVIOUS
    <3>1. Placed(disk', e) = Placed(disk, e) OBVIOUS
    <3>2. (Fresh(e)' <=> Fresh(e)) /\ (Durably(e)' <=> Durably(e))
      BY <3>1 DEF Fresh, Durably
    <3> QED BY <3>1, <3>2, <1>SameWhere
  <2>16. Locals(disk)' = Locals(disk)
    <3>1. Local # x BY FilesAreNumbers
    <3>2. Placed(disk, Local)' = Placed(disk, Local) BY <3>1
    <3> QED BY <3>2 DEF Locals, Placed
  <2>17. [e \in Files |-> Whereabouts(e)]'
           = [[e \in Files |-> Whereabouts(e)] EXCEPT ![x] = "placed"]
    BY <2>14, <2>15
  <2>18. Delivery!Place(x)
    BY <2>7, <2>12, <2>13, <2>16, <2>17 DEF Delivery!Place, Delivery!Turn, TurnOf
  <2> QED BY <2>18

\* The directory has been synced, or has not.
<1>SyncStep.
    ASSUME LaneInv, PromiseInv, PromiseInv', tx' = tx, Syncs
    PROVE  Delivery!Sync \/ UNCHANGED Seen
  <2> USE <1>SyncStep
  <2>1. Ordered /\ Ordered' BY DEF PromiseInv
  <2> USE <2>1
  <2>2. /\ disk'.entry = disk.entry /\ disk'.lost = disk.lost
        /\ \/ disk'.synced = {n \in Names : disk.entry[n] # None}
           \/ disk'.synced = disk.synced
    BY DEF Syncs
  <2> USE <2>2
  <2>3. CASE disk'.synced = disk.synced BY <2>3, <1>SameShelfSeen DEF SameShelf
  <2>4. CASE disk'.synced = {n \in Names : disk.entry[n] # None}
    <3>1. Locals(disk)' = Locals(disk) /\ \A f : Placed(disk', f) = Placed(disk, f)
      BY ShelfFacts DEF Placed
    <3> USE <3>1
    <3>2. ASSUME NEW f \in Files
          PROVE  Whereabouts(f)' = IF Whereabouts(f) = "placed" THEN "durable" ELSE Whereabouts(f)
      <4>1. f # None BY FilesAreNumbers
      <4>2. Placed(disk', f) \subseteq disk'.synced BY <2>4, <4>1 DEF Placed
      <4>3. Fresh(f)' <=> Fresh(f) BY DEF Fresh
      <4>4. Durably(f)' <=> Placed(disk, f) # {} BY <4>2 DEF Durably
      <4>5. CASE Placed(disk, f) = {}
        <5> USE <4>5
        <5>1. ~ Durably(f) /\ ~ Durably(f)' BY <4>4 DEF Durably
        <5>2. Whereabouts(f)' = Whereabouts(f) BY <4>3, <5>1, <1>SameWhere
        <5>3. Whereabouts(f) # "placed" BY DEF Whereabouts
        <5> QED BY <5>2, <5>3
      <4>6. CASE Placed(disk, f) # {}
        <5> USE <4>6
        <5>1. Whereabouts(f)' = "durable" BY <4>4, <1>WhereNext
        <5>2. Whereabouts(f) \in {"placed", "durable"} BY WhereFacts DEF Fresh
        <5> QED BY <5>1, <5>2
      <4> QED BY <4>5, <4>6
    <3>3. CASE \E f \in Files : Whereabouts(f) = "placed"
      <4>1. [f \in Files |-> Whereabouts(f)]'
              = [f \in Files |-> IF [e \in Files |-> Whereabouts(e)][f] = "placed" THEN "durable"
                                 ELSE [e \in Files |-> Whereabouts(e)][f]]
        BY <3>2
      <4>2. \E f \in Files : [e \in Files |-> Whereabouts(e)][f] = "placed" BY <3>3
      <4> QED BY <4>1, <4>2 DEF Delivery!Sync
    <3>4. CASE ~ \E f \in Files : Whereabouts(f) = "placed"
      <4>1. [f \in Files |-> Whereabouts(f)]' = [f \in Files |-> Whereabouts(f)] BY <3>2, <3>4
      <4> QED BY <4>1 DEF Seen
    <3> QED BY <3>3, <3>4
  <2> QED BY <2>3, <2>4

\* A power failure.
<1>LoseStep.
    ASSUME LaneInv, PromiseInv, PromiseInv', Crash
    PROVE  (\E lost \in SUBSET Files : Delivery!Lose(lost)) \/ UNCHANGED Seen
  <2> USE <1>LoseStep
  <2>1. Ordered /\ Ordered' BY DEF PromiseInv
  <2> USE <2>1
  <2>2. PICK gone \in SUBSET Unsynced(disk) :
          /\ disk'.entry = [n \in Names |-> IF n \in gone THEN None ELSE disk.entry[n]]
          /\ disk'.lost = {disk.entry[n] : n \in gone} /\ disk'.synced = disk.synced
    BY CrashFacts DEF LaneInv
  <2> USE <2>2
  <2>3. worker.pc # "dead" /\ tx' = tx BY DEF Crash
  <2> USE <2>3
  <2>4. disk.lost = {} BY DEF Ordered
  <2> USE <2>4
  <2>5. gone \subseteq Names /\ gone \cap disk.synced = {} BY DEF Unsynced
  <2> USE <2>5
  <2>6. \A f \in Files \cup {Local} : Placed(disk', f) = Placed(disk, f) \ gone
    <3>1. \A f \in Files \cup {Local} : f # None BY FilesAreNumbers, NoneAssumption, SMTT(30) DEF Local
    <3> QED BY <3>1 DEF Placed
  <2>7. \A f : f \in disk'.lost <=> Placed(disk, f) \cap gone # {} BY DEF Placed
  <2>8. Locals(disk)' = Locals(disk)
    <3>1. Placed(disk', Local) = Locals(disk) \ gone BY <2>6 DEF Locals, Placed
    <3>2. Locals(disk) \cap gone = {} BY DEF Ordered
    <3>3. Locals(disk)' = Placed(disk', Local) BY DEF Locals, Placed
    <3> QED BY <3>1, <3>2, <3>3
  <2> DEFINE L == {f \in Files : f \in disk'.lost}
  <2>9. ASSUME NEW f \in Files, f \notin disk'.lost PROVE Whereabouts(f)' = Whereabouts(f)
    <3> USE <2>9
    <3>1. Placed(disk, f) \cap gone = {} BY <2>7
    <3>2. Placed(disk', f) = Placed(disk, f) BY <2>6, <3>1
    <3>3. Durably(f)' <=> Durably(f) BY <3>2 DEF Durably
    <3>4. Fresh(f)' <=> Fresh(f) BY <3>2 DEF Fresh
    <3>5. Whereabouts(f) # "lost" /\ Whereabouts(f)' # "lost" BY WhereFacts, <1>WhereNext
    <3>6. /\ (Whereabouts(f)' = "no" <=> Fresh(f)') /\ (Whereabouts(f)' = "durable" <=> Durably(f)')
          /\ Whereabouts(f)' \in {"no", "lost", "placed", "durable"}
      BY <1>WhereNext
    <3>7. /\ (Whereabouts(f) = "no" <=> Fresh(f)) /\ (Whereabouts(f) = "durable" <=> Durably(f))
          /\ Whereabouts(f) \in {"no", "lost", "placed", "durable"}
      BY WhereFacts
    <3> QED BY <3>3, <3>4, <3>5, <3>6, <3>7
  <2>10. ASSUME NEW f \in Files, f \in disk'.lost
         PROVE  Whereabouts(f) = "placed" /\ Whereabouts(f)' = "lost"
    <3> USE <2>10
    <3>1. Placed(disk, f) \cap gone # {} BY <2>7
    <3>2. ~ Durably(f) /\ ~ Fresh(f) BY <3>1 DEF Durably, Fresh
    <3>3. Whereabouts(f) # "lost" BY WhereFacts
    <3>4. Whereabouts(f) = "placed" BY <3>2, <3>3, WhereFacts
    <3>5. Placed(disk', f) = {} BY DEF Ordered
    <3>6. Whereabouts(f)' = "lost" BY <3>5, <1>WhereNext
    <3> QED BY <3>4, <3>6
  <2>11. CASE L = {}
    <3>1. \A f \in Files : Whereabouts(f)' = Whereabouts(f) BY <2>9, <2>11
    <3>2. [f \in Files |-> Whereabouts(f)]' = [f \in Files |-> Whereabouts(f)] BY <3>1
    <3> QED BY <2>8, <3>2 DEF Seen
  <2>12. CASE L # {}
    <3>1. PICK M \in SUBSET Files : M = L OBVIOUS
    <3>2. M # {} /\ \A f \in Files : f \in M <=> f \in disk'.lost BY <2>12, <3>1
    <3> USE <3>2
    <3>3. \A f \in M : [e \in Files |-> Whereabouts(e)][f] = "placed" BY <2>10
    <3>4. \A f \in Files : Whereabouts(f)' = IF f \in M THEN "lost" ELSE Whereabouts(f)
      BY <2>9, <2>10
    <3>5. [f \in Files |-> Whereabouts(f)]'
            = [f \in Files |-> IF f \in M THEN "lost" ELSE [e \in Files |-> Whereabouts(e)][f]]
      BY <3>4
    <3>6. Delivery!Lose(M) BY <2>8, <3>3, <3>5 DEF Delivery!Lose
    <3> QED BY <3>6
  <2> QED BY <2>11, <2>12

\* Another program's file.
<1>OccupyStep.
    ASSUME LaneInv, PromiseInv, PromiseInv', LocalFile
    PROVE  Delivery!Occupy
  <2> USE <1>OccupyStep
  <2>1. HostInv /\ Fit(tx) /\ Ordered /\ Ordered' /\ disk \in DirectoryType
    BY DEF LaneInv, HostInv, PromiseInv
  <2> USE <2>1
  <2>2. tx' = tx BY LocalFacts
  <2>3. PICK n \in Names : /\ disk.entry[n] = None
                           /\ disk'.entry = [disk.entry EXCEPT ![n] = Local]
                           /\ disk'.synced = disk.synced \cup {n}
                           /\ disk'.lost = disk.lost
    BY LocalFacts
  <2> USE <2>3
  <2>4. /\ \A f \in Files \cup {Local} : f # Local => Placed(disk, f)' = Placed(disk, f)
        /\ Placed(disk, Local)' = Placed(disk, Local) \cup {n}
    BY EntryFacts
  <2>5. ASSUME NEW f \in Files PROVE Whereabouts(f)' = Whereabouts(f)
    <3>1. f # Local /\ f # None BY FilesAreNumbers
    <3>2. Placed(disk', f) = Placed(disk, f) BY <2>4, <3>1
    <3>3. n \notin Placed(disk, f) BY <3>1 DEF Placed
    <3>4. (Durably(f)' <=> Durably(f)) /\ (Fresh(f)' <=> Fresh(f))
      BY <3>2, <3>3 DEF Durably, Fresh
    <3> QED BY <3>2, <3>4, <1>SameWhere
  <2>6. [f \in Files |-> Whereabouts(f)]' = [f \in Files |-> Whereabouts(f)] BY <2>5
  <2>7. Locals(disk)' = Locals(disk) \cup {n} BY <2>4 DEF Locals, Placed
  <2>8. n \notin Locals(disk)
    <3>1. Local # None BY NoneAssumption, SMTT(30) DEF Local
    <3> QED BY <3>1 DEF Locals
  <2>9. \E m \in Locals(disk)' \ Locals(disk) : m \in Names /\ Locals(disk)' = Locals(disk) \cup {m}
    BY <2>7, <2>8
  <2> QED BY <2>2, <2>6, <2>9 DEF Delivery!Occupy

\* Until it ends, a turn of the sender tells nothing.
<1>ChainUntold.
    ASSUME Fit(tx), toSender \in Seq(Replies), NEW s, NEW h, NEW u, Chain(s, h, u)
    PROVE  Loose(u) /\ u.receipts = tx.receipts
  <2> USE <1>ChainUntold
  <2>1. Fit(s) /\ s.receipts = tx.receipts
    <3>1. CASE s = tx BY <3>1
    <3>2. CASE S!Starts(tx) /\ s = S!Started(tx) BY <3>2, StartedFacts
    <3> QED BY <3>1, <3>2 DEF Chain
  <2> USE <2>1
  <2>2. Loose(h) /\ h.receipts = tx.receipts
    <3>1. CASE h = s BY <3>1 DEF Fit
    <3>2. CASE toSender # << >> /\ ~ S!Unexpected(s.transfer, Head(toSender))
               /\ h = S!Heard(s, Head(toSender))
      <4> USE <3>2
      <4>1. Head(toSender) \in Replies BY SMTT(30)
      <4>2. Loose(h) /\ Keeps(s, h) BY <4>1, HeardFacts
      <4> QED BY <4>2 DEF Keeps
    <3> QED BY <3>1, <3>2 DEF Chain
  <2>3. CASE u = h BY <2>2, <2>3
  <2>4. CASE Still(h, u) BY <2>2, <2>4 DEF Still, Keeps, Fit
  <2> QED BY <2>3, <2>4 DEF Chain, Sent

\* What is told of a file is one of the outcomes that its whereabouts allow.
<1>TruthAllows.
    ASSUME Ordered, NEW f \in Files, NEW h, NEW o \in S!Outcomes, Truth(h, f, o)
    PROVE  o \in Delivery!Outcomes(f)
  <2> USE <1>TruthAllows
  <2>1. /\ o = "Durable" => [e \in Files |-> Whereabouts(e)][f] = "durable"
        /\ o = "DurabilityUnknown" => [e \in Files |-> Whereabouts(e)][f] # "no"
        /\ o \in {"Refused", "Interrupted"} => [e \in Files |-> Whereabouts(e)][f] = "no"
    BY WhereFacts DEF Truth, Undone
  <2>2. o \in {"Durable", "DurabilityUnknown", "Refused", "Interrupted", "Unknown"}
    BY DEF S!Outcomes
  <2> QED BY <2>1, <2>2 DEF Delivery!Outcomes

\* A turn of the sender, which tells at most one receipt.
<1>TellStep.
    ASSUME LaneInv, PromiseInv, PromiseInv', Fit(tx)', UNCHANGED host,
           NEW s, NEW h, NEW u, Chain(s, h, u)
    PROVE  (\E f \in Files : Delivery!Tell(f)) \/ UNCHANGED Seen
  <2> USE <1>TellStep
  <2>1. Fit(tx) /\ toSender \in Seq(Replies) /\ Ordered /\ Ordered'
    BY OwnedParts DEF LaneInv, HostInv, PromiseInv
  <2> USE <2>1
  <2>2. Loose(u) /\ u.receipts = tx.receipts BY <1>ChainUntold
  <2> USE <2>2
  <2>3. disk' = disk /\ SameShelf BY DEF host, SameShelf
  <2> USE <2>3
  <2>4. CASE tx'.receipts = tx.receipts BY <2>4, <1>SameShelfSeen
  <2>5. CASE Ends(u, tx') /\ u.transfer # None
    <3> USE <2>5
    <3> DEFINE t == u.transfer
               o == Outcome(t)
    <3>1. PICK f \in Files : f = t.file BY DEF Loose, S!SenderType, S!Transfers
    <3>2. tx'.receipts = [tx.receipts EXCEPT ![f] = o] BY <3>1 DEF Ends
    <3> USE <3>2
    <3>3. tx.receipts \in [Files -> S!Outcomes \cup {None}] /\ tx'.receipts \in [Files -> S!Outcomes \cup {None}]
      BY DEF Fit, Loose, S!SenderType
    <3> USE <3>3
    <3>4. o # None /\ (t.result # None => o = t.result) BY OutcomeFacts
    <3> HIDE DEF o
    <3>5. tx'.receipts[f] = o OBVIOUS
    <3> USE <3>5
    <3>6. /\ \A g \in Files : g < f => tx.receipts[g] = "Durable"
          /\ tx.receipts[f] = IF u.recorded THEN t.result ELSE None
          /\ u.recorded => t.result # None
      BY <3>1 DEF Loose, Selected
    <3> USE <3>6
    <3>7. CASE u.recorded
      <4>1. tx.receipts[f] = o BY <3>4, <3>7
      <4>2. tx'.receipts = tx.receipts BY <4>1
      <4> QED BY <2>4, <4>2
    <3>8. CASE ~ u.recorded
      <4>1. tx.receipts[f] = None BY <3>8
      <4>2. o \in S!Outcomes BY <3>4
      <4>3. Told(tx, Owned)' BY DEF PromiseInv
      <4>4. (\A e \in Files : Truth(Owned, e, tx.receipts[e]))' BY <4>3 DEF Told
      <4>5. Truth(Owned', f, o)
        <5>1. Truth(Owned', f, tx'.receipts[f])
          BY <4>4 DEF Truth, Durably, Fresh, Undone, Barred, host
        <5> QED BY <5>1
      <4>6. o \in Delivery!Outcomes(f) BY <4>2, <4>5, <1>TruthAllows
      <4>7. [e \in Files |-> Whereabouts(e)]' = [e \in Files |-> Whereabouts(e)]
            /\ Locals(disk)' = Locals(disk)
        BY DEF Whereabouts, Locals
      <4>8. Delivery!Tell(f)
        BY <4>1, <4>6, <4>7 DEF Delivery!Tell, Delivery!Turn
      <4> QED BY <4>8
    <3> QED BY <3>7, <3>8
  <2>6. CASE Ends(u, tx') /\ u.transfer = None BY <2>4, <2>6 DEF Ends
  <2> QED BY <2>4, <2>5, <2>6 DEF Chain

<1>0. HostInv /\ Fit(tx) /\ Fit(tx)' /\ HostOK(Owned) /\ toSender \in Seq(Replies)
  BY OwnedParts DEF LaneInv, HostInv
<1> USE <1>0
<1>1. CASE WorkerStep \/ WorkerPanics
  <2>1. tx' = tx /\ (Moves \/ Publishes \/ Syncs \/ Stores \/ Idles)
    BY <1>1, WorkerFacts
  <2> USE <2>1
  <2>2. CASE Publishes BY <2>2, <1>PlaceStep DEF Delivery!Next
  <2>3. CASE Syncs BY <2>3, <1>SyncStep DEF Delivery!Next
  <2>4. CASE Moves \/ Stores \/ Idles
    <3>1. SameShelf BY <2>4 DEF Moves, Stores, Idles
    <3> QED BY <3>1, <1>SameShelfSeen
  <2> QED BY <2>2, <2>3, <2>4
<1>2. CASE OwnerTurn \/ OwnerCollects \/ OwnerStops
  <2>1. tx' = tx /\ disk' = disk BY <1>2, OwnerShape DEF Left
  <2> QED BY <2>1, <1>SameShelfSeen DEF SameShelf
<1>3. CASE SenderTurn \/ SenderCancels
  <2> USE <1>3
  <2>1. \E s, h, u : Chain(s, h, u) BY TurnShape
  <2>2. UNCHANGED host BY DEF SenderTurn, SenderCancels
  <2> QED BY <2>1, <2>2, <1>TellStep DEF Delivery!Next
<1>4. CASE SenderPauses \/ SourceStep \/ Late
  <2> USE <1>4
  <2>1. tx'.receipts = tx.receipts BY BesideFacts DEF Beside, Keeps
  <2>2. disk' = disk BY DEF SenderPauses, SourceStep, Late, lane, host
  <2> QED BY <2>1, <2>2, <1>SameShelfSeen DEF SameShelf
<1>5. CASE StandingLost \/ ConnectionLost
  <2>1. tx' = tx /\ disk' = disk BY <1>5 DEF StandingLost, ConnectionLost, lane
  <2> QED BY <2>1, <1>SameShelfSeen DEF SameShelf
<1>6. CASE Crash BY <1>6, <1>LoseStep DEF Delivery!Next
<1>7. CASE LocalFile BY <1>7, <1>OccupyStep DEF Delivery!Next
<1>8. CASE UNCHANGED vars
  <2>1. tx' = tx /\ disk' = disk BY <1>8 DEF vars
  <2> QED BY <2>1, <1>SameShelfSeen DEF SameShelf
<1> QED BY <1>1, <1>2, <1>3, <1>4, <1>5, <1>6, <1>7, <1>8 DEF Next

\* The file lane as built implements the promise of FileDelivery, whatever fails and in
\* whatever order the threads run: every file of a selection is published at most once,
\* in order and only after the one before it is known to be durable, no publication
\* replaces another program's file, and the one receipt that the sender's report gives
\* of a file (Report, crates/fr-files/src/sender/batch.rs) is true of the directory
\* when it is given and stays true.
THEOREM PromiseIsKept == Spec => ImplementsFileDelivery
<1>1. Init => Delivery!Init BY DeliveryInit
<1>2. /\ LaneInv /\ LaneInv' /\ PromiseInv /\ PromiseInv' /\ [Next]_vars
      => [Delivery!Next]_<<[f \in Files |-> Whereabouts(f)], Locals(disk), tx.receipts>>
  BY DeliveryStep DEF Seen
<1>3. Spec => [](LaneInv /\ PromiseInv) BY PromiseInvariant
<1> QED BY <1>1, <1>2, <1>3, PTL DEF Spec, ImplementsFileDelivery, Delivery!Spec

=============================================================================
