--------------------------- MODULE InputAgentProofs ---------------------------
(***************************************************************************)
(* The safety of the seat and its owners, for any number of owners, of     *)
(* barriers and of commands.                                               *)
(*                                                                         *)
(* The inductive invariant adds to the properties what the code keeps true *)
(* between its locks: a thread exists exactly after its broker spawned it  *)
(* (Paired), an exit that would allow handoff tells the truth (Truthful),  *)
(* the seat counts its barriers (Counted), an owner that still runs is the *)
(* seat's active one and every barrier is about to stop it (Watched), and  *)
(* a reservation is no newer than the seat (Dated).                        *)
(***************************************************************************)
EXTENDS InputAgent, FiniteSetTheorems, TLAPS

\* A leaf goes to Zenon, which knows sets, functions and records; one that needs
\* arithmetic or sequences names SMT.
USE ZenonT(60)

Live == {"installed", "spawned", "started"}
Taking == {"none", "factory", "check", "take", "decide", "prepare", "submit", "fence", "answer"}
Ending == {"refused", "publish", "wait", "destroy", "final", "finish", "finished"}

\* A thread exists exactly after its broker spawned it.
Paired ==
    \A o \in Owners : (native[o].pc # "none") <=> (broker[o].pc \in {"spawned", "started"})

\* What one thread holds, against where it is.
TruthfulThread(r, stopped) ==
    /\ r.pc \in {"none", "factory", "refused"} => ~ r.held /\ ~ r.dirty
    /\ r.pc \in Ending /\ HandoffSafe(r.exit) => ~ r.held /\ ~ r.dirty
    /\ r.pc \in {"finish", "finished"} => stopped

Truthful == \A o \in Owners : TruthfulThread(native[o], revoked[o])

\* The barriers that are up.
Up == {g \in Guards : guard[g].pc # "none"}

\* The seat counts its barriers.
Counted == seat.inhibitors = Cardinality(Up)

\* An owner that was installed and is not stopped is the seat's active one,
\* and every barrier that is up is on its way to stop it.
Watched ==
    \A o \in Owners : broker[o].pc \in Live /\ ~ revoked[o] =>
        /\ seat.active = o
        /\ \A g \in Up : guard[g].pc = "stopping" /\ guard[g].stops = o

\* A reservation is as old as the seat, and older if a barrier overlapped it.
Dated ==
    \A o \in Owners : broker[o].pc = "reserved" =>
        /\ broker[o].epoch <= seat.epoch
        /\ o \in overlapped => broker[o].epoch < seat.epoch

-----------------------------------------------------------------------------
(* Types.                                                                  *)

\* A command's number.
LEMMA CommandNumbers ==
    /\ Commands \subseteq Nat
    /\ None \notin Commands
    /\ \A n \in 0..MaxCommands : n < MaxCommands => n + 1 \in Commands /\ n + 1 \in 0..MaxCommands
  BY AgentAssumption, SMTT(30) DEF Commands

\* A number past all those used is used by none of them.
LEMMA NextNumber ==
    ASSUME NEW S \in SUBSET Nat, NEW m \in Nat, \A n \in S : n <= m
    PROVE  m + 1 # 0 /\ m + 1 \notin S /\ \A n \in S : n <= m + 1
  BY SMTT(30)

\* What is published is a value of its type, and never taken for nothing.
LEMMA Values ==
    /\ CleanExit \in Exits /\ CleanExit # None
    /\ PanickedExit \in Exits /\ PanickedExit # None
    /\ \A x, y \in BOOLEAN :
          LET c == [remaining |-> x, native_clean |-> y] IN
          /\ c # None
          /\ [cleanup |-> c, panicked |-> FALSE] \in Exits
          /\ [cleanup |-> c, panicked |-> FALSE] # None
    /\ \A n \in Commands, k \in Replies :
          [n |-> n, kind |-> k] \in [n : Commands, kind : Replies] /\ [n |-> n, kind |-> k] # None
<1>1. \A x, y \in BOOLEAN :
          LET c == [remaining |-> x, native_clean |-> y] IN
          c \in Cleanups /\ c # None
  BY AgentAssumption, SMTT(30) DEF Cleanups
<1> USE <1>1
<1>2. CleanExit \in Exits /\ PanickedExit \in Exits
  BY DEF CleanExit, PanickedExit, Exits
<1>3. \A x, y \in BOOLEAN :
          LET c == [remaining |-> x, native_clean |-> y] IN
          [cleanup |-> c, panicked |-> FALSE] \in Exits
  BY DEF Exits
<1>4. \A n \in Commands, k \in Replies : [n |-> n, kind |-> k] \in [n : Commands, kind : Replies]
  OBVIOUS
<1> QED
  BY <1>2, <1>3, <1>4, AgentAssumption BoxType == [command : Commands \cup {None},
     reply : [n : Commands, kind : Replies] \cup {None}, outstanding : BOOLEAN, phase :
     {"Starting", "Running", "Cleaning", "Finished"}, abandoned : BOOLEAN, retry_cleanup :
     BOOLEAN, cleanup : Cleanups \cup {None}, exit : Exits \cup {None}]

NativeType ==
    [pc : NativeSteps, taken : Commands \cup {None}, result : Replies \cup {None},
     exit : Exits \cup {None}, held : BOOLEAN, dirty : BOOLEAN,
     executed : SUBSET Commands, panicked : BOOLEAN]

HandleType ==
    [agent : {"none", "live", "dropping", "gone"},
     driver : {"none", "live", "dropping", "gone", "done"},
     sent : 0..MaxCommands, report : Exits \cup {None}]

Typed ==
    /\ seat \in SeatType
    /\ guard \in [Guards -> [pc : {"none", "stopping", "held"}, stops : Owners \cup {None}]]
    /\ broker \in [Owners -> [pc : BrokerSteps, epoch : Epochs]]
    /\ revoked \in [Owners -> BOOLEAN]
    /\ box \in [Owners -> BoxType]
    /\ native \in [Owners -> NativeType]
    /\ handle \in [Owners -> HandleType]
    /\ overlapped \in SUBSET Owners

LEMMA TypedIsTypeOK == TypeOK <=> Typed
  BY DEF TypeOK, Typed, BoxType, NativeType, HandleType

\* One owner's mailbox, thread and handles.
MailRec(b, r, h) ==
    /\ b.outstanding => h.sent # 0
    /\ r.pc \in Taking /\ b.command # None =>
          /\ b.outstanding /\ b.command = h.sent /\ b.reply = None
          /\ r.taken = None /\ b.command \notin r.executed
    /\ r.taken # None =>
          /\ b.outstanding /\ r.taken = h.sent /\ b.reply = None /\ b.command = None
          /\ r.pc \in {"decide", "prepare", "submit", "fence", "answer"}
    /\ r.taken # None /\ r.pc = "decide" => r.taken \notin r.executed
    /\ r.pc \in {"prepare", "submit", "fence", "answer"} => r.taken # None
    /\ r.pc \in {"fence", "answer"} => r.result # None /\ r.result # "CancelledBeforeStart"
    /\ r.pc \in Ending => r.exit # None
    /\ r.pc = "publish" => r.exit.cleanup # None
    /\ b.reply # None =>
          /\ b.outstanding /\ b.reply.n = h.sent
          /\ b.reply.kind = "CancelledBeforeStart" => h.sent \notin r.executed
    /\ \A n \in r.executed : n <= h.sent
    /\ r.pc = "finished" <=> b.phase = "Finished"
    /\ r.pc = "finished" <=> b.exit # None
    /\ r.pc = "finished" /\ b.outstanding => b.reply # None
    /\ b.exit # None => b.exit = r.exit
    /\ h.report # None => r.pc = "finished" /\ h.report = r.exit

Mail == \A o \in Owners : MailRec(box[o], native[o], handle[o])

\* It is read off these fields of the mailbox and of the handles.
LEMMA MailAlike ==
    ASSUME NEW b, NEW r, NEW h, NEW c, NEW k, MailRec(b, r, h),
           k.sent = h.sent, k.report = h.report,
           c.outstanding = b.outstanding, c.command = b.command, c.reply = b.reply,
           c.phase = b.phase, c.exit = b.exit
    PROVE  MailRec(c, r, k)
  BY DEF MailRec

-----------------------------------------------------------------------------
(* The thread's steps, one owner's records at a time.                      *)

\* What a step of one owner does to the records of the others: nothing.
Only(o) ==
    /\ box' = [box EXCEPT ![o] = box'[o]]
    /\ native' = [native EXCEPT ![o] = native'[o]]
    /\ handle' = [handle EXCEPT ![o] = handle'[o]]

Good(o) ==
    /\ box'[o] \in BoxType
    /\ native'[o] \in NativeType
    /\ handle'[o] \in HandleType
    /\ MailRec(box'[o], native'[o], handle'[o])

LEMMA FactoryBuildsGood ==
    ASSUME Typed, Mail, NEW o \in Owners, FactoryBuilds(o)
    PROVE  Only(o) /\ Good(o)
<1> DEFINE b == box[o]
           r == native[o]
           h == handle[o]
<1>0. b \in BoxType /\ r \in NativeType /\ h \in HandleType /\ MailRec(b, r, h)
  BY DEF Typed, Mail
<1> USE <1>0
<1>1. r.pc = "factory"
  BY DEF FactoryBuilds, At
<1>p. PICK dirty \in BOOLEAN :
           native' = [native EXCEPT ![o].pc = "check", ![o].dirty = dirty]
  BY DEF FactoryBuilds, NativeType
<1>2. /\ native'[o] = [r EXCEPT !.pc = "check", !.dirty = dirty]
      /\ box'[o] = [b EXCEPT !.phase = "Running"]
      /\ handle'[o] = h
      /\ Only(o)
  BY <1>1, <1>p DEF FactoryBuilds, Surroundings, Only, Typed, Answer, Goto
<1> USE <1>2
<1>3. native'[o] \in NativeType
  BY DEF NativeType, NativeSteps
<1>4. box'[o] \in BoxType
  BY DEF BoxType, NativeType
<1>5. MailRec(box'[o], native'[o], h)
  BY <1>1, <1>p, CommandNumbers, SMTT(30) DEF MailRec, Taking, Ending, NativeType, BoxType, HandleType
<1> QED BY <1>3, <1>4, <1>5 DEF Good

LEMMA FactoryRefusesGood ==
    ASSUME Typed, Mail, NEW o \in Owners, FactoryRefuses(o)
    PROVE  Only(o) /\ Good(o)
<1> DEFINE b == box[o]
           r == native[o]
           h == handle[o]
<1>0. b \in BoxType /\ r \in NativeType /\ h \in HandleType /\ MailRec(b, r, h)
  BY DEF Typed, Mail
<1> USE <1>0
<1>1. r.pc = "factory"
  BY DEF FactoryRefuses, At
<1>2. /\ native'[o] = [r EXCEPT !.pc = "refused", !.exit = CleanExit]
      /\ box'[o] = b
      /\ handle'[o] = h
      /\ Only(o)
  BY <1>1 DEF FactoryRefuses, Surroundings, Only, Typed, Answer, Goto
<1> USE <1>2
<1>a. CleanExit \in Exits /\ CleanExit # None
  BY Values
<1>3. native'[o] \in NativeType
  BY <1>a DEF NativeType, NativeSteps
<1>4. box'[o] \in BoxType
  OBVIOUS
<1>5. MailRec(box'[o], native'[o], h)
  BY <1>1, <1>a, CommandNumbers, SMTT(30) DEF MailRec, Taking, Ending, NativeType, BoxType, HandleType
<1> QED BY <1>3, <1>4, <1>5 DEF Good

LEMMA AnswerRefusedGood ==
    ASSUME Typed, Mail, NEW o \in Owners, AnswerRefused(o)
    PROVE  Only(o) /\ Good(o)
<1> DEFINE b == box[o]
           r == native[o]
           h == handle[o]
<1>0. b \in BoxType /\ r \in NativeType /\ h \in HandleType /\ MailRec(b, r, h)
  BY DEF Typed, Mail
<1> USE <1>0
<1>1. r.pc = "refused"
  BY DEF AnswerRefused, At
<1> USE <1>1
<1>2. CASE b.outstanding
  <2> USE <1>2
  <2>2. /\ native'[o] = [r EXCEPT !.pc = "final"]
        /\ box'[o] = [b EXCEPT !.reply = [n |-> h.sent, kind |-> "InitializationFailed"]]
        /\ handle'[o] = h
        /\ Only(o)
    BY DEF AnswerRefused, Surroundings, Only, Typed, Answer, Goto
  <2> USE <2>2
  <2>a. h.sent \in Commands
    BY SMTT(30) DEF MailRec, HandleType, Commands
  <2>b. [n |-> h.sent, kind |-> "InitializationFailed"] \in [n : Commands, kind : Replies] /\ [n |-> h.sent, kind |-> "InitializationFailed"] # None
    BY <2>a, Values DEF Replies
  <2>3. native'[o] \in NativeType
    BY <2>a, <2>b DEF NativeType, NativeSteps
  <2>4. box'[o] \in BoxType
    BY <2>a, <2>b DEF BoxType, NativeType
  <2>5. MailRec(box'[o], native'[o], h)
    BY <2>a, <2>b, CommandNumbers, SMTT(30) DEF MailRec, Taking, Ending, NativeType, BoxType,
       HandleType
  <2> QED BY <2>3, <2>4, <2>5 DEF Good
<1>3. CASE ~ b.outstanding
  <2> USE <1>3
  <2>2. /\ native'[o] = [r EXCEPT !.pc = "final"]
        /\ box'[o] = b
        /\ handle'[o] = h
        /\ Only(o)
    BY DEF AnswerRefused, Surroundings, Only, Typed, Answer, Goto
  <2> USE <2>2
  <2>3. native'[o] \in NativeType
    BY DEF NativeType, NativeSteps
  <2>4. box'[o] \in BoxType
    OBVIOUS
  <2>5. MailRec(box'[o], native'[o], h)
    BY CommandNumbers DEF MailRec, Taking, Ending, NativeType, BoxType, HandleType
  <2> QED BY <2>3, <2>4, <2>5 DEF Good
<1> QED BY <1>2, <1>3

LEMMA LoopCheckGood ==
    ASSUME Typed, Mail, NEW o \in Owners, LoopCheck(o)
    PROVE  Only(o) /\ Good(o)
<1> DEFINE b == box[o]
           r == native[o]
           h == handle[o]
<1>0. b \in BoxType /\ r \in NativeType /\ h \in HandleType /\ MailRec(b, r, h)
  BY DEF Typed, Mail
<1> USE <1>0
<1>1. r.pc = "check"
  BY DEF LoopCheck, At
<1>p. PICK held \in BOOLEAN :
           native' = [native EXCEPT ![o].pc = "take", ![o].held = held]
  BY DEF LoopCheck, NativeType
<1>2. /\ native'[o] = [r EXCEPT !.pc = "take", !.held = held]
      /\ box'[o] = b
      /\ handle'[o] = h
      /\ Only(o)
  BY <1>1, <1>p DEF LoopCheck, Surroundings, Only, Typed, Answer, Goto
<1> USE <1>2
<1>3. native'[o] \in NativeType
  BY DEF NativeType, NativeSteps
<1>4. box'[o] \in BoxType
  OBVIOUS
<1>5. MailRec(box'[o], native'[o], h)
  BY <1>1, <1>p, CommandNumbers, SMTT(30) DEF MailRec, Taking, Ending, NativeType, BoxType, HandleType
<1> QED BY <1>3, <1>4, <1>5 DEF Good

LEMMA TakeCommandGood ==
    ASSUME Typed, Mail, NEW o \in Owners, TakeCommand(o)
    PROVE  Only(o) /\ Good(o)
<1> DEFINE b == box[o]
           r == native[o]
           h == handle[o]
<1>0. b \in BoxType /\ r \in NativeType /\ h \in HandleType /\ MailRec(b, r, h)
  BY DEF Typed, Mail
<1> USE <1>0
<1>1. r.pc = "take"
  BY DEF TakeCommand, At
<1>2. /\ native'[o] = [r EXCEPT !.pc = "decide", !.taken = b.command]
      /\ box'[o] = [b EXCEPT !.command = None]
      /\ handle'[o] = h
      /\ Only(o)
  BY <1>1 DEF TakeCommand, Surroundings, Only, Typed, Answer, Goto
<1> USE <1>2
<1>3. native'[o] \in NativeType
  BY DEF NativeType, NativeSteps, BoxType
<1>4. box'[o] \in BoxType
  BY DEF BoxType, NativeType
<1>5. MailRec(box'[o], native'[o], h)
  BY <1>1, CommandNumbers DEF MailRec, Taking, Ending, NativeType, BoxType, HandleType
<1> QED BY <1>3, <1>4, <1>5 DEF Good

LEMMA DecideGood ==
    ASSUME Typed, Mail, NEW o \in Owners, Decide(o)
    PROVE  Only(o) /\ Good(o)
<1> DEFINE b == box[o]
           r == native[o]
           h == handle[o]
<1>0. b \in BoxType /\ r \in NativeType /\ h \in HandleType /\ MailRec(b, r, h)
  BY DEF Typed, Mail
<1> USE <1>0
<1>1. r.pc = "decide"
  BY DEF Decide, At
<1> USE <1>1
<1>2. CASE revoked[o] /\ r.taken # None
  <2> USE <1>2
  <2>2. /\ native'[o] = [r EXCEPT !.pc = "teardown", !.taken = None]
        /\ box'[o] = [b EXCEPT !.reply = [n |-> r.taken, kind |-> "CancelledBeforeStart"]]
        /\ handle'[o] = h
        /\ Only(o)
    BY DEF Decide, Surroundings, Only, Typed, Answer, Goto
  <2> USE <2>2
  <2>a. r.taken \in Commands
    BY DEF NativeType
  <2>b. [n |-> r.taken, kind |-> "CancelledBeforeStart"] \in [n : Commands, kind : Replies] /\ [n |-> r.taken, kind |-> "CancelledBeforeStart"] # None
    BY <2>a, Values DEF Replies
  <2>3. native'[o] \in NativeType
    BY <2>a, <2>b DEF NativeType, NativeSteps
  <2>4. box'[o] \in BoxType
    BY <2>a, <2>b DEF BoxType, NativeType
  <2>5. MailRec(box'[o], native'[o], h)
    BY <2>a, <2>b, CommandNumbers, SMTT(30) DEF MailRec, Taking, Ending, NativeType, BoxType,
       HandleType
  <2> QED BY <2>3, <2>4, <2>5 DEF Good
<1>3. CASE revoked[o] /\ r.taken = None
  <2> USE <1>3
  <2>2. /\ native'[o] = [r EXCEPT !.pc = "teardown", !.taken = None]
        /\ box'[o] = b
        /\ handle'[o] = h
        /\ Only(o)
    BY DEF Decide, Surroundings, Only, Typed, Answer, Goto
  <2> USE <2>2
  <2>3. native'[o] \in NativeType
    BY DEF NativeType, NativeSteps
  <2>4. box'[o] \in BoxType
    OBVIOUS
  <2>5. MailRec(box'[o], native'[o], h)
    BY CommandNumbers, SMTT(30) DEF MailRec, Taking, Ending, NativeType, BoxType, HandleType
  <2> QED BY <2>3, <2>4, <2>5 DEF Good
<1>4. CASE ~ revoked[o] /\ r.taken # None
  <2> USE <1>4
  <2>2. /\ native'[o] = [r EXCEPT !.pc = "prepare"]
        /\ box'[o] = b
        /\ handle'[o] = h
        /\ Only(o)
    BY DEF Decide, Surroundings, Only, Typed, Answer, Goto
  <2> USE <2>2
  <2>3. native'[o] \in NativeType
    BY DEF NativeType, NativeSteps
  <2>4. box'[o] \in BoxType
    OBVIOUS
  <2>5. MailRec(box'[o], native'[o], h)
    BY CommandNumbers DEF MailRec, Taking, Ending, NativeType, BoxType, HandleType
  <2> QED BY <2>3, <2>4, <2>5 DEF Good
<1>5. CASE ~ revoked[o] /\ r.taken = None
  <2> USE <1>5
  <2>2. /\ native'[o] = [r EXCEPT !.pc = "check"]
        /\ box'[o] = b
        /\ handle'[o] = h
        /\ Only(o)
    BY DEF Decide, Surroundings, Only, Typed, Answer, Goto
  <2> USE <2>2
  <2>3. native'[o] \in NativeType
    BY DEF NativeType, NativeSteps
  <2>4. box'[o] \in BoxType
    OBVIOUS
  <2>5. MailRec(box'[o], native'[o], h)
    BY CommandNumbers, SMTT(30) DEF MailRec, Taking, Ending, NativeType, BoxType, HandleType
  <2> QED BY <2>3, <2>4, <2>5 DEF Good
<1> QED BY <1>2, <1>3, <1>4, <1>5

LEMMA PrepareGood ==
    ASSUME Typed, Mail, NEW o \in Owners, Prepare(o)
    PROVE  Only(o) /\ Good(o)
<1> DEFINE b == box[o]
           r == native[o]
           h == handle[o]
           P(refused) == IF refused THEN "answer" ELSE "submit"
           X(refused) == IF refused THEN "Refused" ELSE None
<1>0. b \in BoxType /\ r \in NativeType /\ h \in HandleType /\ MailRec(b, r, h)
  BY DEF Typed, Mail
<1> USE <1>0
<1>1. r.pc = "prepare"
  BY DEF Prepare, At
<1>p. PICK refused \in BOOLEAN :
           native' = [native EXCEPT ![o].pc = P(refused), ![o].result = X(refused)]
  BY DEF Prepare, NativeType
<1>2. /\ native'[o] = [r EXCEPT !.pc = P(refused), !.result = X(refused)]
      /\ box'[o] = b
      /\ handle'[o] = h
      /\ Only(o)
  BY <1>1, <1>p DEF Prepare, Surroundings, Only, Typed, Answer, Goto
<1> USE <1>2
<1>a. P(refused) \in NativeSteps /\ X(refused) \in Replies \cup {None}
  BY <1>p DEF NativeSteps, Replies
<1>b. P(refused) \in {"submit", "answer"} /\ (P(refused) = "answer" => X(refused) # None /\ X(refused) # "CancelledBeforeStart")
  BY <1>p, "Refused" \in Replies, AgentAssumption DEF Replies
<1> HIDE DEF P, X
<1>3. native'[o] \in NativeType
  BY <1>a, <1>b DEF NativeType, NativeSteps
<1>4. box'[o] \in BoxType
  OBVIOUS
<1>5. MailRec(box'[o], native'[o], h)
  BY <1>1, <1>p, <1>a, <1>b, CommandNumbers, SMTT(30) DEF MailRec, Taking, Ending, NativeType,
     BoxType, HandleType
<1> QED BY <1>3, <1>4, <1>5 DEF Good

LEMMA SubmitGood ==
    ASSUME Typed, Mail, NEW o \in Owners, Submit(o)
    PROVE  Only(o) /\ Good(o)
<1> DEFINE b == box[o]
           r == native[o]
           h == handle[o]
           P(more, result) == IF result # "Done" THEN "fence" ELSE IF more THEN "prepare" ELSE "answer"
           D(dirty) == r.dirty \/ dirty
           E == r.executed \cup {r.taken}
           K(result) == r.panicked \/ result = "NativePanic"
<1>0. b \in BoxType /\ r \in NativeType /\ h \in HandleType /\ MailRec(b, r, h)
  BY DEF Typed, Mail
<1> USE <1>0
<1>1. r.pc = "submit"
  BY DEF Submit, At
<1> USE <1>1
<1>p. PICK held, dirty, more \in BOOLEAN, result \in {"Done", "GeometryChanged", "NativePanic"} :
           native' = [native EXCEPT ![o] = [@ EXCEPT !.pc = P(more, result), !.result = result, !.held = held,
                                    !.dirty = D(dirty), !.executed = E, !.panicked = K(result)]]
  BY DEF Submit
<1>2. /\ native'[o] = [r EXCEPT !.pc = P(more, result), !.result = result, !.held = held,
                                !.dirty = D(dirty), !.executed = E, !.panicked = K(result)]
      /\ box'[o] = b
      /\ handle'[o] = h
      /\ Only(o)
  BY <1>p DEF Submit, Surroundings, Only, Typed, Answer, Goto
<1> USE <1>2
<1>a. r.taken \in Commands /\ E \in SUBSET Commands
  BY DEF MailRec, NativeType
<1>b. P(more, result) \in {"prepare", "fence", "answer"} /\ result \in Replies /\ result # None /\ result # "CancelledBeforeStart"
  BY <1>p, AgentAssumption DEF Replies
<1>c. D(dirty) \in BOOLEAN /\ K(result) \in BOOLEAN
  BY <1>p DEF NativeType
<1>d. \A n \in E : n <= h.sent
  BY SMTT(30) DEF MailRec, NativeType, HandleType
<1> HIDE DEF P, D, E, K
<1>3. native'[o] \in NativeType
  BY <1>a, <1>b, <1>c, <1>d DEF NativeType, NativeSteps
<1>4. box'[o] \in BoxType
  OBVIOUS
<1>5. MailRec(box'[o], native'[o], h)
  BY <1>p, <1>a, <1>b, <1>c, <1>d, CommandNumbers, SMTT(30) DEF MailRec, Taking, Ending, NativeType,
     BoxType, HandleType
<1> QED BY <1>3, <1>4, <1>5 DEF Good

LEMMA FenceResultGood ==
    ASSUME Typed, Mail, NEW o \in Owners, FenceResult(o)
    PROVE  Only(o) /\ Good(o)
<1> DEFINE b == box[o]
           r == native[o]
           h == handle[o]
<1>0. b \in BoxType /\ r \in NativeType /\ h \in HandleType /\ MailRec(b, r, h)
  BY DEF Typed, Mail
<1> USE <1>0
<1>1. r.pc = "fence"
  BY DEF FenceResult, At
<1>2. /\ native'[o] = [r EXCEPT !.pc = "answer"]
      /\ box'[o] = b
      /\ handle'[o] = h
      /\ Only(o)
  BY <1>1 DEF FenceResult, Surroundings, Only, Typed, Answer, Goto
<1> USE <1>2
<1>3. native'[o] \in NativeType
  BY DEF NativeType, NativeSteps
<1>4. box'[o] \in BoxType
  OBVIOUS
<1>5. MailRec(box'[o], native'[o], h)
  BY <1>1, CommandNumbers DEF MailRec, Taking, Ending, NativeType, BoxType, HandleType
<1> QED BY <1>3, <1>4, <1>5 DEF Good

LEMMA PublishReplyGood ==
    ASSUME Typed, Mail, NEW o \in Owners, PublishReply(o)
    PROVE  Only(o) /\ Good(o)
<1> DEFINE b == box[o]
           r == native[o]
           h == handle[o]
<1>0. b \in BoxType /\ r \in NativeType /\ h \in HandleType /\ MailRec(b, r, h)
  BY DEF Typed, Mail
<1> USE <1>0
<1>1. r.pc = "answer"
  BY DEF PublishReply, At
<1> USE <1>1
<1>2. /\ native'[o] = [r EXCEPT !.pc = "check", !.taken = None, !.result = None]
      /\ box'[o] = [b EXCEPT !.reply = [n |-> r.taken, kind |-> r.result]]
      /\ handle'[o] = h
      /\ Only(o)
  BY DEF PublishReply, Surroundings, Only, Typed, Answer, Goto
<1> USE <1>2
<1>a. r.taken \in Commands /\ r.result \in Replies
  BY DEF NativeType, MailRec
<1>b. [n |-> r.taken, kind |-> r.result] \in [n : Commands, kind : Replies] /\ [n |-> r.taken, kind |-> r.result] # None
  BY <1>a, Values
<1>3. native'[o] \in NativeType
  BY <1>a, <1>b DEF NativeType, NativeSteps
<1>4. box'[o] \in BoxType
  BY <1>a, <1>b DEF BoxType, NativeType
<1>5. MailRec(box'[o], native'[o], h)
  BY <1>a, <1>b, CommandNumbers, SMTT(30) DEF MailRec, Taking, Ending, NativeType, BoxType, HandleType
<1> QED BY <1>3, <1>4, <1>5 DEF Good

LEMMA TeardownGood ==
    ASSUME Typed, Mail, NEW o \in Owners, Teardown(o)
    PROVE  Only(o) /\ Good(o)
<1> DEFINE b == box[o]
           r == native[o]
           h == handle[o]
<1>0. b \in BoxType /\ r \in NativeType /\ h \in HandleType /\ MailRec(b, r, h)
  BY DEF Typed, Mail
<1> USE <1>0
<1>1. r.pc = "teardown"
  BY DEF Teardown, At
<1>2. /\ native'[o] = [r EXCEPT !.pc = "cleanup"]
      /\ box'[o] = [b EXCEPT !.phase = "Cleaning"]
      /\ handle'[o] = h
      /\ Only(o)
  BY <1>1 DEF Teardown, Surroundings, Only, Typed, Answer, Goto
<1> USE <1>2
<1>3. native'[o] \in NativeType
  BY DEF NativeType, NativeSteps
<1>4. box'[o] \in BoxType
  BY DEF BoxType, NativeType
<1>5. MailRec(box'[o], native'[o], h)
  BY <1>1, CommandNumbers DEF MailRec, Taking, Ending, NativeType, BoxType, HandleType
<1> QED BY <1>3, <1>4, <1>5 DEF Good

LEMMA CleanupGood ==
    ASSUME Typed, Mail, NEW o \in Owners, Cleanup(o)
    PROVE  Only(o) /\ Good(o)
<1> DEFINE b == box[o]
           r == native[o]
           h == handle[o]
           X(held, dirty) == [cleanup |-> [remaining |-> held, native_clean |-> ~ dirty],
                              panicked |-> FALSE]
<1>0. b \in BoxType /\ r \in NativeType /\ h \in HandleType /\ MailRec(b, r, h)
  BY DEF Typed, Mail
<1> USE <1>0
<1>1. r.pc = "cleanup"
  BY DEF Cleanup, At
<1>p. PICK held, dirty \in BOOLEAN :
           native' = [native EXCEPT ![o].pc = "publish", ![o].held = held, ![o].dirty = dirty,
                                    ![o].exit = X(held, dirty)]
  BY DEF Cleanup, NativeType
<1>2. /\ native'[o] = [r EXCEPT !.pc = "publish", !.held = held, !.dirty = dirty, !.exit = X(held, dirty)]
      /\ box'[o] = b
      /\ handle'[o] = h
      /\ Only(o)
  BY <1>1, <1>p DEF Cleanup, Surroundings, Only, Typed, Answer, Goto
<1> USE <1>2
<1>a. X(held, dirty) \in Exits /\ X(held, dirty) # None /\ X(held, dirty).cleanup # None
  BY <1>p, Values
<1> HIDE DEF X
<1>3. native'[o] \in NativeType
  BY <1>a DEF NativeType, NativeSteps
<1>4. box'[o] \in BoxType
  OBVIOUS
<1>5. MailRec(box'[o], native'[o], h)
  BY <1>1, <1>p, <1>a, CommandNumbers, SMTT(30) DEF MailRec, Taking, Ending, NativeType, BoxType,
     HandleType
<1> QED BY <1>3, <1>4, <1>5 DEF Good

LEMMA PublishCleanupGood ==
    ASSUME Typed, Mail, NEW o \in Owners, PublishCleanup(o)
    PROVE  Only(o) /\ Good(o)
<1> DEFINE b == box[o]
           r == native[o]
           h == handle[o]
<1>0. b \in BoxType /\ r \in NativeType /\ h \in HandleType /\ MailRec(b, r, h)
  BY DEF Typed, Mail
<1> USE <1>0
<1>1. r.pc = "publish"
  BY DEF PublishCleanup, At
<1> USE <1>1
<1>2. CASE HandoffSafe(r.exit) \/ b.abandoned
  <2> USE <1>2
  <2>2. /\ native'[o] = [r EXCEPT !.pc = "destroy"]
        /\ box'[o] = [b EXCEPT !.cleanup = r.exit.cleanup]
        /\ handle'[o] = h
        /\ Only(o)
    BY DEF PublishCleanup, Surroundings, Only, Typed, Answer, Goto
  <2> USE <2>2
  <2>a. r.exit \in Exits
    BY DEF NativeType, MailRec, Ending
  <2>b. r.exit.cleanup \in Cleanups \cup {None}
    BY <2>a DEF Exits
  <2>3. native'[o] \in NativeType
    BY <2>a, <2>b DEF NativeType, NativeSteps
  <2>4. box'[o] \in BoxType
    BY <2>a, <2>b DEF BoxType, NativeType
  <2>5. MailRec(box'[o], native'[o], h)
    BY <2>a, <2>b, CommandNumbers DEF MailRec, Taking, Ending, NativeType, BoxType,
       HandleType
  <2> QED BY <2>3, <2>4, <2>5 DEF Good
<1>3. CASE ~ (HandoffSafe(r.exit) \/ b.abandoned)
  <2> USE <1>3
  <2>2. /\ native'[o] = [r EXCEPT !.pc = "wait"]
        /\ box'[o] = [b EXCEPT !.cleanup = r.exit.cleanup]
        /\ handle'[o] = h
        /\ Only(o)
    BY DEF PublishCleanup, Surroundings, Only, Typed, Answer, Goto
  <2> USE <2>2
  <2>a. r.exit \in Exits
    BY DEF NativeType, MailRec, Ending
  <2>b. r.exit.cleanup \in Cleanups \cup {None}
    BY <2>a DEF Exits
  <2>3. native'[o] \in NativeType
    BY <2>a, <2>b DEF NativeType, NativeSteps
  <2>4. box'[o] \in BoxType
    BY <2>a, <2>b DEF BoxType, NativeType
  <2>5. MailRec(box'[o], native'[o], h)
    BY <2>a, <2>b, CommandNumbers DEF MailRec, Taking, Ending, NativeType, BoxType,
       HandleType
  <2> QED BY <2>3, <2>4, <2>5 DEF Good
<1> QED BY <1>2, <1>3

LEMMA AwaitRetryGood ==
    ASSUME Typed, Mail, NEW o \in Owners, AwaitRetry(o)
    PROVE  Only(o) /\ Good(o)
<1> DEFINE b == box[o]
           r == native[o]
           h == handle[o]
<1>0. b \in BoxType /\ r \in NativeType /\ h \in HandleType /\ MailRec(b, r, h)
  BY DEF Typed, Mail
<1> USE <1>0
<1>1. r.pc = "wait"
  BY DEF AwaitRetry, At
<1>2. /\ native'[o] = [r EXCEPT !.pc = "cleanup"]
      /\ box'[o] = [b EXCEPT !.retry_cleanup = FALSE]
      /\ handle'[o] = h
      /\ Only(o)
  BY <1>1 DEF AwaitRetry, Surroundings, Only, Typed, Answer, Goto
<1> USE <1>2
<1>3. native'[o] \in NativeType
  BY DEF NativeType, NativeSteps
<1>4. box'[o] \in BoxType
  BY DEF BoxType, NativeType
<1>5. MailRec(box'[o], native'[o], h)
  BY <1>1, CommandNumbers DEF MailRec, Taking, Ending, NativeType, BoxType, HandleType
<1> QED BY <1>3, <1>4, <1>5 DEF Good

LEMMA DestroyGood ==
    ASSUME Typed, Mail, NEW o \in Owners, Destroy(o)
    PROVE  Only(o) /\ Good(o)
<1> DEFINE b == box[o]
           r == native[o]
           h == handle[o]
<1>0. b \in BoxType /\ r \in NativeType /\ h \in HandleType /\ MailRec(b, r, h)
  BY DEF Typed, Mail
<1> USE <1>0
<1>1. r.pc = "destroy"
  BY DEF Destroy, At
<1>2. /\ native'[o] = [r EXCEPT !.pc = "final"]
      /\ box'[o] = b
      /\ handle'[o] = h
      /\ Only(o)
  BY <1>1 DEF Destroy, Surroundings, Only, Typed, Answer, Goto
<1> USE <1>2
<1>3. native'[o] \in NativeType
  BY DEF NativeType, NativeSteps
<1>4. box'[o] \in BoxType
  OBVIOUS
<1>5. MailRec(box'[o], native'[o], h)
  BY <1>1, CommandNumbers DEF MailRec, Taking, Ending, NativeType, BoxType, HandleType
<1> QED BY <1>3, <1>4, <1>5 DEF Good

LEMMA UnwindGood ==
    ASSUME Typed, Mail, NEW o \in Owners, Unwind(o)
    PROVE  Only(o) /\ Good(o)
<1> DEFINE b == box[o]
           r == native[o]
           h == handle[o]
<1>0. b \in BoxType /\ r \in NativeType /\ h \in HandleType /\ MailRec(b, r, h)
  BY DEF Typed, Mail
<1> USE <1>0
<1>1. r.pc \in {"factory", "check", "cleanup", "destroy"}
  BY DEF Unwind, At
<1>2. /\ native'[o] = [r EXCEPT !.pc = "final", !.exit = PanickedExit, !.panicked = TRUE]
      /\ box'[o] = b
      /\ handle'[o] = h
      /\ Only(o)
  BY <1>1 DEF Unwind, Surroundings, Only, Typed, Answer, Goto
<1> USE <1>2
<1>a. PanickedExit \in Exits /\ PanickedExit # None
  BY Values
<1>3. native'[o] \in NativeType
  BY <1>a DEF NativeType, NativeSteps
<1>4. box'[o] \in BoxType
  OBVIOUS
<1>5. MailRec(box'[o], native'[o], h)
  BY <1>1, <1>a, CommandNumbers, SMTT(30) DEF MailRec, Taking, Ending, NativeType, BoxType, HandleType
<1> QED BY <1>3, <1>4, <1>5 DEF Good

LEMMA FinalStopGood ==
    ASSUME Typed, Mail, NEW o \in Owners, FinalStop(o)
    PROVE  Only(o) /\ Good(o)
<1> DEFINE b == box[o]
           r == native[o]
           h == handle[o]
<1>0. b \in BoxType /\ r \in NativeType /\ h \in HandleType /\ MailRec(b, r, h)
  BY DEF Typed, Mail
<1> USE <1>0
<1>1. r.pc = "final"
  BY DEF FinalStop, At
<1>2. /\ native'[o] = [r EXCEPT !.pc = "finish"]
      /\ box'[o] = b
      /\ handle'[o] = h
      /\ Only(o)
  BY <1>1 DEF FinalStop, Surroundings, Only, Typed, Answer, Goto
<1> USE <1>2
<1>3. native'[o] \in NativeType
  BY DEF NativeType, NativeSteps
<1>4. box'[o] \in BoxType
  OBVIOUS
<1>5. MailRec(box'[o], native'[o], h)
  BY <1>1, CommandNumbers DEF MailRec, Taking, Ending, NativeType, BoxType, HandleType
<1> QED BY <1>3, <1>4, <1>5 DEF Good

LEMMA FinishGood ==
    ASSUME Typed, Mail, NEW o \in Owners, Finish(o)
    PROVE  Only(o) /\ Good(o)
<1> DEFINE b == box[o]
           r == native[o]
           h == handle[o]
<1>0. b \in BoxType /\ r \in NativeType /\ h \in HandleType /\ MailRec(b, r, h)
  BY DEF Typed, Mail
<1> USE <1>0
<1>1. r.pc = "finish"
  BY DEF Finish, At
<1> USE <1>1
<1>2. CASE b.outstanding /\ b.reply = None
  <2> USE <1>2
  <2>2. /\ native'[o] = [r EXCEPT !.pc = "finished"]
        /\ box'[o] = [b EXCEPT !.reply = [n |-> h.sent, kind |-> "NativePanic"],
                         !.exit = r.exit, !.phase = "Finished"]
        /\ handle'[o] = h
        /\ Only(o)
    BY DEF Finish, Surroundings, Only, Typed, Answer, Goto
  <2> USE <2>2
  <2>a. h.sent \in Commands
    BY SMTT(30) DEF MailRec, HandleType, Commands
  <2>b. [n |-> h.sent, kind |-> "NativePanic"] \in [n : Commands, kind : Replies] /\ [n |-> h.sent, kind |-> "NativePanic"] # None
    BY <2>a, Values DEF Replies
  <2>3. native'[o] \in NativeType
    BY <2>a, <2>b DEF NativeType, NativeSteps
  <2>4. box'[o] \in BoxType
    BY <2>a, <2>b DEF BoxType, NativeType
  <2>5. MailRec(box'[o], native'[o], h)
    BY <2>a, <2>b, CommandNumbers, SMTT(30) DEF MailRec, Taking, Ending, NativeType, BoxType,
       HandleType
  <2> QED BY <2>3, <2>4, <2>5 DEF Good
<1>3. CASE ~ (b.outstanding /\ b.reply = None)
  <2> USE <1>3
  <2>2. /\ native'[o] = [r EXCEPT !.pc = "finished"]
        /\ box'[o] = [b EXCEPT !.exit = r.exit, !.phase = "Finished"]
        /\ handle'[o] = h
        /\ Only(o)
    BY DEF Finish, Surroundings, Only, Typed, Answer, Goto
  <2> USE <2>2
  <2>3. native'[o] \in NativeType
    BY DEF NativeType, NativeSteps
  <2>4. box'[o] \in BoxType
    BY DEF BoxType, NativeType
  <2>5. MailRec(box'[o], native'[o], h)
    BY CommandNumbers DEF MailRec, Taking, Ending, NativeType, BoxType, HandleType
  <2> QED BY <2>3, <2>4, <2>5 DEF Good
<1> QED BY <1>2, <1>3


-----------------------------------------------------------------------------
(* The broker's and the handles' steps.                                    *)

LEMMA SpawnGood ==
    ASSUME Typed, Mail, Paired, NEW o \in Owners, Spawn(o)
    PROVE  Only(o) /\ Good(o)
<1> DEFINE b == box[o]
           r == native[o]
           h == handle[o]
<1>0. b \in BoxType /\ r \in NativeType /\ h \in HandleType /\ MailRec(b, r, h)
  BY DEF Typed, Mail
<1> USE <1>0
<1>1. r.pc = "none"
  BY DEF Spawn, Paired
<1>2. /\ native'[o] = [r EXCEPT !.pc = "factory"]
      /\ box'[o] = b
      /\ handle'[o] = h
      /\ Only(o)
  BY <1>1 DEF Spawn, Surroundings, ThreadsAside, Only, Typed, Stopped
<1> USE <1>2
<1>3. native'[o] \in NativeType
  BY DEF NativeType, NativeSteps
<1>4. box'[o] \in BoxType
  BY DEF BoxType
<1>5. handle'[o] \in HandleType
  BY DEF HandleType
<1>6. MailRec(box'[o], native'[o], handle'[o])
  BY <1>1, CommandNumbers DEF MailRec, Taking, Ending, NativeType, BoxType, HandleType
<1> QED BY <1>3, <1>4, <1>5, <1>6 DEF Good

LEMMA HandOverGood ==
    ASSUME Typed, Mail, NEW o \in Owners, HandOver(o)
    PROVE  Only(o) /\ Good(o)
<1> DEFINE b == box[o]
           r == native[o]
           h == handle[o]
<1>0. b \in BoxType /\ r \in NativeType /\ h \in HandleType /\ MailRec(b, r, h)
  BY DEF Typed, Mail
<1> USE <1>0
<1>2. /\ native'[o] = r
      /\ box'[o] = b
      /\ handle'[o] = [h EXCEPT !.agent = "live", !.driver = "live"]
      /\ Only(o)
  BY DEF HandOver, Surroundings, ThreadsAside, Only, Typed, Stopped
<1> USE <1>2
<1>3. native'[o] \in NativeType
  BY DEF NativeType, NativeSteps
<1>4. box'[o] \in BoxType
  BY DEF BoxType
<1>5. handle'[o] \in HandleType
  BY DEF HandleType
<1>6. MailRec(box'[o], native'[o], handle'[o])
  <2>1. handle'[o].sent = h.sent /\ handle'[o].report = h.report
    BY DEF HandleType
  <2>2. /\ box'[o].outstanding = b.outstanding /\ box'[o].command = b.command
        /\ box'[o].reply = b.reply /\ box'[o].phase = b.phase /\ box'[o].exit = b.exit
    BY DEF BoxType
  <2> QED BY <2>1, <2>2, MailAlike
<1> QED BY <1>3, <1>4, <1>5, <1>6 DEF Good

LEMMA EnqueueGood ==
    ASSUME Typed, Mail, NEW o \in Owners, Enqueue(o)
    PROVE  Only(o) /\ Good(o)
<1> DEFINE b == box[o]
           r == native[o]
           h == handle[o]
<1>0. b \in BoxType /\ r \in NativeType /\ h \in HandleType /\ MailRec(b, r, h)
  BY DEF Typed, Mail
<1> USE <1>0
<1>1. h.sent < MaxCommands /\ b.exit = None /\ ~ b.outstanding
  BY DEF Enqueue, At
<1> USE <1>1
<1>2. /\ native'[o] = r
      /\ box'[o] = [b EXCEPT !.outstanding = TRUE, !.command = h.sent + 1]
      /\ handle'[o] = [h EXCEPT !.sent = h.sent + 1]
      /\ Only(o)
  BY DEF Enqueue, Surroundings, ThreadsAside, Only, Typed, Stopped
<1> USE <1>2
<1>a. h.sent \in Nat /\ h.sent + 1 \in Commands /\ h.sent + 1 \in 0..MaxCommands /\ h.sent + 1 # None
  BY CommandNumbers, AgentAssumption, SMTT(30) DEF HandleType, Commands
<1>3. native'[o] \in NativeType
  BY <1>a DEF NativeType, NativeSteps
<1>4. box'[o] \in BoxType
  BY <1>a DEF BoxType
<1>5. handle'[o] \in HandleType
  BY <1>a DEF HandleType
<1>6. MailRec(box'[o], native'[o], handle'[o])
  <2>1. /\ h.sent + 1 # 0 /\ h.sent + 1 \notin r.executed
        /\ \A n \in r.executed : n <= h.sent + 1
    <3>1. r.executed \subseteq Nat BY CommandNumbers DEF NativeType
    <3>2. \A n \in r.executed : n <= h.sent BY DEF MailRec
    <3> QED BY <1>a, <3>1, <3>2, NextNumber
  <2>2. handle'[o].sent = h.sent + 1 /\ handle'[o].report = h.report
    BY DEF HandleType
  <2>3. /\ box'[o].outstanding /\ box'[o].command = h.sent + 1
        /\ box'[o].reply = b.reply /\ box'[o].phase = b.phase /\ box'[o].exit = b.exit
    BY DEF BoxType
  <2>4. b.reply = None /\ r.taken = None /\ r.pc # "finished" BY DEF MailRec
  <2> QED BY <2>1, <2>2, <2>3, <2>4 DEF MailRec
<1> QED BY <1>3, <1>4, <1>5, <1>6 DEF Good

LEMMA CollectGood ==
    ASSUME Typed, Mail, NEW o \in Owners, Collect(o)
    PROVE  Only(o) /\ Good(o)
<1> DEFINE b == box[o]
           r == native[o]
           h == handle[o]
<1>0. b \in BoxType /\ r \in NativeType /\ h \in HandleType /\ MailRec(b, r, h)
  BY DEF Typed, Mail
<1> USE <1>0
<1>1. b.outstanding /\ b.reply # None
  BY DEF Collect
<1>2. /\ native'[o] = r
      /\ box'[o] = [b EXCEPT !.reply = None, !.outstanding = FALSE]
      /\ handle'[o] = h
      /\ Only(o)
  BY DEF Collect, Surroundings, ThreadsAside, Only, Typed, Stopped
<1> USE <1>2
<1>3. native'[o] \in NativeType
  BY DEF NativeType, NativeSteps
<1>4. box'[o] \in BoxType
  BY DEF BoxType
<1>5. handle'[o] \in HandleType
  BY DEF HandleType
<1>6. MailRec(box'[o], native'[o], handle'[o])
  BY <1>1, CommandNumbers, SMTT(30) DEF MailRec, Taking, Ending, NativeType, BoxType, HandleType
<1> QED BY <1>3, <1>4, <1>5, <1>6 DEF Good

LEMMA RetryCleanupGood ==
    ASSUME Typed, Mail, NEW o \in Owners, RetryCleanup(o)
    PROVE  Only(o) /\ Good(o)
<1> DEFINE b == box[o]
           r == native[o]
           h == handle[o]
<1>0. b \in BoxType /\ r \in NativeType /\ h \in HandleType /\ MailRec(b, r, h)
  BY DEF Typed, Mail
<1> USE <1>0
<1>2. /\ native'[o] = r
      /\ box'[o] = [b EXCEPT !.retry_cleanup = TRUE]
      /\ handle'[o] = h
      /\ Only(o)
  BY DEF RetryCleanup, Surroundings, ThreadsAside, Only, Typed, Stopped
<1> USE <1>2
<1>3. native'[o] \in NativeType
  BY DEF NativeType, NativeSteps
<1>4. box'[o] \in BoxType
  BY DEF BoxType
<1>5. handle'[o] \in HandleType
  BY DEF HandleType
<1>6. MailRec(box'[o], native'[o], handle'[o])
  BY CommandNumbers, SMTT(30) DEF MailRec, Taking, Ending, NativeType, BoxType, HandleType
<1> QED BY <1>3, <1>4, <1>5, <1>6 DEF Good

LEMMA DriverReportsGood ==
    ASSUME Typed, Mail, NEW o \in Owners, DriverReports(o)
    PROVE  Only(o) /\ Good(o)
<1> DEFINE b == box[o]
           r == native[o]
           h == handle[o]
<1>0. b \in BoxType /\ r \in NativeType /\ h \in HandleType /\ MailRec(b, r, h)
  BY DEF Typed, Mail
<1> USE <1>0
<1>2. /\ native'[o] = r
      /\ box'[o] = b
      /\ handle'[o] = [h EXCEPT !.driver = "done", !.report = b.exit]
      /\ Only(o)
  BY DEF DriverReports, Surroundings, ThreadsAside, Only, Report, Typed, Stopped
<1> USE <1>2
<1>3. native'[o] \in NativeType
  BY DEF NativeType, NativeSteps
<1>4. box'[o] \in BoxType
  BY DEF BoxType
<1>5. handle'[o] \in HandleType
  BY DEF HandleType, BoxType
<1>6. MailRec(box'[o], native'[o], handle'[o])
  BY CommandNumbers, SMTT(30) DEF MailRec, Taking, Ending, NativeType, BoxType, HandleType
<1> QED BY <1>3, <1>4, <1>5, <1>6 DEF Good

LEMMA Drop_agent_Good ==
    ASSUME Typed, Mail, NEW o \in Owners, DropHandle(o, "agent")
    PROVE  Only(o) /\ Good(o)
<1> DEFINE b == box[o]
           r == native[o]
           h == handle[o]
<1>0. b \in BoxType /\ r \in NativeType /\ h \in HandleType /\ MailRec(b, r, h)
  BY DEF Typed, Mail
<1> USE <1>0
<1>2. /\ native'[o] = r
      /\ box'[o] = b
      /\ handle'[o] = [h EXCEPT !.agent = "dropping"]
      /\ Only(o)
  BY DEF DropHandle, Surroundings, ThreadsAside, Only, Typed, Stopped
<1> USE <1>2
<1>3. native'[o] \in NativeType
  BY DEF NativeType, NativeSteps
<1>4. box'[o] \in BoxType
  BY DEF BoxType
<1>5. handle'[o] \in HandleType
  BY DEF HandleType
<1>6. MailRec(box'[o], native'[o], handle'[o])
  <2>1. handle'[o].sent = h.sent /\ handle'[o].report = h.report
    BY DEF HandleType
  <2>2. /\ box'[o].outstanding = b.outstanding /\ box'[o].command = b.command
        /\ box'[o].reply = b.reply /\ box'[o].phase = b.phase /\ box'[o].exit = b.exit
    BY DEF BoxType
  <2> QED BY <2>1, <2>2, MailAlike
<1> QED BY <1>3, <1>4, <1>5, <1>6 DEF Good

LEMMA Abandon_agent_Good ==
    ASSUME Typed, Mail, NEW o \in Owners, Abandon(o, "agent")
    PROVE  Only(o) /\ Good(o)
<1> DEFINE b == box[o]
           r == native[o]
           h == handle[o]
<1>0. b \in BoxType /\ r \in NativeType /\ h \in HandleType /\ MailRec(b, r, h)
  BY DEF Typed, Mail
<1> USE <1>0
<1>2. /\ native'[o] = r
      /\ box'[o] = [b EXCEPT !.abandoned = TRUE]
      /\ handle'[o] = [h EXCEPT !.agent = "gone"]
      /\ Only(o)
  BY DEF Abandon, Surroundings, ThreadsAside, Only, Typed, Stopped
<1> USE <1>2
<1>3. native'[o] \in NativeType
  BY DEF NativeType, NativeSteps
<1>4. box'[o] \in BoxType
  BY DEF BoxType
<1>5. handle'[o] \in HandleType
  BY DEF HandleType
<1>6. MailRec(box'[o], native'[o], handle'[o])
  <2>1. handle'[o].sent = h.sent /\ handle'[o].report = h.report
    BY DEF HandleType
  <2>2. /\ box'[o].outstanding = b.outstanding /\ box'[o].command = b.command
        /\ box'[o].reply = b.reply /\ box'[o].phase = b.phase /\ box'[o].exit = b.exit
    BY DEF BoxType
  <2> QED BY <2>1, <2>2, MailAlike
<1> QED BY <1>3, <1>4, <1>5, <1>6 DEF Good

LEMMA Drop_driver_Good ==
    ASSUME Typed, Mail, NEW o \in Owners, DropHandle(o, "driver")
    PROVE  Only(o) /\ Good(o)
<1> DEFINE b == box[o]
           r == native[o]
           h == handle[o]
<1>0. b \in BoxType /\ r \in NativeType /\ h \in HandleType /\ MailRec(b, r, h)
  BY DEF Typed, Mail
<1> USE <1>0
<1>2. /\ native'[o] = r
      /\ box'[o] = b
      /\ handle'[o] = [h EXCEPT !.driver = "dropping"]
      /\ Only(o)
  BY DEF DropHandle, Surroundings, ThreadsAside, Only, Typed, Stopped
<1> USE <1>2
<1>3. native'[o] \in NativeType
  BY DEF NativeType, NativeSteps
<1>4. box'[o] \in BoxType
  BY DEF BoxType
<1>5. handle'[o] \in HandleType
  BY DEF HandleType
<1>6. MailRec(box'[o], native'[o], handle'[o])
  <2>1. handle'[o].sent = h.sent /\ handle'[o].report = h.report
    BY DEF HandleType
  <2>2. /\ box'[o].outstanding = b.outstanding /\ box'[o].command = b.command
        /\ box'[o].reply = b.reply /\ box'[o].phase = b.phase /\ box'[o].exit = b.exit
    BY DEF BoxType
  <2> QED BY <2>1, <2>2, MailAlike
<1> QED BY <1>3, <1>4, <1>5, <1>6 DEF Good

LEMMA Abandon_driver_Good ==
    ASSUME Typed, Mail, NEW o \in Owners, Abandon(o, "driver")
    PROVE  Only(o) /\ Good(o)
<1> DEFINE b == box[o]
           r == native[o]
           h == handle[o]
<1>0. b \in BoxType /\ r \in NativeType /\ h \in HandleType /\ MailRec(b, r, h)
  BY DEF Typed, Mail
<1> USE <1>0
<1>2. /\ native'[o] = r
      /\ box'[o] = [b EXCEPT !.abandoned = TRUE]
      /\ handle'[o] = [h EXCEPT !.driver = "gone"]
      /\ Only(o)
  BY DEF Abandon, Surroundings, ThreadsAside, Only, Typed, Stopped
<1> USE <1>2
<1>3. native'[o] \in NativeType
  BY DEF NativeType, NativeSteps
<1>4. box'[o] \in BoxType
  BY DEF BoxType
<1>5. handle'[o] \in HandleType
  BY DEF HandleType
<1>6. MailRec(box'[o], native'[o], handle'[o])
  <2>1. handle'[o].sent = h.sent /\ handle'[o].report = h.report
    BY DEF HandleType
  <2>2. /\ box'[o].outstanding = b.outstanding /\ box'[o].command = b.command
        /\ box'[o].reply = b.reply /\ box'[o].phase = b.phase /\ box'[o].exit = b.exit
    BY DEF BoxType
  <2> QED BY <2>1, <2>2, MailAlike
<1> QED BY <1>3, <1>4, <1>5, <1>6 DEF Good

-----------------------------------------------------------------------------
(* The thread, as the seat sees it.                                        *)

\* A step of the thread between its start and its end: it leaves the seat, the
\* barriers and the brokers alone and may stop its own lease.
Thread(o) ==
    /\ UNCHANGED <<seat, guard, broker, overlapped>>
    /\ revoked' = revoked \/ revoked' = [revoked EXCEPT ![o] = TRUE]
    /\ native[o].pc \notin {"none", "finished"}
    /\ native'[o].pc \notin {"none", "finished"}
    /\ native' = [native EXCEPT ![o] = native'[o]]
    /\ TruthfulThread(native'[o], revoked'[o])

LEMMA ThreadSteps ==
    ASSUME Typed, Mail, Truthful, NEW o \in Owners, NativeStep(o), ~ Finish(o)
    PROVE  Thread(o)
<1>0. /\ native \in [Owners -> NativeType] /\ native[o] \in NativeType
      /\ revoked \in [Owners -> BOOLEAN]
      /\ TruthfulThread(native[o], revoked[o])
  BY DEF Typed, Truthful
<1> USE <1>0
<1> USE DEF Thread, Surroundings, At, Goto, Stopped, NativeType
<1>1. CASE FactoryBuilds(o)
  <2> USE <1>1
  <2>1. PICK dirty \in BOOLEAN :
              native' = [native EXCEPT ![o].pc = "check", ![o].dirty = dirty]
    BY DEF FactoryBuilds
  <2>2. native'[o] = [native[o] EXCEPT !.pc = "check", !.dirty = dirty] /\ native' = [native EXCEPT ![o] = native'[o]]
    BY <2>1
  <2>3. TruthfulThread(native'[o], revoked'[o]) /\ native'[o].pc \notin {"none", "finished"}
    BY <2>2 DEF FactoryBuilds, TruthfulThread, Ending
  <2> QED BY <2>2, <2>3 DEF FactoryBuilds
<1>2. CASE FactoryRefuses(o)
  BY <1>2 DEF FactoryRefuses, TruthfulThread, Ending
<1>3. CASE AnswerRefused(o)
  BY <1>3 DEF AnswerRefused, TruthfulThread, Ending
<1>4. CASE LoopCheck(o)
  <2> USE <1>4
  <2>1. PICK held \in BOOLEAN :
              native' = [native EXCEPT ![o].pc = "take", ![o].held = held]
    BY DEF LoopCheck
  <2>2. native'[o] = [native[o] EXCEPT !.pc = "take", !.held = held] /\ native' = [native EXCEPT ![o] = native'[o]]
    BY <2>1
  <2>3. TruthfulThread(native'[o], revoked'[o]) /\ native'[o].pc \notin {"none", "finished"}
    BY <2>2 DEF LoopCheck, TruthfulThread, Ending
  <2> QED BY <2>2, <2>3 DEF LoopCheck
<1>5. CASE TakeCommand(o)
  BY <1>5 DEF TakeCommand, TruthfulThread, Ending
<1>6. CASE Decide(o)
  BY <1>6, SMTT(30) DEF Decide, TruthfulThread, Ending
<1>7. CASE Prepare(o)
  <2> USE <1>7
  <2>1. PICK p \in {"answer", "submit"}, x \in {"Refused", None} :
              native' = [native EXCEPT ![o].pc = p, ![o].result = x]
    BY DEF Prepare
  <2>2. native'[o] = [native[o] EXCEPT !.pc = p, !.result = x] /\ native' = [native EXCEPT ![o] = native'[o]]
    BY <2>1
  <2>3. TruthfulThread(native'[o], revoked'[o]) /\ native'[o].pc \notin {"none", "finished"}
    BY <2>2 DEF Prepare, TruthfulThread, Ending
  <2> QED BY <2>2, <2>3 DEF Prepare
<1>8. CASE Submit(o)
  BY <1>8, SMTT(30) DEF Submit, TruthfulThread, Ending
<1>9. CASE FenceResult(o)
  BY <1>9 DEF FenceResult, TruthfulThread, Ending
<1>10. CASE PublishReply(o)
  BY <1>10 DEF PublishReply, TruthfulThread, Ending
<1>11. CASE Teardown(o)
  BY <1>11 DEF Teardown, TruthfulThread, Ending
<1>12. CASE Cleanup(o)
  <2> USE <1>12
  <2>1. PICK held, dirty \in BOOLEAN :
              native' = [native EXCEPT ![o].pc = "publish", ![o].held = held, ![o].dirty = dirty,
                  ![o].exit = [cleanup |-> [remaining |-> held, native_clean |-> ~ dirty], panicked |-> FALSE]]
    BY DEF Cleanup
  <2>2. native'[o] = [native[o] EXCEPT !.pc = "publish", !.held = held, !.dirty = dirty,
                  !.exit = [cleanup |-> [remaining |-> held, native_clean |-> ~ dirty], panicked |-> FALSE]] /\ native' = [native EXCEPT ![o] = native'[o]]
    BY <2>1
  <2>3. TruthfulThread(native'[o], revoked'[o]) /\ native'[o].pc \notin {"none", "finished"}
    BY <2>2, SMTT(30) DEF Cleanup, TruthfulThread, Ending, HandoffSafe
  <2> QED BY <2>2, <2>3 DEF Cleanup
<1>13. CASE PublishCleanup(o)
  BY <1>13 DEF PublishCleanup, TruthfulThread, Ending
<1>14. CASE AwaitRetry(o)
  BY <1>14 DEF AwaitRetry, TruthfulThread, Ending
<1>15. CASE Destroy(o)
  BY <1>15 DEF Destroy, TruthfulThread, Ending
<1>16. CASE Unwind(o)
  BY <1>16 DEF Unwind, TruthfulThread, Ending, HandoffSafe, PanickedExit
<1>17. CASE FinalStop(o)
  BY <1>17 DEF FinalStop, TruthfulThread, Ending
<1> QED BY <1>1, <1>2, <1>3, <1>4, <1>5, <1>6, <1>7, <1>8, <1>9, <1>10, <1>11, <1>12, <1>13,
           <1>14, <1>15, <1>16, <1>17 DEF NativeStep

-----------------------------------------------------------------------------
(* The seat.                                                               *)

SeatInv ==
    /\ Paired
    /\ Truthful
    /\ SeatIsExclusive
    /\ Counted
    /\ Watched
    /\ Dated
    /\ OverlappedNeverStarts

\* An owner that was installed and is not stopped still has its resources.
LEMMA LiveOwns ==
    ASSUME Paired, Truthful, NEW o \in Owners, broker[o].pc \in Live, ~ revoked[o]
    PROVE  Owns(o)
  BY DEF Paired, Truthful, TruthfulThread, Live, Owns

\* The seat's count is zero exactly when no barrier is up.
LEMMA UpCount ==
    ASSUME Counted
    PROVE  /\ IsFiniteSet(Up)
           /\ Cardinality(Up) \in Nat
           /\ seat.inhibitors = 0 <=> Up = {}
<1>1. IsFiniteSet(Up)
  BY AgentAssumption, FS_Subset DEF Up
<1> QED BY <1>1, FS_CardinalityType, FS_EmptySet DEF Counted

LEMMA InhibitSeat ==
    ASSUME Typed, SeatInv, NEW g \in Guards, Inhibit(g)
    PROVE  SeatInv' /\ seat' \in SeatType
              /\ guard' \in [Guards -> [pc : {"none", "stopping", "held"}, stops : Owners \cup {None}]]
<1> DEFINE w == [pc |-> IF seat.active = None THEN "held" ELSE "stopping", stops |-> seat.active]
<1>0. /\ guard[g].pc = "none" /\ seat.inhibitors # MaxInhibitions /\ seat.epoch # MaxEpoch
      /\ seat' = [seat EXCEPT !.epoch = seat.epoch + 1, !.inhibitors = seat.inhibitors + 1]
      /\ guard' = [guard EXCEPT ![g] = w]
      /\ overlapped' = overlapped \cup {o \in Owners : broker[o].pc = "reserved"}
      /\ UNCHANGED <<broker, revoked, box, native, handle>>
  BY DEF Inhibit, MayInhibit, Inhibited
<1> USE <1>0
<1>1. seat \in SeatType /\ guard \in [Guards -> [pc : {"none", "stopping", "held"}, stops : Owners \cup {None}]]
  BY DEF Typed
<1> USE <1>1
<1>2. seat' \in SeatType
  <2>1. seat.epoch + 1 \in Epochs /\ seat.inhibitors + 1 \in 0..MaxInhibitions
    BY SeatAssumption, SMTT(30) DEF SeatType, Epochs
  <2> QED BY <2>1 DEF SeatType
<1>3. w \in [pc : {"none", "stopping", "held"}, stops : Owners \cup {None}] /\ w.pc # "none"
      /\ w.stops = seat.active /\ (seat.active # None => w.pc = "stopping")
  <2>1. seat.active \in Owners \cup {None}
    BY DEF SeatType
  <2>2. CASE seat.active = None
    <3> USE <2>2
    <3>1. w = [pc |-> "held", stops |-> seat.active]
      OBVIOUS
    <3> QED BY <2>1, <3>1
  <2>3. CASE seat.active # None
    <3> USE <2>3
    <3>1. w = [pc |-> "stopping", stops |-> seat.active]
      OBVIOUS
    <3> QED BY <2>1, <3>1
  <2> QED BY <2>2, <2>3
<1> USE <1>3
<1> HIDE DEF w
<1>4. guard' \in [Guards -> [pc : {"none", "stopping", "held"}, stops : Owners \cup {None}]]
  OBVIOUS
<1>5. Up' = Up \cup {g} /\ g \notin Up
  BY DEF Up
<1> USE <1>5
<1>6. Counted'
  <2>1. Cardinality(Up') = Cardinality(Up) + 1
    <3>1. IsFiniteSet(Up) BY UpCount DEF SeatInv
    <3> QED BY <3>1, FS_AddElement
  <2> QED BY <2>1 DEF Counted, SeatInv, SeatType
<1>7. Watched'
  <2> SUFFICES ASSUME NEW o \in Owners, broker[o].pc \in Live, ~ revoked[o], NEW k \in Up'
               PROVE  seat.active = o /\ guard'[k].pc = "stopping" /\ guard'[k].stops = o
    BY DEF Watched, SeatType
  <2>1. seat.active = o /\ o # None
    BY SeatAssumption DEF SeatInv, Watched
  <2>2. CASE k = g
    BY <2>1, <2>2
  <2>3. CASE k # g
    BY <2>3 DEF SeatInv, Watched, Up
  <2> QED BY <2>1, <2>2, <2>3
<1>8. Dated'
  BY SMTT(30) DEF Dated, SeatInv, SeatType, Epochs, Typed
<1>9. OverlappedNeverStarts'
  BY DEF OverlappedNeverStarts, SeatInv
<1>10. Paired' /\ Truthful' /\ SeatIsExclusive'
  BY DEF SeatInv, Paired, Truthful, SeatIsExclusive, Owns, SeatType
<1> QED BY <1>2, <1>4, <1>6, <1>7, <1>8, <1>9, <1>10 DEF SeatInv

LEMMA InhibitStopSeat ==
    ASSUME Typed, SeatInv, NEW g \in Guards, InhibitStop(g)
    PROVE  SeatInv' /\ revoked' \in [Owners -> BOOLEAN]
              /\ guard' \in [Guards -> [pc : {"none", "stopping", "held"}, stops : Owners \cup {None}]]
<1>0. /\ guard[g].pc = "stopping"
      /\ revoked' = [revoked EXCEPT ![guard[g].stops] = TRUE]
      /\ guard' = [guard EXCEPT ![g] = [pc |-> "held", stops |-> None]]
      /\ UNCHANGED <<seat, broker, box, native, handle, overlapped>>
  BY DEF InhibitStop
<1> USE <1>0
<1>1. /\ guard \in [Guards -> [pc : {"none", "stopping", "held"}, stops : Owners \cup {None}]]
      /\ revoked \in [Owners -> BOOLEAN]
  BY DEF Typed
<1> USE <1>1
<1>2. /\ guard' \in [Guards -> [pc : {"none", "stopping", "held"}, stops : Owners \cup {None}]]
      /\ revoked' \in [Owners -> BOOLEAN]
      /\ \A o \in Owners : revoked[o] => revoked'[o]
  OBVIOUS
<1> USE <1>2
<1>3. Up' = Up
  BY DEF Up
<1>4. Counted' /\ Dated' /\ OverlappedNeverStarts' /\ Paired' /\ SeatIsExclusive'
  BY <1>3 DEF SeatInv, Counted, Dated, OverlappedNeverStarts, Paired, SeatIsExclusive, Owns
<1>5. Truthful'
  BY DEF SeatInv, Truthful, TruthfulThread
<1>6. Watched'
  <2> SUFFICES ASSUME NEW o \in Owners, broker[o].pc \in Live, ~ revoked'[o]
               PROVE  FALSE
    BY DEF Watched
  <2>1. ~ revoked[o] /\ guard[g].stops = o
    BY DEF SeatInv, Watched, Up
  <2> QED BY <2>1
<1> QED BY <1>4, <1>5, <1>6 DEF SeatInv

LEMMA DropInhibitionSeat ==
    ASSUME Typed, SeatInv, NEW g \in Guards, DropInhibition(g)
    PROVE  SeatInv' /\ seat' \in SeatType
              /\ guard' \in [Guards -> [pc : {"none", "stopping", "held"}, stops : Owners \cup {None}]]
<1>0. /\ guard[g].pc = "held"
      /\ seat' = [seat EXCEPT !.inhibitors = seat.inhibitors - 1]
      /\ guard' = [guard EXCEPT ![g] = [pc |-> "none", stops |-> None]]
      /\ UNCHANGED <<broker, revoked, box, native, handle, overlapped>>
  BY DEF DropInhibition, Uninhibited
<1> USE <1>0
<1>1. seat \in SeatType /\ guard \in [Guards -> [pc : {"none", "stopping", "held"}, stops : Owners \cup {None}]]
  BY DEF Typed
<1> USE <1>1
<1>2. Up' = Up \ {g} /\ g \in Up
  BY DEF Up
<1>3. Cardinality(Up') = Cardinality(Up) - 1 /\ Cardinality(Up) \in Nat /\ Up # {}
  BY <1>2, UpCount, FS_RemoveElement DEF SeatInv
<1>4. seat.inhibitors # 0 /\ seat.inhibitors = Cardinality(Up)
  BY <1>3, UpCount DEF SeatInv, Counted
<1>5. seat' \in SeatType
  BY <1>4, SeatAssumption, SMTT(30) DEF SeatType
<1>6. guard' \in [Guards -> [pc : {"none", "stopping", "held"}, stops : Owners \cup {None}]]
  OBVIOUS
<1>7. Counted'
  BY <1>3, <1>4 DEF Counted, SeatType
<1>8. Watched'
  <2> SUFFICES ASSUME NEW o \in Owners, broker[o].pc \in Live, ~ revoked[o]
               PROVE  FALSE
    BY DEF Watched
  <2> QED BY <1>2 DEF SeatInv, Watched
<1>9. Dated' /\ OverlappedNeverStarts' /\ Paired' /\ Truthful' /\ SeatIsExclusive'
  BY DEF SeatInv, Dated, OverlappedNeverStarts, Paired, Truthful, SeatIsExclusive, Owns,
     SeatType
<1> QED BY <1>5, <1>6, <1>7, <1>8, <1>9 DEF SeatInv

\* The broker's steps that take or leave the seat.
LEMMA ReserveSeat ==
    ASSUME Typed, SeatInv, NEW o \in Owners, Reserve(o)
    PROVE  SeatInv' /\ seat' \in SeatType /\ broker' \in [Owners -> [pc : BrokerSteps, epoch : Epochs]]
<1>0. /\ broker[o].pc = "idle" /\ seat.inhibitors = 0 /\ ~ seat.occupied
      /\ seat' = [seat EXCEPT !.occupied = TRUE]
      /\ broker' = [broker EXCEPT ![o] = [pc |-> "reserved", epoch |-> seat.epoch]]
      /\ UNCHANGED <<guard, revoked, box, native, handle, overlapped>>
  BY DEF Reserve, MayReserve, Reserved
<1> USE <1>0
<1>1. seat \in SeatType /\ broker \in [Owners -> [pc : BrokerSteps, epoch : Epochs]]
  BY DEF Typed
<1> USE <1>1
<1>2. seat' \in SeatType /\ seat'.occupied /\ seat'.inhibitors = seat.inhibitors
      /\ seat'.active = seat.active /\ seat'.epoch = seat.epoch
  BY DEF SeatType
<1> USE <1>2
<1>3. broker' \in [Owners -> [pc : BrokerSteps, epoch : Epochs]] /\ broker'[o].pc = "reserved"
      /\ broker'[o].epoch = seat.epoch /\ \A p \in Owners : p # o => broker'[p] = broker[p]
  BY DEF SeatType, BrokerSteps
<1> USE <1>3
<1>4. Up' = Up
  BY DEF Up
<1>5. Counted' /\ Truthful'
  BY <1>4 DEF SeatInv, Counted, Truthful
<1>6. Paired'
  BY DEF SeatInv, Paired
<1>7. Watched'
  BY <1>4 DEF SeatInv, Watched, Live
<1>8. o \notin overlapped
  BY DEF SeatInv, OverlappedNeverStarts
<1>9. OverlappedNeverStarts'
  BY <1>8 DEF SeatInv, OverlappedNeverStarts, Typed
<1>10. Dated'
  BY <1>8, SMTT(30) DEF SeatInv, Dated, SeatType, Epochs
<1>11. \A p \in Owners : ~ Owns(p)
  BY DEF SeatInv, SeatIsExclusive
<1>12. \A p \in Owners : p # o => ~ Owns(p)'
  BY <1>11 DEF Owns
<1>13. SeatIsExclusive'
  BY <1>12 DEF SeatIsExclusive
<1> QED BY <1>5, <1>6, <1>7, <1>9, <1>10, <1>13 DEF SeatInv

LEMMA InstallSeat ==
    ASSUME Typed, SeatInv, NEW o \in Owners, Install(o)
    PROVE  SeatInv' /\ seat' \in SeatType /\ broker' \in [Owners -> [pc : BrokerSteps, epoch : Epochs]]
<1>0. /\ broker[o].pc = "reserved" /\ seat.inhibitors = 0 /\ seat.epoch = broker[o].epoch
      /\ seat' = [seat EXCEPT !.active = o]
      /\ broker' = [broker EXCEPT ![o].pc = "installed"]
      /\ UNCHANGED <<guard, revoked, box, native, handle, overlapped>>
  BY DEF Install, MayInstall, Installed
<1> USE <1>0
<1>1. seat \in SeatType /\ broker \in [Owners -> [pc : BrokerSteps, epoch : Epochs]]
  BY DEF Typed
<1> USE <1>1
<1>2. seat' \in SeatType /\ seat'.occupied = seat.occupied /\ seat'.inhibitors = seat.inhibitors
      /\ seat'.active = o /\ seat'.epoch = seat.epoch
  BY DEF SeatType
<1> USE <1>2
<1>3. broker' \in [Owners -> [pc : BrokerSteps, epoch : Epochs]] /\ broker'[o].pc = "installed"
      /\ \A p \in Owners : p # o => broker'[p] = broker[p]
  BY DEF BrokerSteps
<1> USE <1>3
<1>4. Up' = Up /\ Up = {}
  BY UpCount DEF Up, SeatInv
<1>5. Counted' /\ Truthful'
  BY <1>4 DEF SeatInv, Counted, Truthful
<1>6. Paired'
  BY DEF SeatInv, Paired
<1>7. \A p \in Owners : Owns(p)' => Owns(p)
  BY DEF Owns
<1>8. SeatIsExclusive'
  BY <1>7 DEF SeatInv, SeatIsExclusive
<1>9. \A p \in Owners : broker[p].pc \in Live /\ ~ revoked[p] => p = o
  BY LiveOwns DEF SeatInv, SeatIsExclusive, Owns
<1>10. Watched'
  BY <1>4, <1>9 DEF Watched
<1>11. o \notin overlapped
  BY SMTT(30) DEF SeatInv, Dated, SeatType, Epochs
<1>12. OverlappedNeverStarts' /\ Dated'
  BY <1>11 DEF SeatInv, OverlappedNeverStarts, Dated, Typed
<1> QED BY <1>5, <1>6, <1>8, <1>10, <1>12 DEF SeatInv

LEMMA DropReservationSeat ==
    ASSUME Typed, SeatInv, NEW o \in Owners, DropReservation(o)
    PROVE  SeatInv' /\ seat' \in SeatType /\ broker' \in [Owners -> [pc : BrokerSteps, epoch : Epochs]]
<1>0. /\ broker[o].pc = "refusing"
      /\ seat' = [seat EXCEPT !.active = None, !.occupied = FALSE]
      /\ broker' = [broker EXCEPT ![o].pc = "ended"]
      /\ UNCHANGED <<guard, revoked, box, native, handle, overlapped>>
  BY DEF DropReservation, Released
<1> USE <1>0
<1>1. seat \in SeatType /\ broker \in [Owners -> [pc : BrokerSteps, epoch : Epochs]]
  BY DEF Typed
<1>2. seat' \in SeatType /\ ~ seat'.occupied /\ seat'.inhibitors = seat.inhibitors /\ seat'.epoch = seat.epoch
  BY <1>1 DEF SeatType
<1> USE <1>2
<1>3. broker' \in [Owners -> [pc : BrokerSteps, epoch : Epochs]] /\ broker'[o].pc = "ended"
      /\ \A p \in Owners : p # o => broker'[p] = broker[p]
  BY <1>1 DEF BrokerSteps
<1> USE <1>3
<1>4. Up' = Up
  BY DEF Up
<1>5. Counted' /\ Truthful'
  BY <1>4 DEF SeatInv, Counted, Truthful
<1>6. Paired'
  BY DEF SeatInv, Paired
<1>7. native[o].pc = "none" /\ ~ native[o].held /\ ~ native[o].dirty
  BY DEF SeatInv, Paired, Truthful, TruthfulThread
<1>8. \A p \in Owners : Owns(p) => p = o
  BY DEF SeatInv, SeatIsExclusive, Owns
<1>9. \A p \in Owners : ~ Owns(p)'
  BY <1>7, <1>8 DEF Owns
<1>10. SeatIsExclusive'
  BY <1>9 DEF SeatIsExclusive
<1>11. Watched'
  BY <1>8, LiveOwns DEF SeatInv, Watched, Live
<1>12. OverlappedNeverStarts' /\ Dated'
  BY DEF SeatInv, OverlappedNeverStarts, Dated, Typed
<1> QED BY <1>5, <1>6, <1>10, <1>11, <1>12 DEF SeatInv

\* The broker's other steps leave the seat alone.
LEMMA BrokerSeat ==
    ASSUME Typed, SeatInv, NEW o \in Owners,
           RefuseStart(o) \/ Spawn(o) \/ SpawnFails(o) \/ HandOver(o)
    PROVE  /\ SeatInv'
           /\ broker' \in [Owners -> [pc : BrokerSteps, epoch : Epochs]]
           /\ revoked' \in [Owners -> BOOLEAN]
<1>1. PICK to \in BrokerSteps :
          /\ broker' = [broker EXCEPT ![o].pc = to]
          /\ \/ broker[o].pc = "reserved" /\ to = "refusing" /\ native' = native /\ revoked' = revoked
             \/ broker[o].pc = "installed" /\ to = "spawned" /\ revoked' = revoked
                  /\ native' = [native EXCEPT ![o].pc = "factory"]
             \/ broker[o].pc = "installed" /\ to = "refusing" /\ native' = native
                  /\ revoked' = [revoked EXCEPT ![o] = TRUE]
             \/ broker[o].pc = "spawned" /\ to = "started" /\ native' = native /\ revoked' = revoked
  BY DEF RefuseStart, Spawn, SpawnFails, HandOver, BrokerSteps
<1>2. UNCHANGED <<seat, guard, overlapped>>
  BY DEF RefuseStart, Spawn, SpawnFails, HandOver
<1> USE <1>2
<1>3. /\ broker \in [Owners -> [pc : BrokerSteps, epoch : Epochs]]
      /\ native \in [Owners -> NativeType]
      /\ revoked \in [Owners -> BOOLEAN]
  BY DEF Typed
<1> USE <1>3
<1>4. /\ broker' \in [Owners -> [pc : BrokerSteps, epoch : Epochs]]
      /\ broker'[o].pc = to /\ broker'[o].epoch = broker[o].epoch
      /\ \A p \in Owners : p # o => broker'[p] = broker[p]
  BY <1>1
<1> USE <1>4
<1>5. /\ revoked' \in [Owners -> BOOLEAN]
      /\ \A p \in Owners : revoked[p] => revoked'[p]
      /\ \A p \in Owners : p # o => revoked'[p] = revoked[p]
      /\ broker[o].pc = "installed" /\ to = "refusing" => revoked'[o]
  BY <1>1
<1> USE <1>5
<1>6. /\ \A p \in Owners : p # o => native'[p] = native[p]
      /\ native'[o].held = native[o].held /\ native'[o].dirty = native[o].dirty
      /\ to # "spawned" => native'[o] = native[o]
      /\ to = "spawned" => native'[o].pc = "factory"
  BY <1>1, SMTT(30) DEF NativeType
<1> USE <1>6
<1>7. Up' = Up /\ Counted'
  BY DEF Up, SeatInv, Counted
<1>8. Paired'
  BY <1>1, SMTT(30) DEF SeatInv, Paired
<1>9. \A p \in Owners : TruthfulThread(native[p], revoked[p])
  BY DEF SeatInv, Truthful
<1>10. Truthful'
  <2> SUFFICES ASSUME NEW p \in Owners PROVE TruthfulThread(native'[p], revoked'[p])
    BY DEF Truthful
  <2>1. CASE p = o /\ to = "spawned"
    <3> USE <2>1
    <3>1. native[o].pc = "none"
      BY <1>1 DEF SeatInv, Paired
    <3> QED BY <1>9, <3>1 DEF TruthfulThread, Ending
  <2>2. CASE ~ (p = o /\ to = "spawned")
    BY <1>9, <2>2 DEF TruthfulThread
  <2> QED BY <2>1, <2>2
<1>11. \A p \in Owners : Owns(p)' => Owns(p)
  BY <1>1 DEF Owns
<1>13. SeatIsExclusive'
  BY <1>11 DEF SeatInv, SeatIsExclusive
<1>14. Watched'
  BY <1>1, <1>7, SMTT(30) DEF SeatInv, Watched, Live
<1>15. Dated' /\ OverlappedNeverStarts'
  BY <1>1 DEF SeatInv, Dated, OverlappedNeverStarts, Typed
<1> QED BY <1>7, <1>8, <1>10, <1>13, <1>14, <1>15 DEF SeatInv

\* The thread's steps before its last one.
LEMMA ThreadSeat ==
    ASSUME Typed, SeatInv, NEW o \in Owners, Thread(o)
    PROVE  SeatInv' /\ revoked' \in [Owners -> BOOLEAN]
<1>1. native \in [Owners -> NativeType] /\ revoked \in [Owners -> BOOLEAN]
  BY DEF Typed
<1>2. /\ revoked' \in [Owners -> BOOLEAN]
      /\ \A p \in Owners : revoked[p] => revoked'[p]
      /\ \A p \in Owners : p # o => revoked'[p] = revoked[p]
      /\ \A p \in Owners : p # o => native'[p] = native[p]
  BY <1>1 DEF Thread
<1> USE <1>2
<1>3. Up' = Up /\ Counted' /\ Dated' /\ OverlappedNeverStarts'
  BY DEF Thread, Up, SeatInv, Counted, Dated, OverlappedNeverStarts
<1>4. Paired' /\ Truthful'
  BY DEF Thread, SeatInv, Paired, Truthful
<1>5. Owns(o) /\ \A p \in Owners : Owns(p)' => Owns(p)
  BY DEF Thread, Owns
<1>6. SeatIsExclusive'
  BY <1>5 DEF Thread, SeatInv, SeatIsExclusive
<1>7. Watched'
  BY <1>3 DEF Thread, SeatInv, Watched
<1> QED BY <1>3, <1>4, <1>6, <1>7 DEF SeatInv

LEMMA FinishSeat ==
    ASSUME Typed, SeatInv, NEW o \in Owners, Finish(o)
    PROVE  SeatInv' /\ seat' \in SeatType
<1>0. /\ native[o].pc = "finish"
      /\ native' = [native EXCEPT ![o].pc = "finished"]
      /\ seat' = IF HandoffSafe(native[o].exit)
                 THEN [seat EXCEPT !.active = None, !.occupied = FALSE] ELSE seat
      /\ UNCHANGED <<guard, broker, revoked, overlapped>>
  BY DEF Finish, At, Goto, Surroundings, Released
<1> USE <1>0
<1>1. seat \in SeatType /\ native \in [Owners -> NativeType]
  BY DEF Typed
<1> USE <1>1
<1>2. seat' \in SeatType /\ seat'.inhibitors = seat.inhibitors /\ seat'.epoch = seat.epoch
      /\ (~ HandoffSafe(native[o].exit) => seat' = seat)
  BY DEF SeatType
<1> USE <1>2
<1>3. native'[o] = [native[o] EXCEPT !.pc = "finished"] /\ \A p \in Owners : p # o => native'[p] = native[p]
  OBVIOUS
<1> USE <1>3
<1>4. native'[o].pc = "finished" /\ native'[o].exit = native[o].exit
      /\ native'[o].held = native[o].held /\ native'[o].dirty = native[o].dirty
  BY SMTT(30) DEF NativeType
<1> USE <1>4
<1>5. revoked[o] /\ (HandoffSafe(native[o].exit) => ~ native[o].held /\ ~ native[o].dirty)
  BY DEF SeatInv, Truthful, TruthfulThread, Ending
<1> USE <1>5
<1>6. Up' = Up /\ Counted' /\ Dated' /\ OverlappedNeverStarts'
  BY DEF Up, SeatInv, Counted, Dated, OverlappedNeverStarts
<1>7. Paired'
  BY DEF SeatInv, Paired
<1>8. Truthful'
  BY DEF SeatInv, Truthful, TruthfulThread, Ending
<1>9. Owns(o) /\ \A p \in Owners : Owns(p) => p = o
  BY DEF SeatInv, SeatIsExclusive, Owns
<1> USE <1>9
<1>10. \A p \in Owners : Owns(p)' => p = o
  BY DEF Owns
<1>11. broker[o].pc \in {"spawned", "started"}
  BY DEF SeatInv, Paired
<1>12. HandoffSafe(native[o].exit) => ~ Owns(o)'
  BY <1>11 DEF Owns
<1>13. SeatIsExclusive'
  BY <1>10, <1>12 DEF SeatInv, SeatIsExclusive
<1>14. \A p \in Owners : broker[p].pc \in Live => revoked[p]
  BY LiveOwns DEF SeatInv
<1>15. Watched'
  BY <1>14 DEF Watched
<1> QED BY <1>6, <1>7, <1>8, <1>13, <1>15 DEF SeatInv

\* The handles stop leases and touch nothing else of the seat.
LEMMA HandleSeat ==
    ASSUME Typed, SeatInv, NEW o \in Owners, HandleStep(o)
    PROVE  SeatInv' /\ revoked' \in [Owners -> BOOLEAN] /\ UNCHANGED <<seat, guard, broker, native, overlapped>>
<1>1. /\ UNCHANGED <<seat, guard, broker, native, overlapped>>
      /\ revoked' = revoked \/ revoked' = [revoked EXCEPT ![o] = TRUE]
  BY DEF HandleStep, StopLease, Enqueue, Collect, RetryCleanup, DriverReports, DropHandle,
         Abandon, ThreadsAside, Stopped
<1> USE <1>1
<1>2. revoked' \in [Owners -> BOOLEAN] /\ \A p \in Owners : revoked[p] => revoked'[p]
  BY DEF Typed
<1>3. Up' = Up /\ Counted' /\ Dated' /\ OverlappedNeverStarts' /\ Paired' /\ SeatIsExclusive'
  BY DEF Up, SeatInv, Counted, Dated, OverlappedNeverStarts, Paired,
     SeatIsExclusive, Owns
<1>4. Truthful' /\ Watched'
  BY <1>2, <1>3 DEF SeatInv, Truthful, TruthfulThread, Watched
<1> QED BY <1>2, <1>3, <1>4 DEF SeatInv

-----------------------------------------------------------------------------
(* The invariant and the theorems.                                         *)

Inv == Typed /\ Mail /\ SeatInv

\* The steps of one owner keep every owner's records.
LEMMA OnlyGood ==
    ASSUME Typed, Mail, NEW o \in Owners, Only(o), Good(o)
    PROVE  /\ box' \in [Owners -> BoxType]
           /\ native' \in [Owners -> NativeType]
           /\ handle' \in [Owners -> HandleType]
           /\ Mail'
<1>1. /\ box \in [Owners -> BoxType] /\ native \in [Owners -> NativeType]
      /\ handle \in [Owners -> HandleType]
  BY DEF Typed
<1>2. /\ box' \in [Owners -> BoxType] /\ native' \in [Owners -> NativeType]
      /\ handle' \in [Owners -> HandleType]
  BY <1>1 DEF Only, Good
<1>3. \A p \in Owners : p # o => box'[p] = box[p] /\ native'[p] = native[p] /\ handle'[p] = handle[p]
  BY <1>1 DEF Only
<1>4. Mail'
  BY <1>3 DEF Mail, Good
<1> QED BY <1>2, <1>4

LEMMA NativeStepGood ==
    ASSUME Typed, Mail, NEW o \in Owners, NativeStep(o)
    PROVE  Only(o) /\ Good(o)
  BY FactoryBuildsGood, FactoryRefusesGood, AnswerRefusedGood, LoopCheckGood, TakeCommandGood,
     DecideGood, PrepareGood, SubmitGood, FenceResultGood, PublishReplyGood, TeardownGood,
     CleanupGood, PublishCleanupGood, AwaitRetryGood, DestroyGood, UnwindGood, FinalStopGood,
     FinishGood DEF NativeStep

LEMMA HandleStepGood ==
    ASSUME Typed, Mail, NEW o \in Owners, HandleStep(o)
    PROVE  UNCHANGED <<box, native, handle>> \/ (Only(o) /\ Good(o))
<1>1. CASE StopLease(o)
  BY <1>1 DEF StopLease, ThreadsAside
<1>2. CASE \E which \in {"agent", "driver"} : DropHandle(o, which) \/ Abandon(o, which)
  BY <1>2, Drop_agent_Good, Drop_driver_Good, Abandon_agent_Good, Abandon_driver_Good
<1> QED BY <1>1, <1>2, EnqueueGood, CollectGood, RetryCleanupGood, DriverReportsGood DEF HandleStep

LEMMA InitInv == Init => Inv
<1> SUFFICES ASSUME Init PROVE Inv
  OBVIOUS
<1>1. /\ seat \in SeatType
      /\ guard \in [Guards -> [pc : {"none", "stopping", "held"}, stops : Owners \cup {None}]]
      /\ broker \in [Owners -> [pc : BrokerSteps, epoch : Epochs]]
      /\ revoked \in [Owners -> BOOLEAN]
      /\ overlapped \in SUBSET Owners
  BY SMTT(30), SeatAssumption DEF Init, NewSeat, SeatType, Epochs, BrokerSteps
<1>2. box \in [Owners -> BoxType] /\ handle \in [Owners -> HandleType]
  BY SMTT(30), AgentAssumption DEF Init, NewBox, BoxType, HandleType
<1>3. native \in [Owners -> NativeType]
  BY DEF Init, NativeType, NativeSteps
<1>4. Mail
  BY DEF Init, NewBox, Mail, MailRec, Taking, Ending
<1>5. Up = {}
  BY DEF Init, Up
<1>6. Counted
  BY <1>5, FS_EmptySet DEF Init, NewSeat, Counted
<1>7. Paired /\ Truthful /\ SeatIsExclusive
  BY DEF Init, Paired, Truthful, TruthfulThread, Ending, SeatIsExclusive, Owns
<1>8. Watched /\ Dated /\ OverlappedNeverStarts
  BY DEF Init, Watched, Live, Dated, OverlappedNeverStarts
<1> QED BY <1>1, <1>2, <1>3, <1>4, <1>6, <1>7, <1>8 DEF Inv, Typed, SeatInv

LEMMA NextInv == Inv /\ [Next]_vars => Inv'
<1> SUFFICES ASSUME Typed, Mail, SeatInv, [Next]_vars
             PROVE  Typed' /\ Mail' /\ SeatInv'
  BY DEF Inv
<1> USE DEF Typed
<1>1. ASSUME NEW g \in Guards, Inhibit(g) PROVE Typed' /\ Mail' /\ SeatInv'
  <2> USE <1>1
  <2>1. UNCHANGED <<broker, revoked, box, native, handle>> /\ overlapped' \in SUBSET Owners
    BY DEF Inhibit
  <2> QED BY <2>1, InhibitSeat DEF Mail
<1>2. ASSUME NEW g \in Guards, InhibitStop(g) PROVE Typed' /\ Mail' /\ SeatInv'
  <2> USE <1>2
  <2>1. UNCHANGED <<seat, broker, box, native, handle, overlapped>>
    BY DEF InhibitStop
  <2> QED BY <2>1, InhibitStopSeat DEF Mail
<1>3. ASSUME NEW g \in Guards, DropInhibition(g) PROVE Typed' /\ Mail' /\ SeatInv'
  <2> USE <1>3
  <2>1. UNCHANGED <<broker, revoked, box, native, handle, overlapped>>
    BY DEF DropInhibition
  <2> QED BY <2>1, DropInhibitionSeat DEF Mail
<1>4. ASSUME NEW o \in Owners, BrokerStep(o) PROVE Typed' /\ Mail' /\ SeatInv'
  <2>1. CASE Reserve(o) \/ Install(o) \/ DropReservation(o)
    <3> USE <2>1
    <3>1. UNCHANGED <<guard, revoked, box, native, handle, overlapped>>
      BY DEF Reserve, Install, DropReservation
    <3> QED BY <3>1, ReserveSeat, InstallSeat, DropReservationSeat DEF Mail
  <2>2. CASE RefuseStart(o) \/ SpawnFails(o)
    <3> USE <2>2
    <3>1. UNCHANGED <<seat, guard, box, native, handle, overlapped>>
      BY DEF RefuseStart, SpawnFails
    <3> QED BY <3>1, BrokerSeat DEF Mail
  <2>3. CASE Spawn(o) \/ HandOver(o)
    <3> USE <2>3
    <3>1. UNCHANGED <<seat, guard, overlapped>>
      BY DEF Spawn, HandOver
    <3>2. Only(o) /\ Good(o)
      BY SpawnGood, HandOverGood DEF SeatInv
    <3> QED BY <3>1, <3>2, BrokerSeat, OnlyGood
  <2> QED BY <1>4, <2>1, <2>2, <2>3 DEF BrokerStep
<1>5. ASSUME NEW o \in Owners, NativeStep(o) PROVE Typed' /\ Mail' /\ SeatInv'
  <2> USE <1>5
  <2>1. Only(o) /\ Good(o)
    BY NativeStepGood
  <2>2. CASE Finish(o)
    <3> USE <2>2
    <3>1. UNCHANGED <<guard, broker, revoked, overlapped>>
      BY DEF Finish, Surroundings
    <3> QED BY <2>1, <3>1, FinishSeat, OnlyGood
  <2>3. CASE ~ Finish(o)
    <3>1. Thread(o)
      BY <2>3, ThreadSteps DEF SeatInv
    <3>2. UNCHANGED <<seat, guard, broker, overlapped>>
      BY <3>1 DEF Thread
    <3> QED BY <2>1, <3>1, <3>2, ThreadSeat, OnlyGood
  <2> QED BY <2>2, <2>3
<1>6. ASSUME NEW o \in Owners, HandleStep(o) PROVE Typed' /\ Mail' /\ SeatInv'
  <2> USE <1>6
  <2>1. UNCHANGED <<box, native, handle>> \/ (Only(o) /\ Good(o))
    BY HandleStepGood
  <2>2. /\ box' \in [Owners -> BoxType] /\ native' \in [Owners -> NativeType]
        /\ handle' \in [Owners -> HandleType] /\ Mail'
    BY <2>1, OnlyGood DEF Mail
  <2> QED BY <2>2, HandleSeat
<1>7. CASE UNCHANGED vars
  BY <1>7, SMTT(30) DEF vars, Mail, SeatInv, Paired, Truthful, SeatIsExclusive, Owns, Counted, Up, Watched,
     Dated, OverlappedNeverStarts
<1> QED BY <1>1, <1>2, <1>3, <1>4, <1>5, <1>6, <1>7 DEF Next

LEMMA AlwaysInv == Spec => []Inv
  BY InitInv, NextInv, PTL DEF Spec

\* What the agent's states look like, for any number of owners, barriers and
\* commands: the structs of input_agent.rs keep their types.
THEOREM AgentTypes == Spec => []TypeOK
<1>1. Inv => TypeOK
  BY TypedIsTypeOK DEF Inv
<1> QED BY AlwaysInv, <1>1, PTL

\* The seat of input_agent/seat.rs has one owner at a time, and is occupied for as long
\* as that owner's reservation, thread, held input or unrestored native
\* state lasts.
THEOREM OneOwner == Spec => []SeatIsExclusive
<1>1. Inv => SeatIsExclusive
  BY DEF Inv, SeatInv
<1> QED BY AlwaysInv, <1>1, PTL

\* Under a barrier that Seat::inhibit has returned, no owner's lease is alive.
THEOREM BarrierHolds == Spec => []BarrierStopsOwners
<1>1. Inv => BarrierStopsOwners
  BY DEF Inv, SeatInv, Watched, Live, Up, BarrierStopsOwners
<1> QED BY AlwaysInv, <1>1, PTL

\* A reservation that a barrier overlapped is refused by Seat::install,
\* whether or not the barrier is still there.
THEOREM OverlapRefused == Spec => []OverlappedNeverStarts
<1>1. Inv => OverlappedNeverStarts
  BY DEF Inv, SeatInv
<1> QED BY AlwaysInv, <1>1, PTL

\* A shutdown report that allows handoff is true of the thread and of the
\* machine.
THEOREM ReportIsTrue == Spec => []SafeReportIsTrue
<1>1. Inv => SafeReportIsTrue
  <2> SUFFICES ASSUME Inv, NEW o \in Owners, handle[o].report # None, HandoffSafe(handle[o].report)
               PROVE  ~ Owns(o)
    BY DEF SafeReportIsTrue
  <2>1. native[o].pc = "finished" /\ HandoffSafe(native[o].exit)
    BY DEF Inv, Mail, MailRec
  <2> USE <2>1
  <2>2. ~ native[o].held /\ ~ native[o].dirty
    BY DEF Inv, SeatInv, Truthful, TruthfulThread, Ending
  <2>3. broker[o].pc \in {"spawned", "started"}
    BY DEF Inv, SeatInv, Paired
  <2> QED BY <2>2, <2>3 DEF Owns
<1> QED BY AlwaysInv, <1>1, PTL

\* Inhibition::is_ready, once true, stays true while the barrier is up.
THEOREM ReadyStays == Spec => ReadyIsStable
<1> DEFINE Stable == \A g \in Guards :
                 guard[g].pc = "held" /\ guard'[g].pc = "held" /\ ~ seat.occupied => ~ seat'.occupied
<1>1. Inv /\ [Next]_vars => [Stable]_vars
  <2> SUFFICES ASSUME Inv, Next, NEW g \in Guards, guard[g].pc = "held", ~ seat.occupied
               PROVE  ~ seat'.occupied
    BY DEF vars
  <2>1. seat.inhibitors # 0 /\ seat \in SeatType
    BY UpCount DEF Inv, SeatInv, Up, Typed
  <2> USE <2>1
  <2>2. ASSUME NEW k \in Guards, Inhibit(k) \/ InhibitStop(k) \/ DropInhibition(k)
        PROVE  ~ seat'.occupied
    BY <2>2 DEF Inhibit, Inhibited, InhibitStop, DropInhibition, Uninhibited,
       SeatType
  <2>3. ASSUME NEW o \in Owners, BrokerStep(o) PROVE ~ seat'.occupied
    BY <2>3 DEF BrokerStep, Reserve, MayReserve, RefuseStart, Install,
       MayInstall, Spawn, SpawnFails, HandOver, DropReservation, Released, SeatType
  <2>4. ASSUME NEW o \in Owners, NativeStep(o) PROVE ~ seat'.occupied
    <3>1. CASE Finish(o)
      BY <3>1 DEF Finish, Released, SeatType
    <3>2. CASE ~ Finish(o)
      BY <2>4, <3>2, ThreadSteps DEF Thread, Inv, SeatInv
    <3> QED BY <3>1, <3>2
  <2>5. ASSUME NEW o \in Owners, HandleStep(o) PROVE ~ seat'.occupied
    BY <2>5, HandleSeat DEF Inv
  <2> QED BY <2>2, <2>3, <2>4, <2>5 DEF Next
<1> QED BY AlwaysInv, <1>1, PTL DEF Spec, ReadyIsStable

\* The one-slot mailbox never mixes up commands and replies.
THEOREM RepliesAreOwn == Spec => []ReplyIsOwn
<1>1. Inv => ReplyIsOwn
  BY DEF Inv, Mail, MailRec, ReplyIsOwn
<1> QED BY AlwaysInv, <1>1, PTL

\* The finalizer of the native thread leaves no command without an answer.
THEOREM NoneUnanswered == Spec => []FinishedHasAnswered
<1>1. Inv => FinishedHasAnswered
  BY DEF Inv, Mail, MailRec, FinishedHasAnswered
<1> QED BY AlwaysInv, <1>1, PTL

-----------------------------------------------------------------------------
(* Replies that end the lease.                                             *)

EndingReplies == {"GeometryChanged", "NativePanic", "InitializationFailed"}

FencedRec(b, r, stopped) ==
    /\ r.pc = "refused" => stopped
    /\ r.pc = "answer" /\ r.result \in EndingReplies => stopped
    /\ b.reply # None /\ b.reply.kind \in EndingReplies => stopped

Fenced == \A o \in Owners : FencedRec(box[o], native[o], revoked[o])

LEMMA NativeFenced ==
    ASSUME Inv, NEW o \in Owners, FencedRec(box[o], native[o], revoked[o]), NativeStep(o)
    PROVE  FencedRec(box'[o], native'[o], revoked'[o])
<1>0. /\ native \in [Owners -> NativeType] /\ native[o] \in NativeType
      /\ box \in [Owners -> BoxType] /\ box[o] \in BoxType
      /\ revoked \in [Owners -> BOOLEAN]
      /\ native[o].pc = "finish" => revoked[o]
  BY DEF Inv, Typed, SeatInv, Truthful, TruthfulThread
<1> USE <1>0
<1> USE DEF FencedRec, Surroundings, At, Goto, Stopped, Answer, NativeType, BoxType
<1>1. CASE FactoryBuilds(o)
  BY <1>1, SMTT(30) DEF FactoryBuilds, EndingReplies
<1>2. CASE FactoryRefuses(o)
  BY <1>2 DEF FactoryRefuses, EndingReplies
<1>3. CASE AnswerRefused(o)
  BY <1>3 DEF AnswerRefused, EndingReplies
<1>4. CASE LoopCheck(o)
  BY <1>4, SMTT(30) DEF LoopCheck, EndingReplies
<1>5. CASE TakeCommand(o)
  BY <1>5 DEF TakeCommand, EndingReplies
<1>6. CASE Decide(o)
  BY <1>6, SMTT(30) DEF Decide, EndingReplies
<1>7. CASE Prepare(o)
  BY <1>7, SMTT(30) DEF Prepare, EndingReplies
<1>8. CASE Submit(o)
  BY <1>8, SMTT(30) DEF Submit, EndingReplies
<1>9. CASE FenceResult(o)
  BY <1>9 DEF FenceResult, EndingReplies
<1>10. CASE PublishReply(o)
  BY <1>10 DEF PublishReply, EndingReplies
<1>11. CASE Teardown(o)
  BY <1>11 DEF Teardown, EndingReplies
<1>12. CASE Cleanup(o)
  BY <1>12, SMTT(30) DEF Cleanup, EndingReplies
<1>13. CASE PublishCleanup(o)
  BY <1>13 DEF PublishCleanup, EndingReplies
<1>14. CASE AwaitRetry(o)
  BY <1>14 DEF AwaitRetry, EndingReplies
<1>15. CASE Destroy(o)
  BY <1>15 DEF Destroy, EndingReplies
<1>16. CASE Unwind(o)
  BY <1>16 DEF Unwind, EndingReplies
<1>17. CASE FinalStop(o)
  BY <1>17 DEF FinalStop, EndingReplies
<1>18. CASE Finish(o)
  BY <1>18 DEF Finish, EndingReplies
<1> QED BY <1>1, <1>2, <1>3, <1>4, <1>5, <1>6, <1>7, <1>8, <1>9, <1>10, <1>11, <1>12, <1>13, <1>14, <1>15, <1>16, <1>17, <1>18 DEF NativeStep

\* Nothing takes back a stop.
LEMMA StopsStay ==
    ASSUME Inv, [Next]_vars
    PROVE  \A p \in Owners : revoked[p] => revoked'[p]
<1>1. revoked \in [Owners -> BOOLEAN]
  BY DEF Inv, Typed
<1>2. ASSUME NEW g \in Guards, Inhibit(g) \/ InhibitStop(g) \/ DropInhibition(g)
      PROVE  \A p \in Owners : revoked[p] => revoked'[p]
  BY <1>1, <1>2 DEF Inhibit, InhibitStop, DropInhibition
<1>3. ASSUME NEW o \in Owners, BrokerStep(o) \/ NativeStep(o) \/ HandleStep(o)
      PROVE  revoked' = revoked \/ revoked' = [revoked EXCEPT ![o] = TRUE]
  <2>1. CASE BrokerStep(o)
    BY <2>1 DEF BrokerStep, Reserve, RefuseStart, Install, Spawn, SpawnFails, HandOver, DropReservation
  <2>2. CASE Finish(o)
    BY <2>2 DEF Finish
  <2>3. CASE NativeStep(o) /\ ~ Finish(o)
    BY <2>3, ThreadSteps DEF Inv, SeatInv, Thread
  <2>4. CASE HandleStep(o)
    BY <2>4 DEF HandleStep, StopLease, Enqueue, Collect, RetryCleanup, DriverReports,
       DropHandle, Abandon, Stopped
  <2> QED BY <1>3, <2>1, <2>2, <2>3, <2>4
<1>4. CASE UNCHANGED vars
  BY <1>4 DEF vars
<1> QED BY <1>1, <1>2, <1>3, <1>4 DEF Next

LEMMA HandleFenced ==
    ASSUME Inv, NEW o \in Owners, HandleStep(o)
    PROVE  box'[o].reply = None \/ box'[o].reply = box[o].reply
<1>0. box \in [Owners -> BoxType] /\ box[o] \in BoxType
  BY DEF Inv, Typed
<1>1. CASE UNCHANGED box
  BY <1>1
<1>2. CASE Enqueue(o) \/ Collect(o) \/ RetryCleanup(o)
  BY <1>0, <1>2, SMTT(30) DEF Enqueue, Collect, RetryCleanup, BoxType
<1>3. CASE Abandon(o, "agent") \/ Abandon(o, "driver")
  BY <1>0, <1>3 DEF Abandon, BoxType
<1> QED BY <1>1, <1>2, <1>3 DEF HandleStep, StopLease, DriverReports, DropHandle

LEMMA NextFenced == Inv /\ Fenced /\ [Next]_vars => Fenced'
<1> SUFFICES ASSUME Inv, Fenced, [Next]_vars, NEW p \in Owners
             PROVE  FencedRec(box'[p], native'[p], revoked'[p])
  BY DEF Fenced
<1>0. FencedRec(box[p], native[p], revoked[p]) /\ (revoked[p] => revoked'[p])
  BY StopsStay DEF Fenced
<1> USE <1>0
<1>1. CASE /\ native'[p].pc = native[p].pc /\ native'[p].result = native[p].result
           /\ box'[p].reply = None \/ box'[p].reply = box[p].reply
  BY <1>1 DEF FencedRec
<1>2. ASSUME NEW g \in Guards, Inhibit(g) \/ InhibitStop(g) \/ DropInhibition(g)
      PROVE  UNCHANGED <<box, native>>
  BY <1>2 DEF Inhibit, InhibitStop, DropInhibition
<1>3. ASSUME NEW o \in Owners, BrokerStep(o)
      PROVE  FencedRec(box'[p], native'[p], revoked'[p])
  <2> USE <1>3
  <2>1. native \in [Owners -> NativeType] /\ native[p] \in NativeType
    BY DEF Inv, Typed
  <2>2. box' = box
    BY DEF BrokerStep, Reserve, RefuseStart, Install, Spawn, SpawnFails, HandOver,
       DropReservation
  <2>3. native' = native \/ native' = [native EXCEPT ![o].pc = "factory"]
    BY DEF BrokerStep, Reserve, RefuseStart, Install, Spawn, SpawnFails, HandOver,
       DropReservation
  <2> QED BY SMTT(30), <2>1, <2>2, <2>3 DEF FencedRec, NativeType
<1>4. ASSUME NEW o \in Owners, NativeStep(o)
      PROVE  FencedRec(box'[p], native'[p], revoked'[p])
  <2> USE <1>4
  <2>1. CASE p = o
    BY <2>1, NativeFenced
  <2>2. CASE p # o
    <3>1. Only(o)
      BY NativeStepGood DEF Inv
    <3>2. box'[p] = box[p] /\ native'[p] = native[p]
      BY <2>2, <3>1 DEF Only, Inv, Typed
    <3> QED BY <3>2 DEF FencedRec
  <2> QED BY <2>1, <2>2
<1>5. ASSUME NEW o \in Owners, HandleStep(o)
      PROVE  FencedRec(box'[p], native'[p], revoked'[p])
  <2> USE <1>5
  <2>1. native' = native
    BY HandleSeat DEF Inv
  <2>2. CASE p = o
    BY <1>1, <2>1, <2>2, HandleFenced
  <2>3. CASE p # o
    <3>1. UNCHANGED <<box, native, handle>> \/ Only(o)
      BY HandleStepGood DEF Inv
    <3>2. box'[p] = box[p]
      BY <2>3, <3>1 DEF Only, Inv, Typed
    <3> QED BY <1>1, <2>1, <3>2
  <2> QED BY <2>2, <2>3
<1>6. CASE UNCHANGED vars
  BY <1>1, <1>6 DEF vars
<1> QED BY <1>1, <1>2, <1>3, <1>4, <1>5, <1>6 DEF Next

\* A panic, a changed display or a missing sink is reported to the Agent only
\* after the lease is stopped: the next command can no longer start.
THEOREM EndingIsFenced == Spec => []EndingReplyIsFenced
<1>1. Init => Fenced
  <2> SUFFICES ASSUME Init, NEW o \in Owners PROVE FencedRec(box[o], native[o], revoked[o])
    BY DEF Fenced
  <2>1. native[o].pc = "none" /\ box[o].reply = None
    BY DEF Init, NewBox
  <2> QED BY <2>1 DEF FencedRec
<1>2. Fenced => EndingReplyIsFenced
  BY DEF Fenced, FencedRec, EndingReplies, EndingReplyIsFenced
<1> QED BY AlwaysInv, NextFenced, <1>1, <1>2, PTL DEF Spec

\* No command is left unanswered by a finished owner, and an answer that ends the lease
\* comes behind its stop.
THEOREM EveryCommandAnswered == Spec => []CommandsAreAnswered
  BY NoneUnanswered, EndingIsFenced, PTL DEF CommandsAreAnswered

-----------------------------------------------------------------------------
(* The seat as seen from outside.                                          *)

Holder == {o \in Owners : Owns(o)}
LiveNow == {o \in Owners : broker[o].pc \in {"installed", "spawned", "started"} /\ ~ revoked[o]}
Raised == {g \in Guards : guard[g].pc = "held"}

\* At most one holder, nobody live beside it, and nobody live under a barrier.
LEMMA OutsideShape ==
    ASSUME Typed, SeatInv
    PROVE  /\ \A o, p \in Holder : o = p
           /\ LiveNow \subseteq Holder
           /\ LiveNow # {} => Raised = {}
           /\ \A o \in LiveNow : seat.active = o
           /\ ~ seat.occupied => Holder = {}
           /\ seat.inhibitors = 0 => Raised = {}
<1>1. \A o, p \in Holder : o = p
  BY DEF Holder, SeatInv, SeatIsExclusive
<1>2. LiveNow \subseteq Holder
  BY LiveOwns DEF SeatInv, LiveNow, Holder, Live
<1>3. \A o \in LiveNow : seat.active = o /\ Raised = {}
  BY DEF LiveNow, SeatInv, Watched, Live, Raised, Up
<1>4. ~ seat.occupied => Holder = {}
  BY DEF Holder, SeatInv, SeatIsExclusive
<1>5. seat.inhibitors = 0 => Raised = {}
  BY UpCount DEF SeatInv, Up, Raised
<1> QED BY <1>1, <1>2, <1>3, <1>4, <1>5

\* A step that at most stops leases.
LEMMA StopsOnly ==
    ASSUME Typed, SeatInv, Holder' = Holder, Raised' = Raised, LiveNow' \subseteq LiveNow
    PROVE  Contract!Stop \/ UNCHANGED Contract!vars
<1>1. LiveNow' = LiveNow \/ LiveNow' = {}
  BY OutsideShape
<1>2. CASE LiveNow' = LiveNow
  BY <1>2 DEF Contract!vars, Holder, LiveNow, Raised
<1>3. CASE LiveNow' = {}
  BY <1>3 DEF Contract!Stop, Holder, LiveNow, Raised
<1> QED BY <1>1, <1>2, <1>3

LEMMA BarrierOutside ==
    ASSUME Typed, SeatInv, NEW g \in Guards, Inhibit(g) \/ InhibitStop(g) \/ DropInhibition(g)
    PROVE  Contract!Raise(g) \/ Contract!Lower(g) \/ Contract!Stop \/ UNCHANGED Contract!vars
<1>0. /\ guard \in [Guards -> [pc : {"none", "stopping", "held"}, stops : Owners \cup {None}]]
      /\ revoked \in [Owners -> BOOLEAN]
      /\ UNCHANGED <<broker, native>>
  BY DEF Typed, Inhibit, InhibitStop, DropInhibition
<1> USE <1>0
<1>1. Holder' = Holder
  BY DEF Holder, Owns
<1> USE <1>1
<1>2. CASE Inhibit(g)
  <2> USE <1>2
  <2>1. LiveNow' = LiveNow
    BY DEF Inhibit, LiveNow
  <2>2. CASE seat.active = None
    <3> USE <2>2
    <3>1. LiveNow = {}
      BY OutsideShape, SeatAssumption DEF LiveNow
    <3>2. Raised' = Raised \cup {g}
      BY DEF Inhibit, Raised
    <3> QED BY <2>1, <3>1, <3>2 DEF Contract!Raise, Holder, LiveNow, Raised
  <2>3. CASE seat.active # None
    <3>1. Raised' = Raised
      BY <2>3 DEF Inhibit, Raised
    <3> QED BY <2>1, <3>1, StopsOnly
  <2> QED BY <2>2, <2>3
<1>3. CASE InhibitStop(g)
  <2> USE <1>3
  <2>1. LiveNow' = {}
    <3> SUFFICES ASSUME NEW o \in LiveNow' PROVE FALSE
      OBVIOUS
    <3>1. o \in LiveNow
      BY DEF InhibitStop, LiveNow
    <3>2. guard[g].stops = o
      BY <3>1 DEF InhibitStop, LiveNow, SeatInv, Watched, Live, Up
    <3> QED BY <3>1, <3>2 DEF InhibitStop, LiveNow
  <2>2. Raised' = Raised \cup {g}
    BY DEF InhibitStop, Raised
  <2> QED BY <2>1, <2>2 DEF Contract!Raise, Holder, LiveNow, Raised
<1>4. CASE DropInhibition(g)
  <2>1. LiveNow' = LiveNow /\ Raised' = Raised \ {g}
    BY <1>4 DEF DropInhibition, LiveNow, Raised
  <2> QED BY <2>1 DEF Contract!Lower, Holder, LiveNow, Raised
<1> QED BY <1>2, <1>3, <1>4

LEMMA BrokerOutside ==
    ASSUME Typed, SeatInv, NEW o \in Owners, BrokerStep(o)
    PROVE  \/ Contract!Take(o) \/ Contract!GoLive(o) \/ Contract!Leave
           \/ Contract!Stop \/ UNCHANGED Contract!vars
<1>0. /\ broker \in [Owners -> [pc : BrokerSteps, epoch : Epochs]]
      /\ native \in [Owners -> NativeType]
      /\ revoked \in [Owners -> BOOLEAN]
  BY DEF Typed
<1> USE <1>0
<1>1. Raised' = Raised
  BY DEF BrokerStep, Reserve, RefuseStart, Install, Spawn, SpawnFails, HandOver, DropReservation, Raised
<1> USE <1>1
<1>2. CASE Reserve(o)
  <2> USE <1>2
  <2>1. Holder = {} /\ Raised = {}
    BY OutsideShape DEF Reserve, MayReserve
  <2>2. /\ \A p \in Owners : p # o => broker'[p] = broker[p]
        /\ broker'[o].pc = "reserved" /\ broker[o].pc = "idle" /\ UNCHANGED <<native, revoked>>
    BY DEF Reserve
  <2>3. Holder' = {o}
    BY <2>1, <2>2 DEF Holder, Owns
  <2>4. LiveNow' = LiveNow
    BY <2>2 DEF LiveNow
  <2> QED BY <2>1, <2>3, <2>4 DEF Contract!Take, Holder, LiveNow, Raised
<1>3. CASE Install(o)
  <2>1. /\ \A p \in Owners : p # o => broker'[p] = broker[p]
        /\ broker'[o].pc = "installed" /\ broker[o].pc = "reserved" /\ UNCHANGED <<native, revoked>>
        /\ seat.inhibitors = 0
    BY <1>3 DEF Install, MayInstall
  <2> USE <2>1
  <2>2. Holder = {o} /\ Holder' = Holder
    <3>1. o \in Holder
      BY DEF Holder, Owns
    <3>2. Holder' = Holder
      BY DEF Holder, Owns
    <3> QED BY <3>1, <3>2, OutsideShape
  <2> USE <2>2
  <2>3. Raised = {}
    BY OutsideShape
  <2>4. LiveNow = {}
    BY OutsideShape DEF LiveNow
  <2>5. CASE revoked[o]
    <3>1. LiveNow' = LiveNow
      BY <2>5 DEF LiveNow
    <3> QED BY <3>1, StopsOnly
  <2>6. CASE ~ revoked[o]
    <3>1. LiveNow' = {o}
      BY <2>4, <2>6 DEF LiveNow
    <3> QED BY <2>3, <3>1 DEF Contract!GoLive, Holder, LiveNow, Raised
  <2> QED BY <2>5, <2>6
<1>4. CASE DropReservation(o)
  <2>1. /\ \A p \in Owners : p # o => broker'[p] = broker[p]
        /\ broker'[o].pc = "ended" /\ broker[o].pc = "refusing" /\ UNCHANGED <<native, revoked>>
    BY <1>4 DEF DropReservation
  <2> USE <2>1
  <2>2. \A p \in Holder : p = o
    BY OutsideShape DEF Holder, Owns
  <2>3. native[o].pc = "none" /\ ~ native[o].held /\ ~ native[o].dirty
    BY DEF SeatInv, Paired, Truthful, TruthfulThread
  <2>4. Holder' = {}
    BY <2>2, <2>3 DEF Holder, Owns
  <2>5. LiveNow = {} /\ LiveNow' = {}
    BY <2>2, OutsideShape, SMTT(30) DEF LiveNow
  <2> QED BY <2>4, <2>5 DEF Contract!Leave, Holder, LiveNow, Raised
<1>5. CASE RefuseStart(o) \/ Spawn(o) \/ SpawnFails(o) \/ HandOver(o)
  <2>1. PICK to \in BrokerSteps :
          /\ broker' = [broker EXCEPT ![o].pc = to]
          /\ \/ broker[o].pc = "reserved" /\ to = "refusing" /\ native' = native /\ revoked' = revoked
             \/ broker[o].pc = "installed" /\ to = "spawned" /\ revoked' = revoked
                  /\ native' = [native EXCEPT ![o].pc = "factory"]
             \/ broker[o].pc = "installed" /\ to = "refusing" /\ native' = native
                  /\ revoked' = [revoked EXCEPT ![o] = TRUE]
             \/ broker[o].pc = "spawned" /\ to = "started" /\ native' = native /\ revoked' = revoked
    BY <1>5 DEF RefuseStart, Spawn, SpawnFails, HandOver, BrokerSteps
  <2>2. broker'[o].pc = to /\ \A p \in Owners : p # o => broker'[p] = broker[p]
    BY <2>1
  <2>3. /\ \A p \in Owners : p # o => native'[p] = native[p]
        /\ native'[o].held = native[o].held /\ native'[o].dirty = native[o].dirty
        /\ to # "spawned" => native'[o] = native[o]
        /\ to = "spawned" => native'[o].pc = "factory"
    BY <2>1, SMTT(30) DEF NativeType
  <2>4. Holder' = Holder
    BY <2>1, <2>2, <2>3 DEF Holder, Owns
  <2>5. LiveNow' \subseteq LiveNow
    BY <2>1, <2>2 DEF LiveNow
  <2> QED BY <2>4, <2>5, StopsOnly
<1> QED BY <1>2, <1>3, <1>4, <1>5 DEF BrokerStep

LEMMA NativeOutside ==
    ASSUME Typed, Mail, SeatInv, NEW o \in Owners, NativeStep(o)
    PROVE  Contract!Leave \/ Contract!Stop \/ UNCHANGED Contract!vars
<1>0. native \in [Owners -> NativeType] /\ revoked \in [Owners -> BOOLEAN]
  BY DEF Typed
<1> USE <1>0
<1>1. CASE Finish(o)
  <2>1. /\ native[o].pc = "finish"
        /\ native' = [native EXCEPT ![o].pc = "finished"]
        /\ UNCHANGED <<guard, broker, revoked>>
    BY <1>1 DEF Finish, At, Goto, Surroundings
  <2> USE <2>1
  <2>2. /\ \A p \in Owners : p # o => native'[p] = native[p]
        /\ native'[o].pc = "finished" /\ native'[o].held = native[o].held /\ native'[o].dirty = native[o].dirty
    BY DEF NativeType
  <2>3. Holder = {o}
    BY OutsideShape DEF Holder, Owns
  <2> USE <2>3
  <2>4. LiveNow = {} /\ LiveNow' = {} /\ Raised' = Raised
    <3>1. revoked[o]
      BY DEF SeatInv, Truthful, TruthfulThread
    <3> QED BY <3>1, OutsideShape DEF LiveNow, Raised
  <2>5. Holder' = Holder \/ Holder' = {}
    <3>1. Holder' \subseteq {o}
      BY <2>2 DEF Holder, Owns
    <3> QED BY <3>1
  <2> QED BY <2>4, <2>5, StopsOnly DEF Contract!Leave, Contract!vars, Holder, LiveNow, Raised
<1>2. CASE ~ Finish(o)
  <2>1. Thread(o)
    BY <1>2, ThreadSteps DEF SeatInv
  <2> USE <2>1
  <2>2. \A p \in Owners : p # o => native'[p] = native[p]
    BY DEF Thread
  <2>3. Holder' = Holder /\ Raised' = Raised
    BY <2>2 DEF Thread, Holder, Owns, Raised
  <2>4. LiveNow' \subseteq LiveNow
    BY DEF Thread, LiveNow
  <2> QED BY <2>3, <2>4, StopsOnly
<1> QED BY <1>1, <1>2

LEMMA HandleOutside ==
    ASSUME Typed, SeatInv, NEW o \in Owners, HandleStep(o)
    PROVE  Contract!Stop \/ UNCHANGED Contract!vars
<1>1. /\ UNCHANGED <<seat, guard, broker, native, overlapped>>
      /\ revoked' = revoked \/ revoked' = [revoked EXCEPT ![o] = TRUE]
  BY DEF HandleStep, StopLease, Enqueue, Collect, RetryCleanup, DriverReports, DropHandle,
         Abandon, ThreadsAside, Stopped
<1>2. Holder' = Holder /\ Raised' = Raised
  BY <1>1 DEF Holder, Owns, Raised
<1>3. LiveNow' \subseteq LiveNow
  BY <1>1 DEF LiveNow, Typed
<1> QED BY <1>2, <1>3, StopsOnly

\* The seat of input_agent/seat.rs with its brokers, native threads, handles
\* and barriers implements the exclusive seat.
THEOREM SeatContract == Spec => ImplementsExclusiveSeat
<1>1. Init => Contract!Init
  BY SMTT(30) DEF Init, Contract!Init, Owns
<1>2. Inv /\ [Next]_vars => [Contract!Next]_(Contract!vars)
  <2> SUFFICES ASSUME Inv, [Next]_vars PROVE [Contract!Next]_(Contract!vars)
    OBVIOUS
  <2>0. Typed /\ Mail /\ SeatInv
    BY DEF Inv
  <2>1. ASSUME NEW g \in Guards, Inhibit(g) \/ InhibitStop(g) \/ DropInhibition(g)
        PROVE  [Contract!Next]_(Contract!vars)
    BY <2>0, <2>1, BarrierOutside DEF Contract!Next
  <2>2. ASSUME NEW o \in Owners, BrokerStep(o) \/ NativeStep(o) \/ HandleStep(o)
        PROVE  [Contract!Next]_(Contract!vars)
    BY <2>0, <2>2, BrokerOutside, NativeOutside, HandleOutside DEF Contract!Next
  <2>3. CASE UNCHANGED vars
    <3>1. UNCHANGED <<seat, guard, broker, revoked, native>>
      BY <2>3 DEF vars
    <3>2. Holder' = Holder /\ LiveNow' = LiveNow /\ Raised' = Raised
      BY <3>1 DEF Holder, Owns, LiveNow, Raised
    <3> QED BY <3>2 DEF Contract!vars, Holder, LiveNow, Raised
  <2> QED BY <2>1, <2>2, <2>3 DEF Next
<1> QED BY <1>1, <1>2, AlwaysInv, PTL DEF Spec, ImplementsExclusiveSeat, Contract!Spec

=============================================================================
