# FrankenRemote in TLA+

FrankenRemote is a remote desktop for machines of one tailnet. A host daemon
(`frd`) admits a peer, shows its desktop as an HEVC stream and, when the person
at the host allows it, lets one peer at a time use keyboard and pointer. What
has to be right, and is hard to test, is the *authority* to do so: it is finite,
it ends on its own, several threads end it at once, a network replays and delays
the messages that extend it, and when it ends, every key that the remote side
holds down has to come up again. Beside it, each lane of a session (pictures,
clipboard, files) is a protocol of its own between threads, two ends of a network
and an operating system, and has to fail without lying about what it did.

This directory holds specifications of those parts of the system: the TLA+
modules, the TLC configurations that check them on small instances, and the
TLAPS proofs for all instances. `PROJECT.json` lists every definition with the
source lines it models.

## 1. The system

### 1.1 Parts

| Part | Where | State and operations |
|---|---|---|
| Session authority | `fr-core/src/authority.rs` | phase, observation deadline, input lease with tickets, challenges, view readiness and suspension; 25 methods called by media, input, renewal, watchdog and approval code, each with its own clock sample |
| Input sequence ledger | `fr-core/src/input_sequence.rs` | next sequence, pending action, ring of receipts, fence; admit, record, fence |
| Native input owner | `fr-core/src/input_submission.rs`, `/held.rs`, `/control.rs` | held keys, pointer mode, receipts; dispatch, reconcile, maintain, cleanup, renew |
| Watchdog and stop signal | `frd/src/input_watchdog.rs` | one lease's stop reason, executor fence, waker and timer; stop, install_fence, poll, drop |
| Seat | `frd/src/input_agent/seat.rs` | who may inject into this OS session; reserve, install, release, inhibit |
| Native input agent | `frd/src/input_agent.rs` | a native thread, its one-slot mailbox, its two handles and its cleanup |
| Grant broker, input stream | `frd/src/input_quic*` | request, approval, reservation and start of control over QUIC |
| Client input path | `fr-client/src/input*` | the other end: actions, tickets, receipts, presentation evidence |
| Media delivery and recovery | `fr-media/src/delivery*`, `fr-media/src/recovery*`, `frd/src/media_egress.rs`, `frd/src/media_quic.rs` | cache of sent fragments, repair, reassembly window, the recovery request and the replacement generation |
| Clipboard | `fr-core/src/clipboard*`, `frd/src/clipboard_quic*`, `fr-native/src/clipboard.rs` | two desktops, a worker and a network bridge per end, one ordered lane in each direction |
| Files | `fr-files` | a sender with its source thread; a lane owner, a disk worker and the drop directory at the other end |
| Transport | `fr-transport`, `fr-wire` | records and attachments on Asupersync QUIC, codecs |
| Tailnet admission, ingress | `fr-tailnet` | renewed proof that a peer is admitted |
| Audio, microphone | `fr-media/src/audio*`, `frd/src/microphone*` | optional lanes bound to one controller |
| Host service | `frd` (broker, policy, approval, indicator, workers, startup) | wiring, supervision of child processes, local configuration |
| Platform adapters | `fr-native` | X11, FFmpeg, PulseAudio, PipeWire |

The full list, with each part's sources and status, is `components` in
`PROJECT.json`.

### 1.2 How they interact

```
 client ──network──▶ input stream ──▶ Agent ──mailbox──▶ native thread ──▶ OS
                          │             │                   │   ▲
   renewals, tickets ─────┤             │                   │   └ InputSession
                          ▼             ▼                   ▼      (ledger, held)
                   SessionAuthority ◀── stop signal ◀── every owner
                    ▲      ▲                 ▲
        media: view ┘      └ watchdog ───────┘           Seat ◀─ consent barriers
```

* One `SessionAuthority` per connection, behind a mutex, shared by everyone.
* The native owner checks it immediately before *each* native call, in two
  separate critical sections (view and recovery first, deadline second).
* The watchdog polls it on its own timer, so expiry does not need a packet.
* Any thread may stop the lease. A stop names its cause, revokes, runs the
  executor's fence and wakes the watchdog, with no lock held across the four.
* The seat outlives the lease: it is given to the next owner only when native
  cleanup of the previous one has succeeded.
* Pictures go out as datagrams and come back as repair requests. A picture that is
  beyond repair ends its *generation*: the viewer asks once, the host starts a new
  one with a keyframe, under one absolute deadline.
* Clipboard and file lanes are ordered streams. Each has a worker thread (X11, disk)
  behind a mailbox that its network owner only polls, so that nothing on the network
  side ever waits for a desktop or a disk. Revocation has to reach the worker on its
  own.

### 1.3 What is hard

The hazards are listed in `PROJECT.json` at the line where each one bites, with
the properties that would catch it. In short: replies delivered long after their
challenge; a check and the native call it authorizes being two steps; a view lost,
regained and lost again between two steps of the owner; native calls that fail,
answer "unknown" or panic with a key down; a stop racing the installation of a
fence or a poll about to sleep; a consent barrier raised while a grant is being
prepared; receipts evicted while duplicates are still in the network; counters
and clocks at the end of their range. On the lanes: a repair that arrives after its
picture was given up at the other end; two copies of the clipboard crossing on the
way; an item half received when sharing is turned off and on; a sender that gives up
on a file whose completion is already on the way; a permission read before a long
flush and withdrawn during it; a staging file that cannot be removed; power lost
between rename and sync.

## 2. The modules

Each component has a module of operators over a record (one operator per Rust
method, named after it) or of actions, an `MC…` module with its `.cfg` files,
and, where theorems are proved, a `…Proofs` module. Right before some definitions
stands a faulty variant of it; these are used to show that each property can fail.

| Module | Models |
|---|---|
| `Authority` | the methods of `SessionAuthority` as operators on its fields, with `check_time`'s lapse of the view and every early return |
| `SessionAuthority` | one authority under any sequence of calls with any arguments and clock samples, and the history needed to say *when evidence was asked for* |
| `SequenceLedger`, `InputLedger` | the ledger's methods; the ledger under arbitrary requests |
| `InputSubmission` | the owner thread, step by step, composed with the authority (shared with media, watchdog, renewer and a replacing grant) and with its ledger |
| `StopSignal` | `Control::stop`, `install_fence` and the watchdog future |
| `Seat`, `InputAgent` | the seat; brokers, barriers, native threads, mailboxes and handles around it |
| `ExclusiveSeat` | what the seat promises to the rest of the host, in three variables and six actions; `InputAgent` implements it |
| `Delivery`, `SendCache`, `ReceivePipeline` | sets of fragments; the sender's cache with its expiry, repair rounds and recovery admission; the receiver's window, repair requests and failure |
| `MediaStream` | host and viewer of one picture stream over datagrams that are lost, repeated and late, through recovery to the next generation |
| `ClipboardChannel` | both directions of one clipboard lane: incoming item and commit, outgoing item and Cancel, the switch, expiry and provenance |
| `ClipboardLink` | two desktops, two worker threads and two bridges over ordered lanes |
| `DropDirectory` | the host's drop directory: charge, staging, publication without replacement, cleanup, crash |
| `FileSender` | a selection of files, its current transfer, the source thread and the report |
| `FileLane` | the sender, the two streams, the lane's owner, the disk worker and the drop directory together |
| `FileDelivery` | what a file lane promises, in three variables and five actions; `FileLane` implements it |

**Correspondence of state.** `auth` is the Rust struct field by field; `Option` is
a value or `None`; `Instant`s are `0..MaxInstant` and a checked addition past the
end is the refusal it is in the code. In `InputSubmission`, `call.pc` is the place
between two locks or native calls; `os` is the ground truth of what is down, which
the code cannot read. In `InputAgent`, `native[o].pc` is the place in `native_loop`,
`box` the `Mailbox`, `handle` the `Agent` and `Driver`, and `held`/`dirty` the
ground truth. In `StopSignal` every lock or atomic access is a step.

**Atomicity.** A Rust method that runs under one lock is one step. A sequence of
locks is a sequence of steps, and everybody else may move between them. In
`InputAgent`, `Control::stop` is one step; its inner steps are `StopSignal`'s subject.

**Abstractions.** Identifiers are model values, compared for equality. Payload
checks of input events (capabilities, bounds, text length, fractions, overflow)
are one nondeterministic refusal. One key, one button and one wheel stand for all.
A clock that goes back is modelled wherever the code looks for it. Requests that
name a foreign session are refused without any effect by the code and not modelled
as separate steps. Ticket ids are fresh, as their random source makes them. Poisoned mutexes
are not modelled.

*Media.* The model starts after the decoder's first picture. Idle observations, byte budgets,
display freshness, clock regression, a cancelled decode and the bridging of more than 64 repair
ranges are left out; the spacing of keyframe demands is an arbitrary delay. Attaching the
replacement channels is one step (`ReplaceGeneration`, `Reconfigure`). One turn of `maintain` is
split where it reads the clock again.

*Clipboard.* Text is a model value, a chunk a position. Readiness of the view is chosen anew at
each check; a deadline is a flag that becomes true once; the generation an observation was made in
is compared through one flag. X11 is its revision, the events that were serviced and the server
timestamp that fences a late conversion. A lock that is busy is a delay. The end of a QUIC stream
is noticed at any time, and whether a sent record has drained is a free choice. Only the end of a
lane is modelled, not its re-establishment.

*Files.* One selection per lane; a single file is a selection of one, and a tree is one object
under a private name. Hashes and the manifest's codec are abstracted to "verifies or not", the
token bucket to a delay at the sender and a refusal at the receiver. Deadlines of a record or of a
file are failures at any time. `FileCancel`, which nothing under `src/` sends, is left out. The
directory admits one transfer at a time, as `native_files.rs` configures it. Every failure but that of
an unlink (which is always possible) spends one of `MaxFaults`; the code never retries a failed
transfer, so several failures only meet each other's clean-up.

## 3. The runs

Every passing run is exhaustive. Bounds are the constants of the `.cfg` files.

### `session_authority` (43,950 states)

One authority, two leases, three ticket ids (0 is refused), two nonces, a clock of
five instants with lifetimes of two: long enough for authority to be granted,
renewed, expire and be asked for again at the end of the clock. Identities are
symmetric.

* `AuthorityDatedAtEvidence`: a deadline is exactly one lifetime after the newest
  accepted evidence was *asked for*, never after it arrived.
* `SubmissionDeadlineExact`: the deadline handed to the native owner is the minimum of
  everything it depends on.
* `SuspendedExactlyWithoutView`, `SuspensionRevivedOnlyAfterRelease`: a view lapses once, and its lease comes back
  only after held input was released, within the limit from the *first* lapse.
* `SubmissionRestsOnRecentEvidence`: nothing is submitted on evidence older than its lifetime.
* `FenceIsTerminal`: no call brings a fenced or closed session back.

### `input_ledger`

Five sequence numbers, two receipt slots, two leases: receipts are evicted twice
over and the last number is used. `NothingBehindFence` (a fence or a failed action
ends the input for good: the outstanding action's outcome is still recorded, and even a
success reopens nothing), `AnswersAreTrue` (a duplicate gets its own outcome or none).

### `input_lease` (657,369), `input_actions` (1,068,778)

`InputSubmission` with two choices of what the controller sends. The split keeps
each instance exhaustive; the other participants are the same in both.

* `input_lease`: one held button, a clock of four instants with an authorization lifetime of
  two, a ticket lifetime and a limit on suspension of one, a
  renewer and a replacing grant. Lapse, suspension, release, revival and expiry all fit.
  `ReleasedSuspensionHoldsNothing`, `AtMostOneLateEffect`, `RevokedNeverRenewed`;
  liveness `SuspensionResolved`.
* `input_actions`: nine kinds of event of one to three native operations, pointer modes, one
  reference recovery, snapshots, two tickets, two sequence numbers with one receipt slot.
  `HeldCoversNative`, `ReceiptIsTrue`, `RingsAgree` (a completed duplicate finds its own
  receipt), `AuthorizedIsCurrent` (nothing that changed between the two locks of the final check gets
  through).

### `stop_signal` (607,946)

One caller, the watchdog and two installers, with a check interval of two. `MCStopSignal` spends
the states in two ways. In a *race* the clock stays at one deadline: a stop races an installation,
a poll about to sleep and a renewal. With the *timer* the watchdog is alone over a clock of five
instants: a timer is kept, fires and is registered again, or is replaced because the deadline moved
before it or the task's waker changed; renewals, regression and the end of the clock come in
between. `CauseIsNamed`, `FenceNeverMissed`, `ParkedIsArmed`; liveness `StopEndsWatch`.

### `seat_handoff` (1,578,261), `agent_mailbox` (53,157)

Two owners and two barriers, with both counters at their limit; then one owner with
two commands. A second owner adds nothing to the mailbox, which is per owner.
The first: `SeatIsExclusive`, `OverlappedNeverStarts`, and `ImplementsExclusiveSeat`, the
refinement of `ExclusiveSeat` under the mapping in `InputAgent` (a holder has a reservation, a thread
or something left in the machine, and is live until its lease is stopped; the barriers are the
guards whose `inhibit` has returned). The second: `CommandsAreAnswered` (no command is
left without an answer, and an answer that ends the lease comes behind its stop), `SafeReportIsTrue`;
liveness `StoppedIsCleaned`, `AbandonedFinishes`. Deadlock is
not checked: an owner ends and is not restarted.

### `media_stream` (516,053)

Pictures of two fragments that live for two instants, a repair delay of one, a clock of five instants,
one repair round, one replacement generation. `MCMediaStream` spends the states in three ways: no
datagram arrives, so that originals and repairs are prepared, held back and expire, and the next
picture comes after them; predicted pictures whose fragments are lost, repeated, late and repaired,
a repair being sent between two originals of the next picture; an independent picture that
supersedes what was lost. A fragment is given up at either end first, and the generation that
follows starts, starts late or does not start. Only steps that no fairness is assumed of are left out
of a plan.

* `EndsOnlyByBudget`: no order of loss, repetition and delay makes one end treat the other's
  records as a protocol error; a session ends only when recovery is refused or out of time.
* `ReferenceOrderKept`: what the transport has admitted of a generation is a prefix of its reference
  chain, whatever repairs were interleaved and whatever expired before it was sent.
* `GenerationsAgree`: the two ends never differ by more than the replacement under way.
* `LossIsResolved`: a failed generation is recovered or ends the session, and no picture stays half
  sent or half received.

### `clip_shared` (743,456), `clip_erase` (163,026)

Two ends, items of one chunk (Begin, chunk, Commit), and a plan of what the users do: both copy at
once; one copies again while its first item is on the way; sharing is switched off and on in
the middle. `OfferedOnce` (no item comes back to where it was copied or is offered twice),
`NewerCopySurvives` (a remote item never replaces what was copied after it was offered),
`ItemsTravelWhole` (the peer sees whole items or a Cancel), `OffCancelsItem`. `clip_erase` is the
same link with a silent bridge, a paused view and a stopped lane, under fairness: `TextIsErased`.
Deadlock is not checked: users stop copying.

### `file_lane` (286,365)

A selection of one empty file with two failures, and one of an empty file and a file of one chunk
with one failure. Failures are those of every disk call, of either thread (a panic), a lost
connection, a crash with or without loss of power, the revocation or expiry of the authority, the
session's stop, a local program that takes a name first, a cancel and a pause.

* `ImplementsFileDelivery`: the lane implements `FileDelivery`, with a file's place and durability
  read off the directory and what was told read off the report.
* `FencedNotPublished`: once the permission is revoked or the authority ends, only a file whose last
  look at that fence was already over can still appear.
* `CleanupReportIsTrue`: staging space and its charge go together, and a worker that has ended reports
  what it left behind.
* `LaneSettles`: the report is completed once the selection's deadline has passed, a lane that may not
  go on ends its worker, and a command that was handed to the worker is answered, even one still queued
  when the lane was stopped.

The first selection reaches two failures in one transfer (a cancel and a crash, say), the second the
step from one file to the next. Deadlock is not checked: a lane ends.

### `agent_panic_reply` (a disagreement)

`native_loop` takes the mailbox and only then reads the stop flag. A command accepted
after an empty take, with a stop before the flag is read, never starts; the thread's
finalizer answers it `NativePanic` although nothing panicked. `INPUT_AGENT_RESULTS.md`
lists commands cancelled before start and panics as distinct outcomes. Nothing is
executed, and the answer is conservative.

### Fairness

| Specification | Weakly fair | Because |
|---|---|---|
| `InputSubmission` | clock, the owner's own steps, `maintain` | the native loop calls `maintain` on a park timeout; native calls return |
| `StopSignal` | steps of a started stop, polls of a scheduled watchdog | a running thread runs on; the runtime polls a woken task. Neither the clock nor a timer is fair: a stop must not need them |
| `InputAgent` | steps of the native thread | native calls return and park timeouts expire |
| `MediaStream` | clock, the host's tick, the viewer's service turn, the expiry of a wait and of a startup | both ends run a service loop with a timer; the network delivers nothing by assumption |
| `ClipboardLink` | the worker's steps at each end, the passing of an item's and of an incoming item's deadline | the worker thread runs a loop with a timeout and needs neither bridge nor peer |
| `FileLane` | the selection's deadline, the sender's turn, steps of the source and disk threads while each has something to do | the session keeps calling `service` until the report is complete; disk calls return. Nothing is assumed of the owner at the receiving end |

Nothing is assumed of the network, the client, the media owner or the local user. In `FileLane` the
fairness is written out as "owes nothing again and again, or steps again and again", which is weak
fairness of the step while it is owed.

## 4. The proofs

Proved for every value of the constants, from the assumptions named in the modules
(`…Assumption`), which TLC evaluates on every run: the bounds are naturals (capacities, check
interval, barrier limit, quota and flight not zero), `None` is not a member of the sets it stands
beside, the files of a selection are numbered from one, the watchdog is not one of the stopping
threads, and the owner of `InputSubmission` differs from the other one. None of the properties is
inductive; what follows says what each needed.

A lemma that only one proof uses is a named step of that proof (`<1>DropFacts`), where its statement is
out of the way of every other proof. The four largest modules begin with `USE ZenonT(60)`: their leaves
are mostly about sets, functions and records, and one that needs arithmetic or sequences names SMT.

**Session authority** (`AuthorityLemmas`, `SessionAuthorityProofs`). `Sound` strengthens the properties:
`Suspended` (a suspension exactly when evidence-bounded readiness has lapsed under a
lease), `Staged` (which fields a phase may have), `Dated` (no deadline more than a
lifetime past the last checked sample, and a challenge never carries an earlier one than
it renews), `Ticketed`, and `ViewAhead`, which does not hold inside `check_time` and is
therefore kept apart. `AuthorityLemmas` has one lemma per method: it keeps `Sound` and makes
`Progress` (what no call may do to deadlines, lease and owner). The theorems follow, for
states from `Sound` and for steps from `Progress`. `DeadlineIsExact` compares two computations
on the same state: a check that leaves the view ready has moved nothing but the high-water mark, so
the deadline computed before it is the one that decides after it. The last section adds the
history: each deadline is its evidence plus one lifetime.

**Ledger** (`InputLedgerProofs`). In-order admission needs to know that a failure has fenced
the ledger: `FailureFenced`. What a duplicate is told needs the ring: `RingExact` says that slot by
slot it holds the newest outcomes, each in the place its number gives it, so an evicted receipt can
be told from one that never was.

**Native input owner** (`InputSubmissionProofs`). Three invariants, each kept by every step of the
owner and of the others.
`IInv` adds to `Sound(auth)` what is true *inside* a call: during a native call everything down was
tracked before the press in progress was added (`Tracked`), a confirmation is pending only with
nothing held (`Released`), and an effect after the end of the grant uses up the one call already
authorized (`Spent`). Steps of others are summarized by `Calm`: they neither confirm a
release nor install this owner.
`Accounted` is about receipts: the two rings agree slot by slot (`Ringed`),
an action under way is the ledger's pending one, and the operations confirmed so far and those still
in its plan make up the plan (`Counted`), and whatever is held outside a snapshot is still in the plan of its reconciliation
(`Reconciled`).
`Current` is about authorization: every ticket was issued in the current pointer mode, but for the
moment between a change of mode and its lock, and a view that was compared under the first lock is
still the newest at the second *or the recovery that overtook it has taken the tickets*. That
disjunction is why two locks are enough.

**Stop signal** (`StopSignalProofs`). `Ordered` (a stop that is past a step has done it), `Slotted`
(the slot keeps the fence that was installed until some stop runs it), `Attributed` (a lease that
ended with no cause on record ended by itself or was never watched) and `Timed` (under a steady clock a
timer that is not armed any more has been reached). A fence is not missed because the installer
looks at the reason *after* filling the slot and a stop names it *before* emptying the slot: whichever
order they come in, one of them runs it.

**Seat and agent** (`InputAgentProofs`). `Inv` is types, `Mail` (a per-owner invariant of
mailbox, thread and handles) and `SeatInv`. Exclusiveness needs `Paired` (who occupies the
seat), `Truthful` (an exit that allows handoff is true of the machine), `Counted` (the
barrier count is the number of raised guards), `Watched` (an installed, unstopped owner is
the seat's active one, and a barrier that is up is about to stop it) and `Dated` (a
reservation that a barrier overlapped has an old epoch). One lemma per action and part.
The same invariant carries the refinement (`SeatContract`): a step of `InputAgent` raises or
drops a barrier, takes the seat, makes its holder live, stops it, leaves the seat, or changes nothing
the contract sees. The hard case is going live, which the contract allows only with no barrier up:
the reservation was made earlier, and `Dated` and `Watched` say what a barrier raised since did to it.

**File lane** (`FileLaneProofs`, `FileDeliveryProofs`), for any number of files, chunks, conflict names and failures.
The operators of one turn are composed in the model, so the proof first gives every turn a shape: the
sender's is at most one start, one reply, one packet and one end (`Chain`), the owner's one
collection, one reply and one record (`OwnerChain`), and the worker's steps store, move, idle,
publish or sync. Then two invariants.
`LaneInv` is local. `Fit` is the sender between turns (the queue is worked off in order, every result is
in the report). `HostInv` ties owner, mailbox and worker to one command (`Mailbox`), the staged file
to the one the owner believes in (`Holding`) and the charge to the disk (`Charged`). `Fencing` says that
what is past a fallen fence was past it when it fell. It gives `FencesHold` and `CleanupIsReported`.
`PromiseInv` spans the two machines. `Ordered`: the worker's numbers only rise, so a file is
published once. `SlotTrue`: a result in the mailbox is true of its file. `Linked`: a record or a
command on its way belongs to a file whose turn has come and that is not yet in the directory, a
completion is the last thing on its way, and while the sender has not handed one over, none is
there (`Undone`). `Told`: every receipt, every result and every reply not yet heard is true and stays
true; "refused" needs in addition that the permission is gone and no publication is past it
(`Barred`), "interrupted" needs `Undone`. It and what follows are in `FileDeliveryProofs`.
`PromiseIsKept` is then the refinement, step by step: a publication is `Place`, a sync is `Sync` or
changes nothing, a crash is `Lose` of exactly the files that were placed and not durable, another
program's file is `Occupy`, a sender's turn that writes into its report is `Tell`, and everything else
changes nothing that the promise sees.

The listed theorems are in `PROJECT.json`. Most state a definition that a run checks. The rest are
the facts behind them, stated only as theorems: `TypeCorrect`, `TicketsStayWithinAuthority` (a ticket
clamped once stays within whatever was renewed since), `DeadlinesGrow`, `AdmissionInOrder`,
`NothingBehindFailure`, `BarrierHolds` and `ReadyStays`.

**Only model-checked**: everything that rests on fairness (`SuspensionResolved`, `StopEndsWatch`,
`StoppedIsCleaned`, `AbandonedFinishes`, `LossIsResolved`, `TextIsErased`, `LaneSettles`), which
the prover cannot express; and, not proved yet, the safety of `MediaStream` (`EndsOnlyByBudget`,
`ReferenceOrderKept`, `GenerationsAgree`) and of `ClipboardLink` (`OfferedOnce`, `NewerCopySurvives`,
`ItemsTravelWhole`, `OffCancelsItem`). Each of those needs an invariant that relates what both ends
believe to every record and datagram under way between them.

## 5. Observations

* In `mark_view_ready_until` the branch for a suspended view without a suspension record is
  unreachable (`SuspendedExactlyWithoutView`).
* The minimum with lease and observation in `submission_deadline` is redundant given
  `TicketsWithinAuthority`; it is a second line of defence.
* `ParkedIsArmed` holds while the clock is steady. If the clock steps back, between a timer's
  firing and the poll it causes, by less than the time since the last sample, the poll keeps a
  timer that has fired. The next wake then comes from elsewhere.
* An owner that only reserved the seat is refused at `start` after any barrier, even one already
  dropped: the epoch, not the count, decides.

## 6. Not modelled

`components` in `PROJECT.json` gives the reason for each part. In short:

* Within the modelled parts: byte budgets (a repair refused as `RepairBudgetExceeded`), lock poisoning,
  and a clock that runs backwards under a file worker. While its view is paused, a clipboard bridge
  already takes the worker's next record out of the outbox; the model leaves it there, and erases it
  from there.

* Codecs, bitstream parsing, settings and reports are functions of their input without state that
  several actors share.
* Platform adapters (X11, FFmpeg, PulseAudio, PipeWire) and the QUIC library are represented by what
  the code above them relies on.
* The control grant (`input_quic/grant.rs`) and the input stream are represented at their two ends: by
  the brokers of `InputAgent`, which reserve, are refused and start in any order, and by the requests of
  `InputSubmission` and `InputLedger`, which arrive in any order and any number.
* The client's input path, audio, microphone, admission and the host's supervision are outside: no
  property here says anything about them.
