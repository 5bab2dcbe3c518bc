# Verification of the SDR9700 control paths

SDR9700 is a C++/Qt program that controls an Icom IC-9700 transceiver over UDP
and plays its audio and spectrum. This directory holds TLA+ models of the parts
of it in which ordering, concurrency and failure decide whether the program is
correct, the TLC configurations that check them on small instances, and proofs
that TLAPS checks for every value of the constants. Paths in this text are
relative to the repository; `src/...` is its C++ source directory.

    tlc -config PttSafety.cfg PttControl.tla      # a run, see section 4
    tlapm PttControlProofs.tla                    # the proofs of a module

## 1. The system

### Threads

| thread | runs | talks to |
|---|---|---|
| GUI | `RadioBackend`, every widget and model | `Commander` by queued lambdas, `RadioRouter` by its mutex |
| `radio-worker` | the `Commander` of each session in turn | `UdpHandler` by queued signals, `CachingQueue` by its mutex |
| `CachingQueue` (a `std::thread`) | command dispatch, batches of values | `Commander` by queued signals, `RadioRouter` by a direct connection |
| `radio-data` | `RadioRouter`, `ScopeController` | the models, by queued signals |
| `udpHandlerThread` | `UdpHandler`, `UdpCivData`, `UdpAudio` | the radio, by datagrams; other processes, by the journal file |
| audio | device callbacks, conversion | `UdpAudio` |

Nothing is shared without a lock except `sessionActive`, one atomic flag per
session that every lambda `RadioBackend` posts to the Commander tests before it
acts. A value takes this way: datagram, `UdpCivData`, `Commander::parseCommand`,
`CachingQueue::receiveValue`, the queue's thread, `RadioRouter::enqueueBatch`,
a posted `drainPendingBatch`, `route`, a signal to the GUI thread. A command
takes the opposite one: GUI lambda, `Commander`, `CachingQueue::add` or the
scheduler inside the Commander, `UdpCivData`, datagram.

### Components

For each: what it keeps, what it does, what is hard, what makes it correct.

- **Push-to-talk and transmit safety** (`backend/RadioBackend.cpp` 537-645,
  2481-2705, `PttConfirmationPolicy.h`, `TransmitSafetyPolicy.h`). Keeps three
  flags (wanted, confirmed, unkey pending), four single-shot timers and an SWR
  count. Operations: press, release, the four timeouts, SWR reading, status
  reply, session start and end. Hard: a status reply answers a read that may be
  older than the last press or release; the readback of a key command is queued
  behind others; frames may be lost; the session may end with lambdas posted.
  Correct when an unkey request is never given up before the radio confirms it,
  no confirmed transmission is without a limit, letting go ends the
  transmission, and a session closed with the safety commands leaves the radio in
  receive. Every closing of a usable session sends them except the replacement
  after a standby wake (RadioBackend.cpp:3592, finding 4), which sends no unkey.
- **LAN session control** (`radio/UdpHandler.cpp`, `RadioSessionCorrelation.h`,
  `RadioSessionOwnership.h`, `RetainedSessionRemovalPolicy.h`) and the
  **recovery journal** (`RadioSessionRecoveryStore.cpp`). Keeps the identity
  `<<tokRequest, token>>`, four pending requests, ownership, the predecessor
  being removed, and one journal record per radio and host. Operations: login,
  renewal, stream request, grants and rejections, busy and free
  advertisements, removal of a crashed predecessor's token, shutdown, crash.
  Hard: replies arrive in any order and late, several processes share a radio
  and a journal, a crash can fall between any two steps. Correct when the
  journal always names the session a live process holds, is given up only with
  that session, only dead processes' sessions are removed, a closing handler
  starts nothing, and every attempt to connect ends.
- **Value pipeline** (`core/CachingQueue.cpp`, `backend/RadioRouter.cpp`, and
  the session bracket in `RadioBackend::connectToRadio` and
  `shutdownConnection`). Keeps the values and commands not yet taken, a bounded
  list of pending values, the number of the router's session, whether a drain
  is scheduled. Operations: a value or command arrives, the thread turns,
  enqueue and coalesce, wait for room, drain, begin and cancel a session, stop.
  Hard: two mutexes, notifications that reach only a waiting thread, work done
  outside the locks, a Commander that outlives the wait for it. Correct when
  nothing is lost or reordered but what coalescing replaces, nothing is left
  behind, an ended session leaves nothing in the router, and stopping never
  hangs.
- **Reply correlation and command scheduling** (`radio/Commander.cpp`). Replies
  of the radio carry no receiver, so the Commander attributes them to the one
  pending read of their family; it blocks a family after a reply or an expiry,
  defers reads meanwhile, wraps work on a receiver into a transaction (select,
  wait, act, restore), and schedules commands around transactions and the
  MAIN/SUB exchange, which `RadioBackend` confirms and `VfoSelectionController`
  shows. Hard: a late reply after a timeout, five openers of transactions, an
  exchange confirmed by another reply, the limits of 64. Correct when a reply is given to the receiver that was
  asked, the radio is on the receiver a piece of work is for when it is done, one
  piece of work has the radio at a time, and an exchange is confirmed by what
  the radio said after it.
- **UDP transport and CI-V stream** (`radio/UdpBase.cpp`, `UdpCivData.cpp`,
  `CivSequenceGate.cpp`). Keep 16-bit sequence numbers, the packets that may be
  asked for again, the gaps still to be filled, the numbers recently seen.
  Hard: wrap-around, duplicates, gaps that never fill, purges and resets.
  Correct when every payload that arrives reaches the Commander once, a gap is
  repaired while the radio can, and a retransmit request is answered with the
  packet it names.
- **Session lifecycle** (`RadioBackend::connectToRadio`, `onLanReady`,
  `updateReadyState`, `handleCommandPlaneUnavailable`, `restartAfterSyncTimeout`,
  `StandbyWakePolicy.h`, `ConnectionRetryPolicy.h`, the connection handlers of
  `MainWindow.cpp`). Keeps the gates of readiness, the counters and timers of
  four ways to try again. Hard: signals of a session that is gone, four
  initiators of the next one. Correct when "ready" rests on answers of this
  session, every attempt ends, a session is started only for somebody who
  wants it and a lost one is pursued.
- **Receiver controls** (the setters and replies of `RadioBackend.cpp`, the
  interactive schedule of `Commander.cpp`, `RadioState.cpp`, `VfoController.cpp`,
  `TransmitConfigurationPolicy.h`) and **dual watch**
  (`DualWatchTransitionPolicy.h`). Keep the wanted, queued, radio's and shown
  value of every control. Hard: a request replaces another in the middle of the
  queue, a confirmation belongs to an older request, SUB is switched off under
  replies on their way. Correct when the last request wins and the panel comes
  to show what the radio does.
- **CI-V coding** (`Commander.cpp`: framing, packed decimal, every register's
  scale). Correct when what is read back is what was set, to the resolution of
  the radio, from replies whole, cut or glued.
- **Scope** (`Commander::parseSpectrum`, `ScopeController.cpp`,
  `SpectrumScopeController.cpp`, `SpectrumTuningPolicy.h`,
  `WaterfallController.cpp`, `WaterfallCanvas.cpp`). Keeps partial sweeps of two
  receivers, the gate that lets frames through, pending tuning, the waterfall's
  ring of rows and its copy in the graphics card. Correct when pixels stand at
  their frequency, clicks mean the receiver that was drawn, and all steps,
  clicks and pulses add up.
- **Memory channels** (`MemorySyncController.cpp`, `MemoryWriteController.cpp`,
  `MemoryCsvController.cpp`, `MemoryDatabase.cpp`, `MemoryRecordHelpers.h`,
  `MemoryEditorForm.cpp`, `MemoryStore.cpp`, `MemorySelectionController.cpp`).
  Keep the live map of the radio's memories, its committed snapshot, a sweep or
  a batch of verified writes, the memory in use. Hard: losses in the middle of
  a batch, a rollback that is itself a batch, a record that has four shapes.
  Correct when what is announced is in the radio.
- **Audio transport** (`radio/UdpAudio.cpp`, `audio/`): transmit epochs across
  three threads. Correct when only sound of the present press is sent.
- **Operators' other hands**: the RC-28 (`IcomRC28Manager.cpp`,
  `IcomRC28Controller.cpp`), the automation server (`AutomationServer.cpp`,
  `AutomationUiDriver.cpp`), settings and profiles (`AppSettings.cpp`,
  `RadioProfile.cpp`), the packet decoder (`Ax25Decoder.cpp`).
- **Not worth a model**: meters, audio arithmetic, host statistics, logging,
  painting. They convert, store or draw; `PROJECT.json` gives the reason for each.

`PROJECT.json` lists the hazards: 40 places where these parts can go wrong in a
way a unit test would hardly reach, with the property that covers each, or the
reason why none does.

## 2. Modules

| module | models | kind |
|---|---|---|
| `PttControl` | push-to-talk across GUI thread, Commander and radio | specification |
| `PttControlProofs` | its safety theorems | proofs |
| `RadioSession`, `MCRadioSession` | LAN session, journal, radio, several processes | specification; its scenarios |
| `RadioSessionProofs`, `MCRadioSessionProofs` | types, ownership, turns and closing: for any constants, for the scenarios | proofs |
| `ValueDelivery` | what the value pipeline promises | abstract specification |
| `ValuePipeline` | `CachingQueue`, `RadioRouter`, the session bracket | specification, refines `ValueDelivery` |
| `ValuePipelineProofs` | its safety theorems; every step is one of `ValueDelivery`, or none; order and uniqueness of what is routed | proofs |
| `CommandScheduler` | the Commander's replies, transactions and schedule, the polls, the exchange and the selection of a VFO | specification |
| `CommandSchedulerProofs` | its safety theorems | proofs |
| `CivStream` | receive half of a stream: gaps, retransmission, duplicates | specification |
| `TrackedSend` | send half of a stream: numbering, buffer, roll-over | specification |
| `SessionLifecycle` | connect, readiness, wake, watchdog and the window's reconnect | specification |
| `SessionLifecycleProofs` | readiness, panel, safe closing, wanted sessions: for any constants | proofs |
| `AudioTransport` | microphone blocks, epochs and devices across threads | specification |
| `AudioTransportProofs` | types, whose blocks are sent, playback tried once: for any bounds | proofs |
| `MCComponentsProofs` | the theorems on audio and session, for the run | proofs |
| `ReceiverControls` | requests, schedule, replies, polls and panels of the receivers' controls | specification |
| `DualWatch` | the dual-watch transition | specification |
| `CivCodec` | coding, framing and parsing of settings | specification over inputs |
| `ScopeAssembly` | sweeps put together from packets | specification |
| `ScopeGate` | which receiver the scope shows | specification |
| `ScopeTuning` | wheel, click, typed frequency and encoder | specification |
| `Waterfall` | the ring of rows, its remapping and its texture | specification |
| `MemoryChannels`, `MemoryInstance`, `MCMemory` | sweep, snapshot, write batches, import and rollback | specification, instance |
| `MemoryRecords`, `RecordsInstance` | a memory in the radio, the program, a file and the editor | specification, instance |
| `CsvText` | quoting and reading of the memory file | specification over inputs |
| `MemorySelection` | the memory in use, and what leaves it | specification |
| `RemoteEncoder` | RC-28, PTT button and DTMF as hands on the transmitter | specification |
| `AutomationBridge` | clients, lines, registry and clicks | specification |
| `SettingsStore` | settings file, profiles, passwords, backup and crashes | specification |
| `Ax25Decoder`, `PacketInstance` | HDLC in every timing lane, duplicates | specification, instance |
| `TuningInstance` | constants of `MemorySelection`, `ScopeTuning`, `Waterfall` | instance |
| `MCComponents`, `MCProgress` | the components above, one per behaviour, without and with fairness | harness |

An operator whose comment begins with "Bug for the mutation test" or "Mutant" is
used by no specification. It is a plausible wrong version of the operator after
it; `PROJECT.json` pairs it with a property that fails when it is put in place.

### PttControl

`desired`, `confirmed`, `offPending` are the flags of `PttConfirmationPolicy`,
`timers` the running ones among `m_pttReleaseDelayTimer` (tail),
`m_pttOnConfirmationTimer`, `m_pttOffConfirmationTimer` and the maximum
duration. `PressPtt` and `ReleasePtt` are `RadioBackend::setPtt`;
`sendPttOffNow` is the function of that name and is called by release, tail,
on-confirmation, maximum and SWR steps. `posted` holds the lambdas on their way
to the Commander, `queuedRead` the readback `appendSetCommandValue` puts into
the queue, and `live`, `draining`, `deferred` are the reply family of the
transmit status in the Commander: one read pending, blocked after it, one read
deferred. `wire`, `replies`, `events` are the frames to the radio, its replies
and the signals to the GUI thread. The radio executes keying at once and
changes its physical state later (`RadioSettles`), because RadioBackend.cpp:553
says so. The gates of `setPtt` (audio ready, transmit configuration applied) are
open in the model: a press they refuse does nothing.

`conn` is "up" while PTT is allowed; "down" also stands for connecting and for
sessions that never come so far. `shutdownConnection` has the two parameters of
the function that matter here, and `safety` is its `sendSafetyCommands`, which the
close lambda captures: `CloseRuns` sends the unkey only if it is set.
`Disconnect` is every closing that sets it. Their callers pass `TRUE` or
`m_standbyWakePolicy.complete()`, which `onLanReady` has made true before a session
is up. `WakeDelayEnds` is the one that does not, `reconnectBootstrapSession` called
ten seconds after a standby wake; whether a session was reached over a wake is not
kept, so it may hit any. Without `emitDisconnectedSignal` the GUI's `shown` stays as
it was. If the GUI thread gives up waiting for the close lambda, the lambda still
runs before anything of the next session, whose Commander lives on the same thread.

### RadioSession

`h[p]` is the `UdpHandler` of process `p`, one field per member that matters;
each `Request` field is a `RadioSessionRequest`. A step of a handler is a
function of its record, and the datagrams sent are read off the requests it
begins. `journal` is the file, `net` the datagrams in flight, unordered. The
radio is external and reduced to what `UdpHandler.cpp` expects of it: which
identities it has authenticated, which holds the streams, whether another
station does. One radio, one host; PIDs are never reused; the ports can always
be reserved. The random `tokRequest` and the radio's token are numbers that
stand for the login that produced them.

### ValuePipeline and ValueDelivery

`worker` is the program counter of the queue's thread: "run" (top of the loop),
"wait" (no commands), "timed" (waiting for the interval), "emit" (lock
released, batch taken), "enter" (at the router's mutex), "enqueue" (holding
it), "blocked" (waiting for room). `owed` are threads between unlocking a mutex
and notifying its waiters; the code notifies outside the lock, so the woken
thread may find another state. `commands` has immediate priority only, the one
the program queues; `wake` is `m_queueWakeRequested`. `qsession`, `scheduled`,
`drains` are `m_queueSession`, `m_drainScheduled` and the posted
`drainPendingBatch` calls. `gui`, `conn`, `cmdr` are the sessions: connect,
cut, cancel, wait for the Commander for `kConnectionShutdownTimeoutMs`, go on
in either case; the next Commander handles events only after its predecessor
is deleted, for they share a thread.

`ValueDelivery` says what all this is for in five actions: a value is parsed, a
newer reading supersedes the last of its kind if no event lies between, the
oldest is routed, the session changes, and values of another session than the
connected one may be dropped. `Delivery` in `ValuePipeline` is the refinement
mapping: the values waiting are `batch \o pending \o wbatch \o items`.

### CommandScheduler

The record `w` is the radio-worker's side: each field is named in `Worker` with
the member it stands for. An operator that takes the record and returns it is a
method of `Commander`; an action is an event of the thread that runs it.
`RunScheduled` is one turn of `dispatchNextScheduledCommand`. `WindowEnds`,
`TransactionEnds`, `SMeterTimer`, `ExchangeTimer`, `DrainTimer` and `Expire` are
its timers. The backend's poll timer is three actions (`TransmitMeters`,
`PollTimesOut`, `StartPoll`), its handler of the Commander's signals is
`ReadSignal`. `air` is the link: a read goes in, and the same record comes out as
its reply, so it carries what the model compares and the reply does not say:
the receiver it was for, the one that answers, and how many exchanges there were.

What it abstracts:

- The radio executes a command when it is sent; the 50, 25 and 75 ms are there
  to make that so. A read of the main VFO's frequency and mode by 25 00 and 26 00
  always means MAIN (`docs/radio/research/VFO_COMMAND_SCOPE.md`).
- Lambdas the backend posts run at once: nothing they use can change on the way
  but the Commander's state, and what changes it could have come first.
- A reply is in before the drain of its family is over. The drain is sized from
  the measured round trip for this, and without it no rule could attribute
  replies. Losses, expiries and timeouts before the reply are all allowed, in
  any order; one drain may outlast another, and the single timer that ends
  all of them is the code's.
- Replies are signalled to the GUI thread only while an exchange is confirmed;
  it ignores them otherwise. The status of the radio and that of the scope are
  one confirmation.
- Left out: `scheduleStartupRead` and the limit on consecutive meters that exists
  for it, settings' readbacks, `readCurrentFrequencyAndMode`, memory transfer,
  dual watch.

### The components around the session

Each of these modules keeps the state of one or two classes in a record, an
operator per method from such a record to the next, and an action per event of
the thread the method runs on. What the radio does is external and says so in
`PROJECT.json`. Where a link is a sequence it keeps the order
that the single worker thread and the numbered transport give it.

- **CivStream.** `highest`, `order`, `missing` are `rxHighest`, the receive
  buffer and the missing map of `UdpBase`; `recent` is the gate's window. A packet
  is identified by a number without wrap; only that number modulo `Numbers`
  travels. `seen` and `flushed` are history.
- **TrackedSend.** `packets`, `sendSeq`, `txSeqBuf`; `answer` is the last
  retransmission.
- **SessionLifecycle.** `app` is the whole main thread: backend, `RadioModel`,
  window, its event queue, and `link`, the worker's half of the session. The
  wake, bootstrap, synchronization, reconnect and retry timers are actions.
  `Spent` starts a behaviour with some of its attempts used up, so that limits
  are reached in a small instance.
- **ReceiverControls.** `backend` is the schedule with its replacement in place,
  implied readbacks and polls; `panel` is `RadioState` with its values per band
  and `VfoController`'s pending level and band; `want` is what the operator asked
  last.
- **DualWatch.** `policy` is `DualWatchTransitionPolicy` with its retries, `link`
  and `replies` what crosses.
- **CivCodec.** Every setting of every kind is encoded, framed and parsed back in
  three circumstances; one step is one round trip. Bytes are numbers.
- **ScopeAssembly, ScopeGate.** The parser's partial frames per receiver; the
  gate of frames and controls between a selection and its confirmation.
- **ScopeTuning.** `scope` holds the pending and the optimistic frequency, the
  70 ms and the 650 ms timer, the encoder's snap; `want` is what all requests add
  up to, while no other party tunes.
- **Waterfall.** A pixel is the frequency of the point it shows. Each row carries
  as history its sweep and how far remapping may have moved it. `canvas.texture`
  is the copy in the graphics card.
- **MemoryChannels.** `app` has the live map, the snapshot, the sweep or batch
  under way and its timers; a slot's record is a name, except for the offset,
  whose coding loses it.
- **MemoryRecords, CsvText.** The four shapes of one memory (`radio` payload,
  `shown` record, editor `form`, CSV row) and the functions between them; the
  quoting automaton by itself.
- **MemorySelection.** `win` is the window's active memory and what it awaits,
  `vfo` the model that publishes changes only, `radio` a VFO mode and a memory
  mode.
- **RemoteEncoder.** `usb` and `hid` are the encoder and its reader, `gui` the
  latch, the hold timer, the PTT button and the DTMF dialog; `RadioBackend::setPtt`
  is reduced to the last request, `PttControl` being its model.
- **AutomationBridge.** Lines are pieces that do or do not end one; controls come
  and go between the check of a request and the click it posts.
- **SettingsStore.** `disk` is the settings file, its backup and the key file;
  `saved` is what the user last saved.
- **Ax25Decoder.** The bits of frames, stuffing, check sequence and addresses are
  computed in full; what a lane hears is chosen: late, inverted, or with the
  decoder reset meanwhile.

**MCComponents** holds one instance of each of these modules. The variable `part`
says which one a behaviour is about, and the modules share the variables
`v1`, `v2`, ... . They share a run because each is small by itself; nothing is
composed by it, and a property that names several is the conjunction of theirs.
**MCProgress** does the same for liveness. The assumptions on the constants of
these modules are definitions, assumed by `MCComponents` for the values it gives.

What is composed within one module: the Commander's schedule with the backend,
`RadioState` and panels (`ReceiverControls`); backend, model, window and worker
(`SessionLifecycle`); queue, router and session bracket (`ValuePipeline`); GUI,
Commander and radio (`PttControl`, `CommandScheduler`, `ScopeGate`,
`MemorySelection`, `ScopeTuning`); processes, journal and radio (`RadioSession`).

## 3. Plan

Done: the session core (`PttControl`, `RadioSession`, `ValuePipeline` with its
refinement, `CommandScheduler`) and the components around it, and the proofs of
section 5. What could still be proved: `CivStream!DeliveredOnce`,
`TrackedSend!BufferIsRecentRun`, `Waterfall!HistoryInOrder`, which TLC checks.

## 4. Runs

| run | configuration | shows |
|---|---|---|
| `ptt_safety` | `PttSafety.cfg`: 1 press, 2 sessions, 1 lost or late frame, queues of 2, 2 high SWR readings | `UnkeyIsPursued`, `TransmissionSupervised` and, for sessions closed with the safety commands, `SessionEndUnkeys` under every interleaving, closings without the commands included |
| `ptt_unhurried` | `PttUnhurried.cfg`: 2 presses, 2 sessions, no loss, no press or long timeout while a read is outstanding | the release path stays armed; a release and a closing with the safety commands end the transmission; in the first session the GUI settles on what the radio does |
| `ptt_stale_reply` | `PttStaleReply.cfg`: as the first, no loss | violation, finding 1 |
| `session_safety` | `SessionSafety.cfg`: four scenarios of `MCRadioSession`: crash and recovery, two live processes at once, a radio that forgets, another station | the journal covers and outlives the session; order of recovery; nobody removes a live session; a closing handler starts nothing; shutdown always has a next step |
| `session_stale_reset` | `SessionStaleReset.cfg` | violation, finding 2 |
| `pipeline_safety` | `PipelineSafety.cfg`: 2 sessions, 3 values of 3 kinds, router list of 2, 2 commands in a queue of 1 | types and limits, drains, nothing kept between sessions, order, refinement of `ValueDelivery` |
| `scheduler_safety` | `SchedulerSafety.cfg`: one identity family, both meters, every act of the operator, 2 acts or faults, lists of 2, 1 retry | a reply meets its read, work its receiver, one transaction at a time, nothing interferes with an exchange, only fresh values confirm it |
| `scheduler_exchange` | `SchedulerExchange.cfg`: two identity families, a selection and an exchange, no polls of the meter | violation, finding 3 |
| `components_safety` | `ComponentsSafety.cfg`: the instances of `MCComponents` | the properties of nineteen modules, table below |
| `components_progress` | `ComponentsProgress.cfg`: the instances of `MCProgress` | six liveness properties, table below |
| `lifecycle_late_identity` | `LifecycleLateIdentity.cfg`: one connection, one late reply | violation, finding 4 |
| `memory_rollback` | `MemoryRollback.cfg`: a file with an offset that is no preset, no loss | violation, finding 5 |

| property of `components_safety` | says of |
|---|---|
| `TypesOK` | every module: types, queues and counters within their bounds |
| `StreamIntact` | `CivStream`, `TrackedSend`, `Ax25Decoder`: each payload, retransmission and packet once, and the right one |
| `ReadyIsTrue`, `SessionsAsWanted` | `SessionLifecycle`, with one profile and faults, and with a mistyped one: readiness, panel, safe closing; who may start a session and which lost one is pursued |
| `AudioIsCurrent` | `AudioTransport`: blocks of this press and device; playback tried once |
| `ReceiversAsRequested` | `ReceiverControls`, `DualWatch`: the last request wins; a SUB that is off shows nothing |
| `RoundTrip` | `CivCodec`: understood, and read back as set |
| `ScopeIntact` | `ScopeAssembly`, `ScopeGate`, `Waterfall`: pixels in place, clicks on the receiver drawn, controls returned, history in order, texture up to date |
| `MemoriesTrue` | `MemoryChannels`, `MemoryRecords`, `CsvText`, `MemorySelection`: confirmed writes hold, the map is the snapshot, announcements are true, verification means equality, export can be imported, the active memory is kept and left when it should be |
| `OperatorMeant` | `RemoteEncoder`, `AutomationBridge`, `SettingsStore`, `ScopeTuning`: keyed only while somebody holds, one act per press, the control that was meant, what was saved, the sum of all tuning |

| property of `components_progress` | under fair |
|---|---|
| `GapRepaired` | retransmit timer, radio, delivery of some datagram that is on its way |
| `AttemptSettles` | main event loop and every timer of a session |
| `PanelBecomesTrue` | dispatch, polls, replies, the radio |
| `TransitionSettles` | retry timer, radio, replies |
| `NegotiationCompletes` | the thread of each handler, delivery of requests, answers and statuses in any order, the radio and its advertisements |
| `PipelineDrains` | queue's thread, notifiers, radio-data's event loop |

Why the bounds are enough for the question asked:

- One press and two sessions let a reply, a lambda and a timer of each earlier
  step meet each later one; one fault separates what needs reliability from
  what does not. Two presses appear in the unhurried run, where a second press
  during the tail of the first matters.
- Two processes are the least with a predecessor and a successor, or two
  rivals; a crashed one never returns, so more would repeat the pair. Two
  attempts distinguish a repeated removal from a first one, and one fault spares
  one of them: a shutdown none of whose attempts is answered leads to finding 2.
  Only answers are duplicated; the radio repeats its status by itself. The
  scenarios split
  the environment because together it exceeds what TLC can explore.
- Three values are the least for a replaceable one, an event between, and a
  second replaceable one; a list of two is then full with two of them. A queue
  of depth 1 drops a command on the second. Two sessions are the least for a
  stale batch, a stale drain and a late Commander.
- Acts, losses and late answers share one bound of 2 in `scheduler_safety`: each
  hazard is a pair (a late reply and another read, a selection and an exchange,
  a key-up and a timeout), and every pair is explored against the polls and
  timers, which are unbounded. `MaxUnread = 0` lets the GUI's timers run when its
  queue is empty, `Steady` keeps selections out of open transactions (section 6).
- Sequence numbers are modulo 10 and begin at 8, so every behaviour of the CI-V
  stream wraps; windows, buffers and gaps of 2 to 4 are each exceeded.
- Requests, acts and losses of the other components are 2 to 4, the least with
  which an answer to an earlier act meets a later one and a loss falls between.
  `Spent` reaches limits of 3 to 8 attempts without exploring the way to them.
- `CivCodec` runs through every level, width and every offset class of the
  radio; `MemoryRecords` through records that differ in each field that some
  shape treats specially; `CsvText` through tables of the four characters that
  matter; `Ax25Decoder` through packets of every type, with a
  repeater, too short, repeated, behind a shared flag or after a carrier longer
  than the limit, in two lanes that hear them well, late or damaged; `Waterfall` through five acts on two sizes, four views and two data
  ranges (six acts were explored as well, with the same outcome).

`CHECK_DEADLOCK FALSE` everywhere: a disconnected program may stay so, and with
the bounded counters spent nothing else need happen.

Fairness. Timers expire, event loops handle what is queued, the radio executes
and answers, the operating system schedules the queue's thread. No operator, no
fault and no loss is required, none is excluded up to its bound. `RadioSession`'s
radio goes on advertising its state and each kind of datagram gets through in
the end; the transport retransmits and the radio advertises periodically, which
is what makes that fair. Weak fairness suffices everywhere but in
`PttControl!Fairness`, where a queue may be full again and again.

## 5. Proofs

All constants are arbitrary within `PttAssumption`, `PipelineAssumption`,
`SchedulerAssumption`, `SessionAssumption`, `AudioAssumption` and
`LifecycleAssumption`, which TLC evaluates in every run of these modules: limits
are positive, bounds are natural numbers, `Event` is not one of the `Keys`, and
the names that stand for nobody are no members of the sets they are compared with. No bound on presses, sessions, values, queue lengths,
processes or faults is used otherwise.

`PttControlProofs`: `TypeCorrect`; then `SupervisionInv`, the conjunction of
`UnkeyIsPursued`, `TransmissionSupervised` and the fact that outside a session
only an inherited status can be confirmed, is inductive and gives `UnkeyPursued`
and `Supervised`. The third conjunct is needed because `Connect` would otherwise
start with a confirmed transmission nobody limits. `SessionEnds` is about sessions
closed with the safety commands (`safety`); of one replaced after a standby wake it
says nothing, and the radio may then stay keyed. It rests on
`UnkeyLast`: after such a close lambda no lambda, readback or deferred read is left
that could put a frame behind the final unkey, so the last frame on the wire is
that unkey, or the wire is empty and the radio unkeyed. Sessions closed either way
may have come before; what they left keyed the later unkey ends. `ReleaseArmed` assumes
`Unhurried`, without which it is false (finding 1), and nothing about losses. Its
invariant `PressInv` follows the one status reading that a press sets going,
from the key-up to the GUI thread: the on-confirmation timer runs until it is
delivered, so a reading of a radio that does not transmit yet may stop the tail
and still leave that timer.

`ValuePipelineProofs`: `TypeCorrect` includes the limits of the router's list
and of the command queue, and needs `SessionsBegun` (the number a connection
captured is never 0) to type the posted drains. `DrainAlwaysPosted` rests on
`PostedOK`: whenever a drain is thought to be scheduled one for the current
session is posted, which a session change keeps by clearing the flag rather than
trusting an old drain. `NothingIsKept` rests on `SessionOK`: the queue's thread
is let into the router, or waits in it, only while the session it captured is
up or about to be cancelled.

The second half of `ValuePipelineProofs`: `PipelineImplements` shows under
`Delivery` that the initial states map to initial states and that each action of
`ValuePipeline` maps to one action of `ValueDelivery` or to a stutter; the mapping
`batch \o pending \o wbatch \o items` (`Waits`) is regrouped by associativity where
a thread hands its list to the next. `OrderInv` is then an invariant of the abstract
specification alone: of what is routed and what waits, in this order, no two values
have one parse number, and those that may not be reordered ascend.
`PipelineOrder` (`OrderKept`) and `PipelineOnce` (`RoutedOnce`) follow from both. The
proof corrected the abstract specification twice: a parsed value is the newest one
waiting, and only a block of the sequence may be dropped.

`CommandSchedulerProofs`: one inductive invariant `IInv`, in three layers.

- `WorkerInv` is about the record `w`: lists within their limits (`Sized`); at most
  one read of a family pending, none while the family drains, and every reply on
  the air either asked for by the pending read or of a family that drains
  (`Correlated`); one transaction at a time, and the S-meter's timer inside its own
  (`Gated`); identity replies on the air of reads sent since the last exchange
  (`Current`); an exchange queued or announced once (`Requested`), with replies
  behind its announcement of reads sent since (`AfterAnnouncement`); the radio's
  status read for MAIN (`StatusOfMain`); and, with `Steady`, the radio on the
  receiver that the open transaction needs (`Placed`). `RepliesMeet` needs the
  parts of `Correlated` together: only the drain keeps a second read from being
  sent while a reply to the first may still come.
- `GuiInv` types the backend and the poll.
- `ExchangeInv` ties the two threads together while an exchange is under way: what
  the GUI thread waits for and has confirmed, and what of it is still in the
  worker's queue or in the inbox. `ConfirmationsFresh` is read off it and
  `AfterAnnouncement`, when the reply that confirms is long past.

`ExchangeHolds` and `RadioHeld` are read off the steps, action by action, from
`IInv`.

`RadioHeld` and `TransactionsMeet` assume `Steady`, which keeps selections out of
open transactions. Without it both are false of the code (section 6), so it is a
hypothesis of these two and of no other theorem. For the prover the module states
filters of a list with `Those` and turns with `InTurn` instead of library
operators whose definitions are recursive.

`RadioSessionProofs`: `Typed` holds by `TypeInv`, which adds to the types that a
handler's record has exactly its fields, that datagrams go to open handlers
only, that a login under way is numbered and that the journal holds at most one
record. `ClosingStartsNothing` needs no hypothesis: a closing handler sends no
login or stream request except after the removal of a predecessor's token was
confirmed. `LoneClosingStaysClosed` is the same without that exception for one
process whose radio does not reissue a grant. `RemovalsAreOwn` rests on `OwnInv`:
handlers in session, datagrams on their way and the journal name a login of the
handler's own or of a dead process; a predecessor is dead; the removal of a
predecessor names such a login; a handler still in discovery has nothing pending.
A radio that reissues grants ("reissue") is excluded there because two processes
may then hold the same identity and no rule of the handler can tell them apart.

`TurnsAreSafe` and `TurnsStayClosed` are about processes that take turns
(`~Concurrent`) with a radio that keeps the tokens it gave (`Steadfast`): a crash,
a successor and its recovery of the session that was left behind, with any number
of processes, renewals, losses and repetitions. Their invariant `TurnInv` says,
besides the types and `OwnInv`: at most one handler is open (`Sole`); a handler
gets on in the order login, authentication, streams, and recovers a predecessor
only before them (`Ordered`); whatever is on its way belongs to its latest
requests, and answers what they asked (`Told`); a stream request is on its way,
granted or rejected, and only one of the three (`Decided`); and the journal holds
its record from before the stream request until the removal is confirmed
(`Recorded`, `Unneeded`). The properties need all of them at once: the journal
covers the session because a grant answers a request that was recorded first,
and the grant answers that request because no older one can still be answered.
Both theorems assume `ExitsApart`: a process that is not connected exits only
while nobody is connected. Without it the record of a session whose removal was
never confirmed turns into that of a dead process in the middle of another's
connection, the handler starts a recovery while it is authenticated, and the
invariant is lost; section 6 says what the code does then. TLC explores the crash
scenario without that assumption and finds no violation within its bounds.

`TurnsKeepRecords` adds when the record of a session is given up. Its invariant
`HeldInv` says, beside `TurnInv`: removals, confirmed or not, name an identity that
was granted the streams, and a confirmed one retired its token (`Posted`); so do the
journal's records; a handler's own removal is of its own identity, or while it
recovers of its predecessor's, which is the one recorded (`Removing`, `Confirmed`,
`RemovedOwn`); and streams that were given up, reported as ended or not yet asked
for are held under no identity of the handler (`Holding`, `EndedFinally`). So when
a recovery or a shutdown drops the record on a confirmation or on the radio's
report, that session has ended. Two hypotheses beside those of `TurnInv`:
`Prompt`, a bound of the model's that the run has as well, under which a reported
error closes the handler before it takes another datagram (otherwise streams could be
asked for again under the identity whose end was just reported), and `Unreset`, no handler has started over after a
rejected stream request. Without `Unreset` the property is false of the code:
finding 2 is the counterexample, so it is a hypothesis of this theorem alone. The
theorem thereby says that the reset path is the only one with that effect while
processes take turns.

`LoneJournalCovers` is about one process and a radio that may forget tokens, end
its sessions or give way to another station. Its invariant `LoneInv`: a login on
its way, and the one a handler waits for, bring a number that nothing else names
yet (`LoginsApart`, `Untaken`); a renewal is refused only of an identity that is
void to the radio, now and later (`RefusedVoid`); and the identity of an owner is in
the journal, or void to the radio, or the streams are neither held nor asked for
under it (`Retirable`, of `Noted`, `Void` and `Unasked`). The last disjunction is
the point: after a refused renewal the handler logs in again, still as owner, with a
journal that names the old session, and the record catches up with the next renewal
before the streams can be asked for. The hypothesis `RenewalsApart` says that no
renewal falls due while a login or its answer is on its way. `tokenTimer`
(60 s, PacketTypes.h:19) is not stopped by a refused renewal
(UdpHandler.cpp:949-960), so this excludes a login whose answer takes more than
that rest of a minute; with two renewals the property is false without it, which
is the observation on renewals in section 6. The run has one renewal, needs no such
assumption and finds no violation.

`MCRadioSessionProofs` carries this to the scenarios that the run explores, for
any number of processes: `ScenariosTyped`, `SharingUntouched`, `AloneStaysClosed`;
with `ExitsApart` for the crash scenario `CrashRemovalsInOrder`; with
`RenewalsApart` for the scenarios of one process as well `ScenariosJournaled`; and
with `Unreset` for the crash scenario `CrashJournalKept`. That scenario has two
connections, and a reset that meets a grant takes three: one process connects
twice and the first shutdown stays unconfirmed, so that a third has a token to
recover. The run explores `JournalKept` without these assumptions.

`AudioTransportProofs`: an epoch is the number of changes of keying (and DTMF) so
far. A block carries the epoch its worker knew, which is at most the number of
changes when it was recorded (`during`), which is at most their number now; so
equal epochs mean that nothing changed since. The same holds of workers: a number
is given once, so a block of the worker that runs was recorded on its device
(`Recorded`). `QueueOwn` keeps what waits to be sent in the present epoch, which
needs every change of epoch and of device to empty the queue. `TriedOnce` holds
because an attempt that runs or has failed stands in the way of the next. The
invariant is stated of the record and shown method by method (`Moves`), since
`startAudio`, `stopAudio` and the encoding gate call one another.
`MCComponentsProofs` says the same of the audio behaviours of `MCComponents`.

`SessionLifecycleProofs`: `ReadyIsOfSession`, `PanelIsTrue`, `ClosedSafely` and
`SessionsWanted`, for every number of connections, failures, silences, retries,
queued events and addresses. All assume `~LateReply`: the radio answers the identity
probe in time or not at all. A later answer is finding 4, where a session in use is
closed by the timer that was to wake the radio. A reading carries no session, so that
`ReadyIsOfSession` has to be shown of the queue between the worker and the main
thread. The invariant `Inv` is one of the record `app`, and each method of the
backend, the model and the window is shown to keep it:

- `Sorted` and `Telling`: events wait in the order of their sessions, none of a
  session that is over but not replaced, and within a session first the answer, then
  readings, then errors. So the answer, whose handler clears the readings made so far,
  is handled after every reading of an earlier session.
- `Linked`: what the worker has come to against what it has told, and that the
  standby wake is armed only for a session that has proven nothing.
- `Read`: readings count for the session that made them, and none is left of a
  proven session while the radio is being woken.
- `Panel`: the window shows the backend's state up to the announcements that wait; the
  last of them says what the model holds.
- `Screened`: a window that still shows the last session as ready is corrected before
  it hears that the new one failed. Without it the failure of a session that was never
  ready, the last attempt to wake the radio for one, could be taken for the loss of a
  session in use, and start a reconnect that nobody wants.
- `Wanted`: whatever is under way or armed is wanted, and when the last attempt to
  wake the radio fails no timer is left that would start a session.

`StartsWanted` and `Pursued` are read off the steps from this invariant.
`SessionReady` and `SessionPursued` of `MCComponentsProofs` say the same of the run's
two instances, `ReadyIsTrue` and `SessionsAsWanted`; there `LateReply` is `FALSE`.

Left to TLC: liveness under fairness and `ShutdownNeverWaits` (an `ENABLED`),
which the prover does not handle; what recursive functions over data compute
(`CivCodec`, `CsvText`, `Ax25Decoder`, `MemoryRecords`), which would need
induction; `RadioSession`'s `JournalKept` and `JournalCoversSession` without the
hypotheses named above; `SessionLifecycle` with late answers; and the properties of
the components of `MCComponents` other than `AudioTransport` and `SessionLifecycle`,
which the runs check on the instances given there.

## 6. Findings and observations

1. `ptt_stale_reply`. Every "receive" status stops the release tail
   (RadioBackend.cpp:569), also the answer to a read sent before the press.
   Transmit stays wanted, the key-up readback stops the on-confirmation timer,
   and nothing unkeys before the 180 s limit. The comment at
   RadioBackend.cpp:2563 says the radio is kept keyed "briefly".
2. `session_stale_reset`. After a rejected stream request the handler removes
   its token and logs in again; the removal's acknowledgement, if it comes after
   the new session's shutdown has begun, is taken for the shutdown's own
   (UdpHandler.cpp:1043 and 970-978). No removal is sent and the journal is
   dropped, against RADIO_CONNECTION_RECOVERY.md:19. `TurnsKeepRecords`
   (section 5) shows that nothing else loses a record while processes take turns.
3. `scheduler_exchange`. A confirmed exchange shows MAIN as selected
   (VfoSelectionController.cpp:90-95) but nothing tells `RadioBackend`: after SUB
   was selected, its `m_activeVfo`, "the stable operator selection used by all
   UI-originated VFO commands" (RadioBackend.cpp:1510), stays SUB, and so does the
   receiver every transaction restores.
4. `lifecycle_late_identity`. The callback ten seconds after a standby wake
   (RadioBackend.cpp:3557) tests the bootstrap generation and the pending flag,
   not whether the radio became ready meanwhile: a session in use is replaced,
   although the comment at 3588 calls it provisional. That closing sends no safety
   commands (3592), so a transmission it interrupts goes on; the next session's
   first status reading puts it under the 180 s limit, and the next closing with the
   commands ends it. `SessionEndUnkeys`, `LetGoEnds` and `ProvenClosedSafely`
   therefore leave it out.
5. `memory_rollback`. An imported repeater memory whose offset is no preset never
   verifies, and neither does the rollback's copy of one: the program writes the
   offset divided by 100 and reads it back divided by 100 again
   (Commander.cpp:4332, MemoryRecordHelpers.h). Every later channel of the backup
   stays unrestored (MemoryCsvController.cpp:182).

Behaviour seen in the models that no run states as a property. Properties that
are defined in a module and named here as violated are not in a configuration.

Sessions:

- A "free" status or a late renewal reply sends a stream request while a
  predecessor's removal is unacknowledged (UdpHandler.cpp:1438, 946). An
  acknowledgement read by the shutdown loop can start a new login (1607). With
  two processes at once `LoginAfterRemoval` and `StaysClosed` fail for this.
  If that stream request is rejected, the reset of line 1043 replaces the pending
  removal, so its answer no longer counts, and logs in after 50 ms whether or not
  the predecessor is gone; the parts of `RemovalsInOrder` except this case
  (`resetTried`), which `RemovalAttempts <- 1` reaches in the crash scenario.
- An idle process that exits during another's connection makes `BusyBySibling`
  start a recovery although the connection is authenticated. If the stream request
  of that recovery is rejected as well, the login of the reset
  (UdpHandler.cpp:1043, 50 ms) outlives `completePredecessorTokenRemoval` and
  replaces streams and identity of the session that follows.
  `JournalCoversSession`, `TeardownOnlyOfGranted`, `RecoveryAckCounts`,
  `JournalKept` and `ClosingStaysClosed` then fail; `LoginAfterRemoval` holds. It
  takes a removal all of whose attempts are lost, or a third connection.
- A renewal that falls due while the login after a refused renewal is pending is
  refused for its mixed identity, and the refusal is taken for the first
  authentication (UdpHandler.cpp:911-951): the journal then records the new
  request with the old token. It takes two renewals; `session_safety` has one.
- Each shutdown attempt renews the removal request, so the answer to an earlier
  attempt is ignored (UdpHandler.cpp:513); the journal is then kept. After a
  refused renewal the handler still counts as owner (957).
- A bootstrap reconnect passes through `connectToRadio`, which resets the count
  of synchronization reconnects (RadioBackend.cpp:747): they are not bounded as
  the comment at 3084-3087 says (`SyncReconnectsBounded`).
- `RadioModel` takes back its transmit state on the signal `disconnected`, which
  `shutdownConnection` omits when a connection is replaced, the transport fails or
  a wake ends (RadioBackend.cpp:1340). A session closed that way while the GUI shows
  a transmission leaves it shown: `m_pttState` is reset, so the "receive" read by the
  next session is no change and is not published (`PttConfirmationPolicy.h:43`).
  `ViewSettles` is therefore stated for the first session; it fails for two.
- The synchronization reconnect is guarded by host and port only and can replace
  a newer session of the operator's; `onConnectToProfile` leaves the 5 s
  reconnect timer running; a disconnect between closing and reopening of a
  bootstrap leaves the window "Disconnecting"; an ordinary connect in that gap
  is taken for the bootstrap's.
- Frames that arrive while `shutdownComm` blocks are parsed after the queue's
  reset (Commander.cpp:259), and the next session's connection delivers them.
- After a roll-over of the send sequence the packets before it can no longer be
  repeated. `onTxAudioInitFailed` and `onRxAudioInitFailed` do not test which
  worker failed.

Receivers and schedule:

- MAIN's S-meter is read without selecting MAIN (Commander.cpp:367): while SUB is
  the operator's receiver the value is SUB's. `SMeterMeetsItsReceiver` therefore
  speaks of an operator on MAIN.
- A selection or an exchange that falls into the 50 ms of a transaction moves
  the radio under it (Commander.cpp:957-971, RadioBackend.cpp:1508-1520), hence
  `Steady` and `era = 0` in the receiver properties; the exchange's retry does
  the same.
- An exchange that finds a family shut starts no timer (Commander.cpp:964-972).
  If the single drain timer has fired for a shorter drain, nothing dispatches
  the exchange until the operator sends something.
- A lost S-meter reply of SUB followed by a key-up leaves the transaction open:
  the poll timer returns before its deadline test (RadioBackend.cpp:3387-3407).
- `ConfirmationsAreFresh` leaves out the radio's status, whose reply needs no
  correlation: a late one of the exchange before can confirm the next.
- The comment at RadioBackend.cpp:73-76 says that MAIN and SUB alternate in the
  poll; it reads `m_activeVfo` only. Coalescing in place lets a later request
  overtake earlier ones of other kinds.
- `setDuplexMode` and `setRepeaterOffsetHz` mark the transmit configuration
  pending while SUB is active, and a lost reply or a full schedule leaves it
  pending; PTT is then refused. A stale equal reading confirms it too early.
- Values remembered per band are given to the wrong band when a reading crosses a
  band change (RadioState.h:56, `RecallOfItsBand`); a band left and found again
  shows old values until they are polled.
- After an ordinary selection one lost 27 12 reply leaves the scope's gate shut,
  and the controls with it, with no timer to open it
  (VfoSelectionController.cpp:205, `ControlsNotStranded`). A frame retained from
  the receiver before may be drawn once after the gate opened.
- A selection whose confirmation fails twice releases the controls with the
  backend on the requested receiver (VfoSelectionController.cpp:40-48).

Coding:

- The inversion flags of tones are encoded and decoded in opposite order
  (Commander.cpp:1249-1251); `setDtcsCode` never sets them. A width of 600 Hz
  reads back as 550. A short tone reply is read as 67.0 Hz, a short offset as 0.
  `setRepeaterOffsetHz` drops what is below 100 Hz while the transmit
  configuration waits for the exact value.
- A sweep that loses its tail and one of the same length that loses its head are
  joined if both fall into 250 ms.

Scope and waterfall:

- A readback of an earlier, equal request clears a later one that was not sent:
  turned forth, back and forth again, the encoder ends on the middle frequency
  (`TunedAsAsked` with `Repeats`; the comment at SpectrumScopeController.cpp:994-996
  says requests collapse to the latest).
- A click switches the radio to fixed range; the release timer or a snap forgets
  it without restoring centre mode (`CentreRestored`).
- The RC-28 counts from MAIN's frequency also while SUB is selected and clamps to
  the selected receiver's band (`StaysOnBand` with "sub" in `EncoderOn`). Its
  pulses are dropped while the gate is shut; RECENTER within 70 ms drops pending
  steps.
- `setWaterfallImageSource` (WaterfallCanvas.cpp:167) puts the first visible row
  to 0, while the fast path of `remapHistory` keeps the controller's: after a pan
  the waterfall is drawn rotated until the next row, and for the whole of a
  slider's drag, when rows are paused (`NewestAlwaysOnTop`). The shift is a whole
  number of pixels while the image's range takes the exact new start, so old
  rows drift by up to half a pixel with every pan.

Memories:

- A repeated poll whose session is lost leaves uncommitted rows in the live map;
  a failed commit or a timeout restores old rows while keys already received
  stay (against MemorySyncController.cpp:156-159); rollback clears the map but
  not the database.
- Late replies of one sweep count for the next; a batch survives the loss of its
  session; a first synchronization may run beside an import's writes; empty
  replies are stored as empty rows.
- Offsets that are no preset never verify (finding 5) and a radio's own such
  memory is shown, exported and edited with a hundredth of it. DTCS receive codes
  other than the default, an offset of 0 with a direction, and an empty name in a
  file never verify either. The editor turns TD into TN and DT into DD or DN,
  makes polarities 1 and 2 into 0, and resets a shift the new band does not offer.
- "Copy Current" of the editor (MemoryEditorForm.cpp:607) makes CW-R, RTTY and DD
  into FM and copies transmit tones only.
- Tuning away at once after a selection sends the command that leaves memory mode
  before the selection itself: the radio stays in memory mode and the tune
  changes the memory (`LeavesMemoryAlways`). A change that MainWindow suppresses
  is never announced again, so the memory stays "active". The radio also stays in
  memory mode after a lost session and after changes of mode, duplex or tone.

Hands and files:

- A new press that overtakes the report of the last release is cut short: the
  report clears the latch and stops the DTMF timer, against the comment at
  IcomRC28Controller.cpp:69-73. PTT mode changed during a held press: its release
  is ignored. Pulling the cable runs the short-press action of F1 and F2. The
  lead-in of an aborted DTMF transmission is not cancelled.
- The automation server tests the size limit only when no line is complete, and a
  click may reach a control hidden after the check.
- A restored or reset settings file is overwritten by the closing window, by a
  pending deferred save, or by the running program if its successor does not
  start (`RestoreTakesEffect`). A key file that exists but cannot be opened is
  replaced by a new key (`PasswordsReadable` with "locked").
- The packet decoder drops supervisory frames without digipeaters and short
  unnumbered ones, which it has labels for (`kMinimumFrameBytes`); a packet damaged in one lane and whole in
  another counts twice; a new sample rate resets the sample index but not the
  index duplicates are measured from.

## 7. Not modelled

- `VfoController`'s publication timer, its hold of the transmit frequency label
  and the control state captured for an exchange: display only. A captured state
  may overwrite newer attenuator and AGC values until they are polled, and
  `m_pendingBandRecall` survives a disconnect for up to 5 s.
- `SameBandRefreshPolicy.h`, start-up reads and the limit on consecutive meters
  of the Commander, the round-trip estimator, `CachingQueue`'s value cache and lower
  priorities.
- Opening of the CI-V stream and its restart timer, pings and idle packets, the
  100 ms watchdog, the session's status display.
- Zoom and pan gestures, peak hold, averaging, painting and dialogs
  (`SpectrumScopeCanvas.cpp`, most of `MainWindow.cpp`): arithmetic of widgets.
- Sample conversion and audio devices beyond their start and failure; the AX.25
  discriminator's filters, which the decoder's lanes abstract.
- Logging, paths, host statistics, the table of decoded packets, `ui_set` of the
  automation server, "Copy Current" and the search of the memory editor.
