--------------------------- MODULE MemoryChannels ---------------------------
(* The radio's memory channels as the Memory Manager keeps them: the sweep    *)
(* that reads every slot (gui/MemorySyncController.cpp), the write batches    *)
(* with their readback (MemoryWriteController.cpp), the live map and the      *)
(* SQLite snapshot behind it (MemoryController.cpp, core/MemoryDatabase.cpp), *)
(* and the CSV import with its rollback (MemoryCsvController.cpp).            *)
(* Everything here runs on the GUI thread: one action per slot, timer or     *)
(* reply.  The radio (external) executes commands in the order sent.          *)
EXTENDS Integers, Sequences, FiniteSets, SequencesExt

CONSTANTS
  Users,         \* editable channels, 1..n
  Satellites,    \* satellite slots: read by the sweep, never writable here
  Holdings,      \* what the radio may hold at first: a set of functions
  Cached,        \* what the database holds at first
  Uploads,       \* the CSV file's records, a sequence of [slot, m]
  Rounds,        \* kRadioMemoryMissingRetryMaxRounds
  Attempts,      \* kRadioMemoryOperationSyncMaxAttempts
  MaxActs,       \* bound: sessions, syncs, edits, imports and faults together
  Faults,        \* the faults that may happen: a subset of {"loss", "stall", "disk"}
  Backlog        \* bound: the sweep's timers wait while more is unanswered

Slots == Users \cup Satellites
(* A memory record: the fields that survive the wire unchanged are one name;  *)
(* the duplex offset (Hz) does not, so it is kept apart.                      *)
Empty == [name |-> "", duplex |-> FALSE, offset |-> 0]
NoReply == [name |-> "no reply", duplex |-> FALSE, offset |-> 0]
Preset == 600000

VARIABLES app,    \* the GUI thread's state
          bus,    \* commands sent and not yet answered, and replies on their way
          radio,  \* what each slot holds
          acts    \* how many of the acts MaxActs bounds happened
vars == <<app, bus, radio, acts>>

MapOf(m) == [s \in Slots |-> m]

Init ==
  /\ radio \in Holdings
  /\ bus = <<>>
  /\ acts = 0
  /\ app = [up |-> FALSE, complete |-> FALSE, pending |-> FALSE, retry |-> FALSE,
            busy |-> FALSE, dialog |-> FALSE, disk |-> TRUE, failed |-> FALSE, apart |-> FALSE,
            edited |-> FALSE, late |-> FALSE,
            on |-> FALSE, keys |-> <<>>, index |-> 0, expected |-> {}, received |-> {},
            round |-> 0, attempt |-> 0, op |-> "none", poll |-> FALSE, grace |-> FALSE,
            batch |-> <<>>, done |-> 0, waiting |-> FALSE, next |-> FALSE, label |-> "none",
            posts |-> <<>>, sent |-> <<>>,
            live |-> Cached, db |-> Cached, staged |-> MapOf(NoReply),
            stage |-> "idle", backup |-> MapOf(Empty), before |-> MapOf(Empty)]

----------------------------------------------------------------------------
(* The codec and the comparisons.                                             *)
(* appendSetCommandValue writes the offset as digits of 100 Hz; parseMemory   *)
(* reads the same digits as Hz.                                               *)
Written(m) == [m EXCEPT !.offset = (@ \div 100) * 100]
Decoded(m) == [m EXCEPT !.offset = @ \div 100]

normalizedOffset(raw) ==
  CASE raw = Preset \/ raw * 100 = Preset \/ raw = 0 -> Preset
    [] OTHER -> raw

(* recordFromRadioMemory then radioMemoryFromRecord *)
AsRecord(m) == IF m.duplex THEN [m EXCEPT !.offset = normalizedOffset(@)] ELSE m

readbackMatches(expected, actual) ==
  IF expected = Empty
  THEN actual = Empty
  ELSE /\ actual.name = expected.name
       /\ actual.duplex = expected.duplex
       /\ expected.duplex => normalizedOffset(expected.offset) = normalizedOffset(actual.offset)

InOrder(set) == [i \in 1..Cardinality(set) |->
                   CHOOSE s \in set : Cardinality({t \in set : t <= s}) = i]
WritesOf(map, set) == [i \in 1..Cardinality(set) |->
                         [slot |-> InOrder(set)[i], m |-> map[InOrder(set)[i]]]]
StoredIn(map, set) == {s \in set : map[s] # Empty}
(* deletedStoredRadioMemories: only user channels can be deleted *)
Deletes(map) == WritesOf(MapOf(Empty), StoredIn(map, Users))

----------------------------------------------------------------------------
(* The sweep.  Each operator takes the GUI state and returns it changed.      *)
SendNext(a) ==
  [a EXCEPT !.sent = Append(@, [op |-> "read", slot |-> a.keys[a.index + 1], m |-> Empty]),
            !.index = @ + 1, !.poll = TRUE, !.busy = TRUE]

requestRadioMemoryRefresh(a) ==
  IF ~a.up \/ a.on
  THEN a
  ELSE SendNext([a EXCEPT !.on = TRUE, !.keys = InOrder(Slots), !.index = 0, !.round = 0,
                          !.expected = Slots, !.received = {}, !.grace = FALSE,
                          !.staged = MapOf(NoReply)])

queueWrites(a, batch, label) ==
  IF a.up THEN [a EXCEPT !.posts = Append(@, [batch |-> batch, label |-> label])] ELSE a

(* The completion of the sync an import or a rollback asked for. *)
SyncDone(a, op, ok) ==
  CASE op = "none" -> a
    [] ~ok -> [a EXCEPT !.stage = IF op = "import" THEN "canceled" ELSE "lost"]
    [] op = "import" ->
         queueWrites([a EXCEPT !.stage = "clearing", !.backup = a.live,
                               !.before = [t \in Slots |-> Decoded(radio[t])]], Deletes(a.live), "clear")
    [] OTHER -> queueWrites([a EXCEPT !.stage = "emptying"], Deletes(a.live), "empty")

restoreCommittedSnapshot(a) == [a EXCEPT !.live = a.db, !.apart = FALSE]

finishMemoryDatabaseSync(a) ==
  LET b == IF a.disk
           THEN [a EXCEPT !.db = [s \in Slots |-> IF a.staged[s] = NoReply THEN @[s] ELSE a.staged[s]]]
           ELSE restoreCommittedSnapshot([a EXCEPT !.failed = TRUE])
  IN  [b EXCEPT !.staged = MapOf(NoReply)]

(* mutant: the staged rows are discarded, the map keeps them *)
cancelLeavesMap(a) == [a EXCEPT !.staged = MapOf(NoReply)]
cancelMemoryDatabaseSync(a) ==
  IF a.staged = MapOf(NoReply)
  THEN a
  ELSE restoreCommittedSnapshot([a EXCEPT !.staged = MapOf(NoReply)])

finishRadioMemoryRefresh(a, stalled) ==
  LET pass == a.on /\ ~stalled /\ a.up /\ a.index >= Len(a.keys)
      missing == a.expected \ a.received
      all == a.on /\ missing = {}
      timedOut == stalled \/ (pass /\ a.received = {})
      b == [a EXCEPT !.poll = FALSE, !.grace = FALSE]
      stop == [b EXCEPT !.on = FALSE, !.keys = <<>>, !.index = 0, !.expected = {}, !.busy = FALSE]
      kept == IF pass /\ ~timedOut THEN finishMemoryDatabaseSync(stop) ELSE cancelMemoryDatabaseSync(stop)
      told == [kept EXCEPT !.retry = @ \/ (timedOut /\ a.on /\ ~a.complete /\ a.up),
                           !.complete = @ \/ (pass /\ ~timedOut),
                           !.op = "none", !.attempt = 0]
  IN  CASE pass /\ ~all /\ a.round < Rounds ->
             SendNext([b EXCEPT !.keys = InOrder(missing), !.index = 0, !.round = @ + 1])
        [] pass /\ ~all /\ a.round >= Rounds /\ a.op # "none" /\ a.attempt < Attempts ->
             requestRadioMemoryRefresh([stop EXCEPT !.attempt = @ + 1, !.apart = TRUE])
        [] OTHER -> SyncDone(told, a.op, pass /\ ~timedOut /\ all)

requestNextRadioMemory(a) ==
  CASE ~a.on -> a
    [] a.on /\ ~a.up -> finishRadioMemoryRefresh(a, FALSE)
    [] a.on /\ a.up /\ a.index < Len(a.keys) -> SendNext(a)
    [] a.on /\ a.up /\ a.index >= Len(a.keys) /\ a.expected \subseteq a.received ->
         finishRadioMemoryRefresh(a, FALSE)
    [] OTHER -> [a EXCEPT !.poll = FALSE, !.grace = TRUE]

refreshForOperation(a, op) ==
  IF ~a.up \/ a.on
  THEN SyncDone(a, op, FALSE)
  ELSE requestRadioMemoryRefresh([a EXCEPT !.op = op, !.attempt = 1])

----------------------------------------------------------------------------
(* Write batches and what their completions do.                               *)
restoreAfterFailedImport(a) ==
  IF ~a.up THEN [a EXCEPT !.stage = "reconnect"]
  ELSE refreshForOperation([a EXCEPT !.stage = "checking"], "rollback")

WriteDone(a, label, ok) ==
  CASE label \in {"clear", "upload"} /\ ~ok -> restoreAfterFailedImport(a)
    [] label = "clear" /\ ok -> queueWrites([a EXCEPT !.stage = "uploading"], Uploads, "upload")
    [] label = "upload" /\ ok -> requestRadioMemoryRefresh([a EXCEPT !.stage = "imported"])
    [] label = "empty" /\ ok ->
         queueWrites([a EXCEPT !.stage = "restoring", !.apart = TRUE, !.live = MapOf(Empty)],
                     WritesOf(a.backup, StoredIn(a.backup, Slots)), "restore")
    [] label = "restore" /\ ok -> requestRadioMemoryRefresh([a EXCEPT !.stage = "restored"])
    [] label \in {"empty", "restore"} /\ ~ok -> requestRadioMemoryRefresh([a EXCEPT !.stage = "lost"])
    [] OTHER -> a

(* mutant: what was written before the batch failed counts as success *)
finishWritesAnyway(a, failed) ==
  WriteDone([a EXCEPT !.batch = <<>>, !.done = 0, !.waiting = FALSE, !.next = FALSE,
                      !.label = "none", !.busy = a.on],
            a.label, TRUE)

finishWrites(a, failed) ==
  WriteDone([a EXCEPT !.batch = <<>>, !.done = 0, !.waiting = FALSE, !.next = FALSE,
                      !.label = "none", !.busy = a.on],
            a.label, ~failed)

writeNext(a) ==
  CASE ~a.up -> finishWrites(a, TRUE)
    [] a.up /\ a.done >= Len(a.batch) -> finishWrites(a, FALSE)
    [] OTHER ->
         LET w == a.batch[a.done + 1]
         IN  [a EXCEPT !.waiting = TRUE, !.next = FALSE,
                       !.sent = @ \o <<[op |-> "write", slot |-> w.slot, m |-> w.m],
                                       [op |-> "reread", slot |-> w.slot, m |-> Empty]>>]

active(a) == a.waiting \/ a.batch # <<>>

startWrites(a, p) ==
  CASE ~a.up \/ active(a) -> WriteDone(a, p.label, FALSE)
    [] a.up /\ ~active(a) /\ p.batch = <<>> -> WriteDone(a, p.label, TRUE)
    [] OTHER -> writeNext([a EXCEPT !.batch = p.batch, !.done = 0, !.label = p.label, !.busy = TRUE])

(* mutant: any answer for the slot confirms the write *)
handleReadbackOfSlot(a, slot, m) ==
  IF a.waiting /\ a.batch[a.done + 1].slot = slot
  THEN [a EXCEPT !.waiting = FALSE, !.done = @ + 1, !.next = TRUE, !.busy = TRUE]
  ELSE a
handleReadback(a, slot, m) ==
  IF /\ a.waiting
     /\ a.batch[a.done + 1].slot = slot
     /\ readbackMatches(a.batch[a.done + 1].m, m)
  THEN [a EXCEPT !.waiting = FALSE, !.done = @ + 1, !.next = TRUE, !.busy = TRUE]
  ELSE a

(* MemoryController::handleRadioMemoryReceived *)
Persisted(a, slot, m) ==
  CASE a.on -> [a EXCEPT !.staged[slot] = m]
    [] ~a.on /\ a.disk -> [a EXCEPT !.db[slot] = m]
    [] OTHER -> [a EXCEPT !.failed = TRUE]

Collected(a, slot) ==
  LET b == [a EXCEPT !.received = @ \cup {slot}]
  IN  CASE ~b.on -> b
        [] b.on /\ b.expected \subseteq b.received -> finishRadioMemoryRefresh(b, FALSE)
        [] OTHER -> requestNextRadioMemory([b EXCEPT !.poll = FALSE])

handleRadioMemoryReceived(a, slot, m) ==
  handleReadback(Collected(Persisted([a EXCEPT !.live[slot] = m], slot, m), slot), slot, m)

----------------------------------------------------------------------------
(* Actions.                                                                   *)
Becomes(a) == /\ app' = [a EXCEPT !.sent = <<>>]
              /\ bus' = bus \o a.sent
Counted == acts < MaxActs /\ acts' = acts + 1
Fault(kind) == kind \in Faults /\ Counted
Gui(a) == Becomes(a) /\ UNCHANGED <<radio, acts>>

(* handleRadioReadyChanged; a session that ends takes its traffic with it *)
RadioReady ==
  /\ ~app.up
  /\ Counted
  /\ Becomes([app EXCEPT !.up = TRUE, !.complete = FALSE, !.pending = TRUE])
  /\ UNCHANGED radio

RadioLost ==
  /\ app.up
  /\ LET a == finishRadioMemoryRefresh([app EXCEPT !.up = FALSE, !.pending = FALSE], FALSE)
     IN  app' = [a EXCEPT !.complete = FALSE, !.received = {}, !.expected = {}, !.sent = <<>>]
  /\ bus' = <<>>
  /\ UNCHANGED <<radio, acts>>

(* the stability timer with enough scope frames, or the 5 s fallback *)
StartInitial ==
  /\ app.up /\ app.pending
  /\ Gui(requestRadioMemoryRefresh([app EXCEPT !.pending = FALSE]))

StartScheduled ==
  /\ app.up /\ ~app.on /\ ~app.busy
  /\ Counted
  /\ Becomes(requestRadioMemoryRefresh(app))
  /\ UNCHANGED radio

ForceSync ==
  /\ app.up /\ app.posts = <<>> /\ ~app.dialog
  /\ Counted
  /\ LET a == IF app.on THEN finishRadioMemoryRefresh(app, FALSE) ELSE app
     IN  Becomes(IF a.busy THEN a ELSE requestRadioMemoryRefresh(a))
  /\ UNCHANGED radio

RetryInitial ==
  /\ app.retry
  /\ LET a == [app EXCEPT !.retry = FALSE]
     IN  Gui(IF a.complete THEN a ELSE requestRadioMemoryRefresh(a))

PollTimer == app.poll /\ Len(bus) <= Backlog /\ Gui(requestNextRadioMemory([app EXCEPT !.poll = FALSE]))
GraceTimer == app.grace /\ Len(bus) <= Backlog /\ Gui(finishRadioMemoryRefresh(app, FALSE))
(* The whole-sweep timer leaves five seconds over the polls: it fires only   *)
(* when the event loop stalled.                                               *)
SyncTimeout ==
  /\ app.on
  /\ Fault("stall")
  /\ Becomes(finishRadioMemoryRefresh([app EXCEPT !.late = TRUE], TRUE))
  /\ UNCHANGED radio

StartWrites ==
  /\ app.posts # <<>>
  /\ Gui(startWrites([app EXCEPT !.posts = Tail(@)], Head(app.posts)))
WriteNext == app.next /\ Gui(writeNext(app))
requestExpectedReadback ==
  /\ app.waiting /\ app.up /\ bus = <<>>
  /\ Gui([app EXCEPT !.sent = <<[op |-> "reread", slot |-> app.batch[app.done + 1].slot, m |-> Empty]>>])
(* Three seconds hold six rereads: with nothing left to answer it is the      *)
(* contents that differ or a session that ended; otherwise the radio is slow. *)
WriteTimeout ==
  /\ app.waiting
  /\ IF bus = <<>> THEN UNCHANGED acts ELSE Fault("stall")
  /\ Becomes(finishWrites([app EXCEPT !.late = @ \/ bus # <<>>], TRUE))
  /\ UNCHANGED radio

(* The radio (external) executes commands in order and its answers arrive     *)
(* later; a channel command cannot address a satellite slot.                  *)
RadioExecutes ==
  \E i \in 1..Len(bus) :
    LET c == bus[i] IN
    /\ c.op # "reply"
    /\ \A j \in 1..(i - 1) : bus[j].op = "reply"
    /\ radio' = IF c.op = "write" /\ c.slot \in Users
                THEN [radio EXCEPT ![c.slot] = Written(c.m)] ELSE radio
    /\ bus' = IF c.op = "read" \/ (c.op = "reread" /\ c.slot \in Users)
              THEN [bus EXCEPT ![i] = [op |-> "reply", slot |-> c.slot, m |-> Decoded(radio[c.slot])]]
              ELSE RemoveAt(bus, i)
    /\ UNCHANGED <<app, acts>>

Deliver ==
  /\ bus # <<>> /\ Head(bus).op = "reply"
  /\ LET a == handleRadioMemoryReceived(app, Head(bus).slot, Head(bus).m)
     IN  /\ app' = [a EXCEPT !.sent = <<>>]
         /\ bus' = Tail(bus) \o a.sent
  /\ UNCHANGED <<radio, acts>>

Lose ==
  /\ bus # <<>>
  /\ Fault("loss")
  /\ bus' = Tail(bus)
  /\ UNCHANGED <<app, radio>>

(* The disk fills up, or is freed: writes to the database fail meanwhile. *)
DiskChanges ==
  /\ IF app.disk THEN Fault("disk") ELSE UNCHANGED acts
  /\ app' = [app EXCEPT !.disk = ~@]
  /\ UNCHANGED <<bus, radio>>

(* The operator.  The table cannot be used while a sweep or a batch shows its *)
(* progress (updateTableInteraction), and zero-delay starts run before the    *)
(* next click.                                                                *)
Idle == app.up /\ ~app.on /\ ~app.busy /\ app.posts = <<>> /\ ~app.dialog
Edit(batch) ==
  /\ Idle
  /\ Counted
  /\ Becomes(queueWrites([app EXCEPT !.edited = TRUE], batch, "edit"))
  /\ UNCHANGED radio

(* firstOpenChannelForGroup: every candidate up to it answered this session *)
FirstOpen(c) == /\ app.live[c] = Empty
                /\ \A s \in 1..c : s \in app.received
                /\ \A s \in 1..(c - 1) : app.live[s] # Empty
CopyMemory == \E s, c \in Users :
  /\ app.live[s] # Empty /\ FirstOpen(c)
  /\ Edit(<<[slot |-> c, m |-> [AsRecord(app.live[s]) EXCEPT !.name = "copy"]]>>)
RemoveMemory == \E s \in Users : app.live[s] # Empty /\ Edit(<<[slot |-> s, m |-> Empty]>>)
MoveMemory == \E s, t \in StoredIn(app.live, Users) :
  /\ s # t
  /\ \A u \in StoredIn(app.live, Users) : ~(s < u /\ u < t) /\ ~(t < u /\ u < s)
  /\ Edit(<<[slot |-> t, m |-> AsRecord(app.live[s])], [slot |-> s, m |-> AsRecord(app.live[t])]>>)

(* importRadioMemories: the checks, then the file and confirmation dialogs,   *)
(* under which the timers run on, then the sweep it asks for.                 *)
OpenImport ==
  /\ Idle
  /\ app.stage = "idle"  \* bound: one import
  /\ Counted
  /\ app' = [app EXCEPT !.dialog = TRUE]
  /\ UNCHANGED <<bus, radio>>
ConfirmImport ==
  /\ app.dialog
  /\ Gui(refreshForOperation([app EXCEPT !.dialog = FALSE, !.edited = active(app),
                                      !.stage = "syncing"], "import"))

Next ==
  \/ RadioReady \/ RadioLost \/ StartInitial \/ StartScheduled \/ ForceSync \/ RetryInitial
  \/ PollTimer \/ GraceTimer \/ SyncTimeout
  \/ StartWrites \/ WriteNext \/ requestExpectedReadback \/ WriteTimeout
  \/ RadioExecutes \/ Deliver \/ Lose \/ DiskChanges
  \/ CopyMemory \/ RemoveMemory \/ MoveMemory \/ OpenImport \/ ConfirmImport
Spec == Init /\ [][Next]_vars

----------------------------------------------------------------------------
(* Properties.                                                                *)
TypeOK ==
  /\ app.received \subseteq Slots /\ app.expected \subseteq Slots
  /\ app.index \in 0..Cardinality(Slots) /\ app.round \in 0..Rounds /\ app.attempt \in 0..Attempts
  /\ app.op \in {"none", "import", "rollback"}
  /\ app.label \in {"none", "clear", "upload", "empty", "restore", "edit"}
  /\ app.stage \in {"idle", "syncing", "clearing", "uploading", "imported", "canceled",
                     "checking", "emptying", "restoring", "restored", "lost", "reconnect"}
  /\ app.waiting => app.done < Len(app.batch)
  /\ app.op # "none" => app.on

(* Every record a batch counts as written is what the radio holds: a late     *)
(* answer, the sweep's own replies and an earlier batch's rereads never stand  *)
(* in for the readback of a write (memoryReadbackExpected,                     *)
(* radioMemoryReadbackDifferences).                                            *)
CountedWritesHold ==
  \A i \in 1..app.done :
    readbackMatches(app.batch[i].m, Decoded(radio[app.batch[i].slot]))

(* Outside a sweep, the map the operator works on is the       *)
(* committed snapshot: a sweep that was cancelled, lost its session or timed  *)
(* out leaves neither half of itself behind (cancelMemoryDatabaseSync).       *)
(* `apart`: an import's repeated poll empties the staging map the first poll  *)
(* filled, and a rollback empties the map without telling the database; both  *)
(* last until the committed rows are loaded again (README).                   *)
MapIsSnapshot ==
  (~app.on /\ ~app.failed /\ ~app.apart) => app.live = app.db

(* "Imported ..." and "previous memories restored" are never claimed falsely: *)
(* until the operator's next edit the radio's user channels hold the file, or *)
(* every record the import found.  (README: not so with a full disk, or when   *)
(* a reply of an earlier sweep comes three seconds late.)                     *)
ClaimsAreTrue ==
  /\ (app.stage = "imported" /\ ~app.edited => \A i \in DOMAIN Uploads :
        readbackMatches(Uploads[i].m, Decoded(radio[Uploads[i].slot])))
  /\ (app.stage = "restored" /\ ~app.edited /\ ~app.failed /\ ~app.late => \A s \in Users :
        readbackMatches(AsRecord(app.before[s]), Decoded(radio[s])))

(* "This preserves the pre-import snapshot" (MemoryCsvController.cpp:182): a   *)
(* rollback whose session lasts and whose traffic all arrives puts the        *)
(* memories back.  It does not.                                               *)
RollbackRestores == Faults = {} /\ app.up => app.stage # "lost"
=============================================================================
