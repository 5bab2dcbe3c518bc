---------------------------- MODULE ValuePipeline ----------------------------
(***************************************************************************)
(* From a parsed CI-V reply to the models: CachingQueue, RadioRouter, and  *)
(* the sessions RadioBackend opens and closes around them.                 *)
(*                                                                         *)
(* The Commander of a session, on the radio-worker thread, puts values and *)
(* readback commands into the process-wide CachingQueue.  The queue's own  *)
(* thread takes all values at once, sends them outside the mutex through a *)
(* direct connection into RadioRouter::enqueueBatch, which coalesces them  *)
(* into a bounded list and posts a drain to the radio-data thread.  The    *)
(* GUI thread cancels the router's session and waits for the Commander to  *)
(* close, but only for so long.                                            *)
(*                                                                         *)
(* A call of notify and the wake-up it causes are one step: a delay of the *)
(* woken thread is a delay of the call.                                    *)
(***************************************************************************)
EXTENDS Naturals, Sequences, SequencesExt

CONSTANTS
    Keys, Event,   \* kinds of values, see ValueDelivery
    Commands,      \* readback commands
    QueueDepth,    \* CachingQueue::kMaximumQueueDepth
    MaxPending,    \* RadioRouter::kMaxPendingItems
    MaxSessions,   \* bound: sessions opened
    MaxValues,     \* bound: values parsed
    MaxCommands    \* bound: commands added

ASSUME PipelineAssumption ==
    /\ Event \notin Keys
    /\ QueueDepth \in Nat \ {0} /\ MaxPending \in Nat \ {0}
    /\ MaxSessions \in Nat /\ MaxValues \in Nat /\ MaxCommands \in Nat

VARIABLES
    \* CachingQueue
    items,      \* values not yet taken by the worker
    commands,   \* commands of immediate priority, in the order of their ids
    wake,       \* m_queueWakeRequested
    owed,       \* threads between leaving a mutex and notifying its waiters
    worker,     \* where the queue's thread is
    wbatch,     \* values it took and has not handed to the router
    wsession,   \* router session of the connection they go through
    aborted,
    \* RadioRouter
    pending, qsession, scheduled,
    drains,     \* sessions of the drains posted to the radio-data thread
    batch,      \* values taken by a drain and not yet routed
    routed,     \* values routed
    \* RadioBackend and its Commanders
    gui,        \* where the GUI thread is in connecting or disconnecting
    conn,       \* router session captured by the live connection, 0 if none
    sessions,   \* sessions opened
    cmdr,       \* the Commander of each session
    parsed, added   \* values parsed and commands added

queueVars  == <<items, commands, wake>>
workerVars == <<worker, wbatch, wsession>>
routerVars == <<pending, qsession, scheduled, drains>>
sinkVars   == <<batch, routed>>
guiVars    == <<gui, conn, sessions, cmdr>>
counters   == <<parsed, added>>
vars == <<queueVars, owed, workerVars, aborted, routerVars, sinkVars, guiVars, counters>>

Session == 1..MaxSessions
Value   == [n : Nat, s : Session, key : Keys \cup {Event}]

\* The constructor starts the worker, which waits for work.
Init ==
    /\ items = <<>> /\ commands = <<>> /\ wake = FALSE /\ owed = {}
    /\ worker = "run" /\ wbatch = <<>> /\ wsession = 0 /\ aborted = FALSE
    /\ pending = <<>> /\ qsession = 0 /\ scheduled = FALSE /\ drains = {}
    /\ batch = <<>> /\ routed = <<>>
    /\ gui = "idle" /\ conn = 0 /\ sessions = 0
    /\ cmdr = [k \in Session |-> "none"]
    /\ parsed = 0 /\ added = 0

-----------------------------------------------------------------------------
(* The radio-worker thread.                                                *)

\* The Commander of session k handles its next event.  The events of all
\* Commanders are in one queue, in the order they were posted, and a closed
\* Commander still handles those that arrived while it was closing.
Runs(k) ==
    /\ ~aborted /\ "radio" \notin owed
    /\ cmdr[k] \in {"live", "closing", "closed"}
    /\ \A j \in Session : j < k => cmdr[j] = "gone"

\* CachingQueue::receiveValue, up to the notification.
ReceiveValue(k, key) ==
    /\ Runs(k) /\ parsed < MaxValues
    /\ parsed' = parsed + 1
    /\ items' = Append(items, [n |-> parsed + 1, s |-> k, key |-> key])
    /\ owed' = owed \cup {"radio"}
    /\ UNCHANGED <<commands, wake, workerVars, aborted, routerVars, sinkVars, guiVars, added>>

\* The queue without c, which is there at most once.
Without(q, c) ==
    IF c \in Range(q) THEN RemoveAt(q, CHOOSE i \in DOMAIN q : q[i] = c) ELSE q

\* A repeated command moves to the end; beyond the limit the oldest is dropped.
Limited(q) == IF Len(q) > QueueDepth THEN Tail(q) ELSE q

\* CachingQueue::addUnique of a readback, up to the notification.
AddCommand(k, c) ==
    /\ Runs(k) /\ added < MaxCommands
    /\ added' = added + 1
    /\ commands' = Limited(Append(Without(commands, c), c))
    /\ wake' = TRUE
    /\ owed' = owed \cup {"radio"}
    /\ UNCHANGED <<items, workerVars, aborted, routerVars, sinkVars, guiVars, parsed>>

\* Commander::shutdownComm resets the queue for the next session.
CommanderCloses(k) ==
    /\ Runs(k) /\ cmdr[k] = "closing"
    /\ cmdr' = [cmdr EXCEPT ![k] = "closed"]
    /\ items' = <<>> /\ commands' = <<>>
    /\ owed' = owed \cup {"radio"}
    /\ UNCHANGED <<wake, workerVars, aborted, routerVars, sinkVars, gui, conn, sessions, counters>>

\* deleteLater, posted once the GUI thread stopped waiting.
CommanderDeleted(k) ==
    /\ Runs(k) /\ cmdr[k] = "closed"
    /\ gui # "closing" \/ k < sessions
    /\ cmdr' = [cmdr EXCEPT ![k] = "gone"]
    /\ UNCHANGED <<queueVars, owed, workerVars, aborted, routerVars, sinkVars, gui, conn, sessions,
                   counters>>

-----------------------------------------------------------------------------
(* The thread of CachingQueue.                                             *)

\* Bug for the mutation test: notifications are thought to be retained.
SleepsAtOnce == commands = <<>>

\* With nothing queued and no value the thread sleeps until it is notified.
MaySleep == commands = <<>> /\ items = <<>>

\* Bug for the mutation test: only an arrival makes a command due.
DueOnArrival(woke) == commands # <<>> /\ wake

\* commandDispatchDue: the interval expired, or a command arrived.
DispatchDue(woke) == commands # <<>> /\ (~woke \/ wake)

\* One turn of the loop, after the wait: take all values, and dispatch one
\* command if one is due.
Turn(woke) ==
    IF aborted
    THEN worker' = "stopped" /\ UNCHANGED <<queueVars, wbatch, wsession>>
    ELSE /\ wbatch' = items /\ items' = <<>> /\ wake' = FALSE
         /\ commands' = IF DispatchDue(woke) THEN Tail(commands) ELSE commands
         /\ worker' = IF items # <<>> THEN "emit" ELSE "run"
         /\ UNCHANGED wsession

\* Top of the loop.
WorkerRuns ==
    /\ worker = "run"
    /\ IF aborted \/ (~MaySleep /\ commands = <<>>) THEN Turn(TRUE)
       ELSE /\ worker' = IF commands = <<>> THEN "wait" ELSE "timed"
            /\ UNCHANGED <<queueVars, wbatch, wsession>>
    /\ UNCHANGED <<owed, aborted, routerVars, sinkVars, guiVars, counters>>

\* queueInterval has passed since the last dispatch.
IntervalExpires ==
    /\ worker = "timed"
    /\ Turn(FALSE)
    /\ UNCHANGED <<owed, aborted, routerVars, sinkVars, guiVars, counters>>

\* Only a waiting thread is woken, and only the timed wait has no condition.
Notify(t) ==
    /\ t \in owed \cap {"radio", "gui"}
    /\ owed' = owed \ {t}
    /\ IF worker = "timed" \/ (worker = "wait" /\ (aborted \/ commands # <<>> \/ items # <<>>)) THEN Turn(TRUE)
       ELSE UNCHANGED <<queueVars, workerVars>>
    /\ UNCHANGED <<aborted, routerVars, sinkVars, guiVars, counters>>

\* emit sendValues: without a connection the values are dropped.
Emit ==
    /\ worker = "emit"
    /\ IF conn = 0
       THEN worker' = "run" /\ wbatch' = <<>> /\ UNCHANGED wsession
       ELSE worker' = "enter" /\ wsession' = conn /\ UNCHANGED wbatch
    /\ UNCHANGED <<queueVars, owed, aborted, routerVars, sinkVars, guiVars, counters>>

-----------------------------------------------------------------------------
(* RadioRouter.  "enter" waits for its mutex, "enqueue" holds it.          *)

\* Bug for the mutation test: one value too many.
RoomForOneMore == Len(pending) <= MaxPending

Room == Len(pending) < MaxPending

\* Bug for the mutation test: the session is not compared.
AnySession(s) == TRUE

SessionMatches(s) == s = qsession

\* enqueueBatch begins.
Enter ==
    /\ worker = "enter"
    /\ IF SessionMatches(wsession)
       THEN worker' = "enqueue" /\ UNCHANGED wbatch
       ELSE worker' = "run" /\ wbatch' = <<>>
    /\ UNCHANGED <<queueVars, owed, wsession, aborted, routerVars, sinkVars, guiVars, counters>>

\* Bugs for the mutation test: the search does not end at an event, or goes
\* forwards.
AcrossEvents(v) ==
    {i \in DOMAIN pending : /\ v.key # Event /\ pending[i].key = v.key
                            /\ \A j \in (i + 1)..Len(pending) : pending[j].key # v.key}
OldestOfKind(v) ==
    {i \in DOMAIN pending : /\ v.key # Event /\ pending[i].key = v.key
                            /\ \A j \in 1..(i - 1) : pending[j].key # v.key}

\* Where in the pending values v may be written: the search goes backwards and
\* ends at the first value of v's kind, or at an event.
Replaceable(v) ==
    {i \in DOMAIN pending : /\ v.key # Event /\ pending[i].key = v.key
                            /\ \A j \in (i + 1)..Len(pending) : pending[j].key \notin {Event, v.key}}

ScheduleDrain ==
    IF scheduled THEN UNCHANGED <<scheduled, drains>>
    ELSE scheduled' = TRUE /\ drains' = drains \cup {qsession}

\* One value of the batch; the thread waits if there is no room for it.
EnqueueValue ==
    /\ worker = "enqueue" /\ wbatch # <<>>
    /\ LET v == Head(wbatch)
       IN  IF Replaceable(v) # {}
           THEN /\ \E i \in Replaceable(v) : pending' = [pending EXCEPT ![i] = v]
                /\ wbatch' = Tail(wbatch)
                /\ UNCHANGED <<worker, scheduled, drains>>
           ELSE IF Room
           THEN /\ pending' = Append(pending, v) /\ wbatch' = Tail(wbatch)
                /\ UNCHANGED <<worker, scheduled, drains>>
           ELSE /\ worker' = "blocked"
                /\ ScheduleDrain
                /\ UNCHANGED <<pending, wbatch>>
    /\ UNCHANGED <<queueVars, owed, wsession, aborted, qsession, sinkVars, guiVars, counters>>

EnqueueEnds ==
    /\ worker = "enqueue" /\ wbatch = <<>>
    /\ worker' = "run"
    /\ IF pending = <<>> THEN UNCHANGED <<scheduled, drains>> ELSE ScheduleDrain
    /\ UNCHANGED <<queueVars, owed, wbatch, wsession, aborted, pending, qsession, sinkVars, guiVars,
                   counters>>

\* drainPendingBatch; one of an earlier session does nothing.
Drain(s) ==
    /\ s \in drains /\ worker # "enqueue" /\ batch = <<>> /\ "data" \notin owed
    /\ drains' = drains \ {s}
    /\ IF s = qsession
       THEN /\ batch' = pending /\ pending' = <<>> /\ scheduled' = FALSE
            /\ owed' = owed \cup {"data"}
       ELSE UNCHANGED <<batch, pending, scheduled, owed>>
    /\ UNCHANGED <<queueVars, workerVars, aborted, qsession, routed, guiVars, counters>>

\* It notifies the thread waiting for room after it has left the mutex.
NotifyRoom ==
    /\ "data" \in owed /\ owed' = owed \ {"data"}
    /\ worker' = IF worker = "blocked" /\ Room THEN "enqueue" ELSE worker
    /\ UNCHANGED <<queueVars, wbatch, wsession, aborted, routerVars, sinkVars, guiVars, counters>>

\* route: the value reaches the models.
RouteValue ==
    /\ batch # <<>> /\ "data" \notin owed
    /\ routed' = Append(routed, Head(batch)) /\ batch' = Tail(batch)
    /\ UNCHANGED <<queueVars, owed, workerVars, aborted, routerVars, guiVars, counters>>

\* Bug for the mutation test: a drain is thought to be on its way.
ScheduleKept == pending' = <<>> /\ qsession' = qsession + 1 /\ UNCHANGED scheduled

\* What beginQueueSession and cancelQueueSession have in common.
NewQueueSession == pending' = <<>> /\ qsession' = qsession + 1 /\ scheduled' = FALSE

\* Bug for the mutation test: the waiting thread is not notified.
Undisturbed == UNCHANGED <<worker, wbatch>>

\* The blocked thread, notified of a new session, gives its batch up.
Released ==
    IF worker = "blocked" THEN worker' = "run" /\ wbatch' = <<>> ELSE UNCHANGED <<worker, wbatch>>

-----------------------------------------------------------------------------
(* RadioBackend on the GUI thread.                                         *)

\* connectToRadio: RadioRouter::beginQueueSession.
BeginSession ==
    /\ gui = "idle" /\ ~aborted /\ sessions < MaxSessions /\ worker # "enqueue"
    /\ gui' = "begun" /\ sessions' = sessions + 1
    /\ NewQueueSession
    /\ Released
    /\ UNCHANGED <<queueVars, owed, wsession, aborted, drains, sinkVars, conn, cmdr, counters>>

\* The connection of sendValues, and the Commander set up.
ConnectQueue ==
    /\ gui = "begun"
    /\ gui' = "up" /\ conn' = qsession /\ cmdr' = [cmdr EXCEPT ![sessions] = "live"]
    /\ UNCHANGED <<queueVars, owed, workerVars, aborted, routerVars, sinkVars, sessions, counters>>

\* shutdownConnection: sessionActive is cleared and the connection cut.
Deactivate ==
    /\ gui = "up" /\ gui' = "ending" /\ conn' = 0
    /\ UNCHANGED <<queueVars, owed, workerVars, aborted, routerVars, sinkVars, sessions, cmdr,
                   counters>>

\* RadioRouter::cancelQueueSession, then closeComm is posted.
CancelSession ==
    /\ gui = "ending" /\ worker # "enqueue"
    /\ gui' = "closing" /\ cmdr' = [cmdr EXCEPT ![sessions] = "closing"]
    /\ NewQueueSession
    /\ Released
    /\ UNCHANGED <<queueVars, owed, wsession, aborted, drains, sinkVars, conn, sessions, counters>>

\* The Commander has closed, or kConnectionShutdownTimeoutMs have passed.
Disconnected ==
    /\ gui = "closing" /\ gui' = "idle"
    /\ UNCHANGED <<queueVars, owed, workerVars, aborted, routerVars, sinkVars, conn, sessions, cmdr,
                   counters>>

\* CachingQueue::shutdownInstance, after the radio-worker thread has ended.
StopWorker ==
    /\ gui = "idle" /\ ~aborted /\ "radio" \notin owed
    /\ aborted' = TRUE /\ owed' = owed \cup {"gui"}
    /\ UNCHANGED <<queueVars, workerVars, routerVars, sinkVars, guiVars, counters>>

-----------------------------------------------------------------------------
Radio(k) ==
    \/ \E key \in Keys \cup {Event} : ReceiveValue(k, key)
    \/ \E c \in Commands : AddCommand(k, c)
    \/ CommanderCloses(k) \/ CommanderDeleted(k)
Worker == WorkerRuns \/ IntervalExpires \/ Emit \/ Enter \/ EnqueueValue \/ EnqueueEnds
Gui == \/ BeginSession \/ ConnectQueue \/ Deactivate \/ CancelSession \/ Disconnected
       \/ StopWorker

Next ==
    \/ \E k \in Session : Radio(k)
    \/ Worker
    \/ \E t \in {"radio", "gui"} : Notify(t)
    \/ \E s \in drains : Drain(s)
    \/ NotifyRoom \/ RouteValue
    \/ Gui

Spec == Init /\ [][Next]_vars

\* Every thread that can go on does: the scheduler is fair, the interval of the
\* timed wait ends, and posted drains are handled.  Nobody has to connect,
\* disconnect, report values or quit.
FairSpec ==
    /\ Spec
    /\ WF_vars(Worker)
    /\ \A t \in {"radio", "gui"} : WF_vars(Notify(t))
    /\ WF_vars(\E s \in drains : Drain(s)) /\ WF_vars(NotifyRoom \/ RouteValue)

-----------------------------------------------------------------------------
(* Properties.                                                             *)

\* Types, and the bounds of the two queues that have one.
FlagsOK == wake \in BOOLEAN /\ aborted \in BOOLEAN /\ scheduled \in BOOLEAN
QueuesOK ==
    /\ \A q \in {items, wbatch, pending, batch, routed} : q \in Seq(Value)
    /\ Len(pending) <= MaxPending
    /\ commands \in Seq(Commands) /\ Len(commands) <= QueueDepth
    /\ qsession \in Nat /\ wsession \in 0..qsession /\ conn \in 0..qsession
    /\ drains \subseteq 1..qsession
    /\ sessions \in 0..MaxSessions /\ parsed \in 0..MaxValues /\ added \in 0..MaxCommands
ControlOK ==
    /\ owed \subseteq {"radio", "gui", "data"}
    /\ worker \in {"run", "wait", "timed", "emit", "enter", "enqueue", "blocked", "stopped"}
    /\ gui \in {"idle", "begun", "up", "ending", "closing"}
    /\ cmdr \in [Session -> {"none", "live", "closing", "closed", "gone"}]
TypeOK == FlagsOK /\ QueuesOK /\ ControlOK

\* Pending values never lie there without a drain posted that will take them:
\* not after a full list made the thread wait, and not after a session changed
\* while it did (RadioRouter::enqueueBatch, m_drainScheduled).
DrainPosted == pending # <<>> /\ worker # "enqueue" => scheduled /\ qsession \in drains

\* Between two sessions the router holds nothing, whatever the queue's thread
\* was doing when the session was cancelled.
NothingKept == gui \in {"idle", "begun", "closing"} => pending = <<>>

\* The values on their way, as ValueDelivery sees them.
Delivery == INSTANCE ValueDelivery WITH
    waiting <- batch \o pending \o wbatch \o items,
    live <- IF gui = "up" THEN sessions ELSE 0

\* The pipeline implements ValueDelivery: no value of the connected session is
\* lost and none overtakes another it must not overtake.
Implements == Delivery!Spec
OrderKept  == Delivery!OrderKept

InTransit(n) ==
    LET on(q) == \E i \in DOMAIN q : q[i].n = n
    IN  on(items) \/ on(wbatch) \/ on(pending) \/ on(batch)

\* Every value leaves the pipeline, the last one before a quiet period too, and
\* every command is dispatched, replaced or dropped with its session, unless the
\* program quits; then the queue's thread, wherever it sleeps, ends, so that
\* joining it in stopWorker never hangs.
Drained ==
    /\ aborted => worker = "stopped"
    /\ ~aborted => commands = <<>> /\ \A n \in 1..MaxValues : ~InTransit(n)
PipelineDrains == []<>Drained
=============================================================================
