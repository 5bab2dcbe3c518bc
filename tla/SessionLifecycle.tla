-------------------------- MODULE SessionLifecycle --------------------------
(***************************************************************************)
(* One connection attempt after another: RadioBackend's session lifecycle  *)
(* (connect, the standby-wake policy, readiness, the synchronization       *)
(* watchdog, shutdown), RadioModel's connected and ready flags, MainWindow's *)
(* automatic reconnect, and UdpHandler's CI-V identity probe.              *)
(*                                                                         *)
(* Everything on the main thread is one record, app, and each function of  *)
(* the program is an operator from such a record to the next one, composed *)
(* as the program calls them.  app.queue is the main thread's event queue: *)
(* signals of the worker and router threads, and MainWindow's queued       *)
(* readyChanged.  The worker's half of a session is app.link.              *)
(***************************************************************************)
EXTENDS Integers, Sequences, FiniteSets, SequencesExt

CONSTANTS
    Hosts,        \* radio profiles the operator may pick
    Bad,          \* profiles with an invalid address
    LateReply,    \* whether the identity reply may arrive after its deadline
    MaxConnects,  \* bound: connections the operator asks for
    MaxFaults,    \* bound: transport failures, lost replies
    MaxSilences,  \* bound: identity probes that time out
    MaxRetries,   \* bound: connections by the reconnect timer
    MaxQueue,     \* bound: events waiting for the main thread
    Spent         \* scenarios: <<connects, faults, silences>> used up at the start

NothingSpent == {<<0, 0, 0>>}

LifecycleAssumption ==
    /\ 0 \notin Hosts /\ Bad \subseteq Hosts /\ LateReply \in BOOLEAN
    /\ {MaxConnects, MaxFaults, MaxSilences, MaxRetries} \subseteq Nat /\ MaxQueue \in Nat \ {0}
    /\ Spent \subseteq (0 .. MaxConnects) \X (0 .. MaxFaults) \X (0 .. MaxSilences)

VARIABLES app, connects, faults, silences
vars == <<app, connects, faults, silences>>

MainIdentity == {"mainFrequency", "mainMode"}
SubIdentity  == {"subFrequency", "subMode"}
Identity     == MainIdentity \cup SubIdentity

kMaxWakeAttempts          == 2
kMaxSyncReconnectAttempts == 1

Init ==
    /\ app = [ \* RadioBackend
               host |-> 0, session |-> 0, live |-> FALSE, generation |-> 0,
               bootstrapPending |-> FALSE, retried |-> FALSE, wakes |-> 0, complete |-> FALSE,
               syncAttempts |-> 0, syncPending |-> FALSE, idents |-> {}, ready |-> FALSE,
               requested |-> FALSE, postRequested |-> FALSE,
               \* its timers: the delayed first request, its retry, the delayed
               \* snapshot, the watchdog; callbacks with what they captured
               delay |-> FALSE, retry |-> FALSE, snapshot |-> FALSE, watchdog |-> FALSE,
               wakeTimers |-> {}, bootTimers |-> {}, syncTimers |-> {},
               \* the session's worker: LAN state and reads on their way
               link |-> "off", asked |-> {},
               \* RadioModel
               connected |-> FALSE, modelReady |-> FALSE,
               \* MainWindow
               pending |-> 0, userDisconnected |-> FALSE, reconnecting |-> FALSE,
               reconnectTimer |-> FALSE, uiReady |-> FALSE, credential |-> FALSE,
               stage |-> "Disconnected",
               queue |-> <<>>,
               \* history: identity reported in this session since it was proven;
               \* the operator's wish; a proven session closed without unkeying;
               \* synchronization reconnects since the operator's request or readiness
               reported |-> {}, wish |-> "none", unsafe |-> FALSE, syncs |-> 0]
    /\ \E b \in Spent : connects = b[1] /\ faults = b[2] /\ silences = b[3]

Post(a, e) == [a EXCEPT !.queue = Append(@, e)]

-----------------------------------------------------------------------------
(* MainWindow and RadioModel.                                              *)

shouldRetryRadioConnection(a, hadUiReady, attemptFailed) ==
    (hadUiReady \/ attemptFailed) /\ ~a.userDisconnected /\ ~a.credential /\ a.pending # 0

scheduleRadioReconnect(a) == [a EXCEPT !.reconnecting = TRUE, !.reconnectTimer = TRUE]

\* MainWindow::onConnectionChanged.
connectionLost(a) ==
    LET b == [a EXCEPT !.uiReady = FALSE]
    IN  IF shouldRetryRadioConnection(a, a.uiReady, FALSE) THEN scheduleRadioReconnect(b)
        ELSE [b EXCEPT !.reconnecting = FALSE, !.userDisconnected = FALSE, !.credential = FALSE]

connectionMade(a) ==
    [a EXCEPT !.reconnecting = FALSE, !.reconnectTimer = FALSE, !.credential = FALSE]

\* MainWindow::onRadioReadyChanged.
onRadioReadyChanged(a, v) == [a EXCEPT !.uiReady = a.connected /\ v]

\* RadioModel::onBackendReadyChanged; MainWindow gets it as a queued event.
\* Bug for the mutation test: MainWindow's slot runs at once.
readyChangedDirectly(a, v) ==
    IF a.modelReady = v THEN a ELSE onRadioReadyChanged([a EXCEPT !.modelReady = v], v)

readyChanged(a, v) ==
    IF a.modelReady = v THEN a ELSE Post([a EXCEPT !.modelReady = v], <<"ready", v, 0>>)

onBackendConnected(a) ==
    Post(connectionMade([a EXCEPT !.connected = TRUE, !.modelReady = FALSE]), <<"ready", FALSE, 0>>)

onBackendDisconnected(a) ==
    Post(connectionLost([a EXCEPT !.connected = FALSE, !.modelReady = FALSE]), <<"ready", FALSE, 0>>)

isAutomaticReconnectError(code) == code \in {"ConnectionFailed", "Disconnected"}

\* MainWindow::onError.
onError(a, code) ==
    LET b == [a EXCEPT !.credential = (code = "AuthFailure")]
    IN  IF ~a.connected /\ shouldRetryRadioConnection(b, FALSE, isAutomaticReconnectError(code))
        THEN scheduleRadioReconnect(b) ELSE b

onBackendError(a, code) ==
    LET b == onError(a, code)
    IN  IF b.connected THEN onBackendDisconnected(b) ELSE b

-----------------------------------------------------------------------------
(* RadioBackend.                                                           *)

shutdownConnection(a, emitDisconnected, safetyCommands) ==
    LET b == [a EXCEPT !.session = @ + 1, !.live = FALSE, !.link = "off", !.asked = {},
                       !.delay = FALSE, !.retry = FALSE, !.snapshot = FALSE, !.watchdog = FALSE,
                       !.idents = {}, !.ready = FALSE, !.requested = FALSE,
                       !.postRequested = FALSE, !.reported = {},
                       !.unsafe = @ \/ (a.complete /\ ~safetyCommands)]
        c == readyChanged(b, FALSE)
    IN  IF ~a.live THEN a
        ELSE IF emitDisconnected THEN onBackendDisconnected(c) ELSE c

\* Bug for the mutation test: the policy is reset before it is asked.
closeForReplacementLate(a, bootstrap) ==
    LET b == IF bootstrap THEN a
             ELSE [a EXCEPT !.generation = @ + 1, !.retried = FALSE, !.wakes = 0]
    IN  shutdownConnection(b, FALSE, bootstrap /\ a.complete)

\* connectToRadio up to the replaced session's shutdown.
closeForReplacement(a, bootstrap) ==
    LET b == IF bootstrap THEN a
             ELSE [a EXCEPT !.generation = @ + 1, !.retried = FALSE, !.wakes = 0]
    IN  shutdownConnection(b, FALSE, a.complete)

connectToRadio(a, h) ==
    LET b == closeForReplacement(
                 [a EXCEPT !.bootstrapPending = FALSE, !.syncPending = FALSE,
                           !.syncAttempts = IF a.syncPending THEN @ ELSE 0],
                 a.bootstrapPending)
        c == [b EXCEPT !.complete = (a.bootstrapPending /\ @),
                       !.stage = IF a.bootstrapPending THEN @ ELSE "Connecting"]
    IN  IF h \in Bad THEN onBackendError([c EXCEPT !.stage = "Failed"], "ConnectionFailed")
        ELSE [c EXCEPT !.host = h, !.session = @ + 1, !.live = TRUE, !.link = "login",
                       !.snapshot = FALSE]

onConnectToProfile(a, h) ==
    connectToRadio([a EXCEPT !.pending = h, !.userDisconnected = FALSE, !.stage = "Connecting"], h)

\* The menu's disconnect and RadioBackend::disconnectFromRadio.
disconnectFromRadio(a) ==
    LET b == [a EXCEPT !.userDisconnected = TRUE, !.reconnecting = FALSE, !.reconnectTimer = FALSE,
                       !.generation = @ + 1, !.bootstrapPending = FALSE, !.retried = FALSE,
                       !.wakes = 0, !.watchdog = FALSE]
        c == shutdownConnection(b, TRUE, a.complete)
    IN  [c EXCEPT !.complete = FALSE, !.host = 0,
                  !.stage = IF a.live THEN "Disconnected" ELSE "Disconnecting"]

reconnectBootstrapSession(a) ==
    IF a.host = 0 THEN a
    ELSE [shutdownConnection(a, FALSE, FALSE) EXCEPT
             !.bootstrapPending = TRUE,
             !.bootTimers = @ \cup {<<a.generation, a.host>>}]

\* StandbyWakePolicy::commandPlaneUnavailable and what the backend does then.
\* Bug for the mutation test: exhaustion is reported as a failed connection.
wakeExhaustedUntyped(a) ==
    onBackendError([shutdownConnection(a, TRUE, FALSE) EXCEPT !.stage = "Failed",
                                                              !.wish = "stopped"],
                   "ConnectionFailed")

wakeExhausted(a) ==
    onBackendError([shutdownConnection(a, TRUE, FALSE) EXCEPT !.stage = "Failed",
                                                              !.wish = "stopped"],
                   "CommandPlaneUnavailable")

handleCommandPlaneUnavailable(a) ==
    IF a.complete THEN a
    ELSE IF ~a.retried /\ a.wakes = 0 THEN reconnectBootstrapSession([a EXCEPT !.retried = TRUE])
    ELSE IF a.wakes < kMaxWakeAttempts
    THEN [a EXCEPT !.wakes = @ + 1, !.stage = "WaitingForRadio",
                   !.wakeTimers = @ \cup {a.generation}]
    ELSE wakeExhausted(a)

onPortError(a, code) ==
    IF code = "CommandPlaneUnavailable" THEN handleCommandPlaneUnavailable(a)
    ELSE LET b == shutdownConnection([a EXCEPT !.generation = @ + 1, !.bootstrapPending = FALSE],
                                     FALSE, a.complete)
         IN  onBackendError([b EXCEPT !.host = 0,
                                      !.stage = IF code = "Disconnected" THEN "Disconnected"
                                                ELSE "Failed"], code)

\* Bug for the mutation test: identity of the session before survives.
identityForgottenNot(a) == [a EXCEPT !.ready = FALSE, !.reported = {}]

identityForgotten(a) == [a EXCEPT !.ready = FALSE, !.idents = {}, !.reported = {}]

\* Bug for the mutation test: no watchdog.
syncStartedUnwatched(a) == [a EXCEPT !.delay = TRUE, !.retry = FALSE, !.stage = "Syncing"]

syncStarted(a) ==
    [a EXCEPT !.delay = TRUE, !.retry = FALSE, !.watchdog = TRUE, !.stage = "Syncing"]

onLanReady(a) ==
    syncStarted(onBackendConnected(readyChanged(
        [identityForgotten(a) EXCEPT !.complete = TRUE, !.requested = FALSE,
             !.postRequested = FALSE, !.asked = @ \cup MainIdentity], FALSE)))

requestInitialRadioState(a) ==
    IF ~a.requested \/ ~(MainIdentity \subseteq a.idents)
    THEN [a EXCEPT !.requested = TRUE, !.asked = @ \cup MainIdentity] ELSE a

updateReadyState(a) ==
    LET b == IF MainIdentity \subseteq a.idents /\ ~a.postRequested
             THEN [a EXCEPT !.postRequested = TRUE, !.retry = FALSE, !.snapshot = TRUE] ELSE a
        ready == Identity \subseteq a.idents
        c == readyChanged([b EXCEPT !.ready = ready], ready)
    IN  IF a.ready = ready THEN b
        ELSE IF ~ready THEN c
        ELSE [c EXCEPT !.syncAttempts = 0, !.syncs = 0, !.syncPending = FALSE, !.watchdog = FALSE,
                       !.retry = FALSE, !.stage = "Ready"]

\* A reading the router passed on: it carries no session.
identityReported(a, k, s) ==
    updateReadyState([a EXCEPT !.idents = @ \cup {k},
                               !.reported = IF s = a.session THEN @ \cup {k} ELSE @])

restartAfterSyncTimeout(a) ==
    IF ~a.live \/ a.ready \/ a.host = 0 THEN a
    ELSE IF a.syncAttempts >= kMaxSyncReconnectAttempts
    THEN [shutdownConnection(a, TRUE, TRUE) EXCEPT !.stage = "Failed", !.wish = "stopped"]
    ELSE [shutdownConnection([a EXCEPT !.syncAttempts = @ + 1], TRUE, TRUE) EXCEPT
             !.stage = "Reconnecting", !.syncPending = TRUE, !.syncTimers = @ \cup {a.host},
             !.syncs = IF @ < 2 THEN @ + 1 ELSE @]

-----------------------------------------------------------------------------
(* The operator, the main thread's events and timers.                      *)

OperatorConnect(h) ==
    /\ ~app.connected
    /\ connects < MaxConnects /\ connects' = connects + 1
    /\ app' = onConnectToProfile([app EXCEPT !.wish = "connect", !.syncs = 0], h)
    /\ UNCHANGED <<faults, silences>>

\* The menu offers it while the model is connected; the operator asks once.
OperatorDisconnect ==
    /\ app.connected /\ app.wish = "connect"
    /\ app' = [disconnectFromRadio(app) EXCEPT !.wish = "stopped"]
    /\ UNCHANGED <<connects, faults, silences>>

\* One event.  Signals of a Commander are dropped unless its session is current.
handled(a, e) ==
    CASE e[1] = "ready"    -> onRadioReadyChanged(a, e[2])
      [] e[1] = "report"   -> identityReported(a, e[2], e[3])
      [] e[1] = "lanReady" -> IF e[3] = a.session THEN onLanReady(a) ELSE a
      [] e[1] = "error"    -> IF e[3] = a.session THEN onPortError(a, e[2]) ELSE a

HandleEvent ==
    /\ app.queue # <<>>
    /\ app' = handled([app EXCEPT !.queue = Tail(@)], Head(app.queue))
    /\ UNCHANGED <<connects, faults, silences>>

Fires(guard, next) == guard /\ app' = next /\ UNCHANGED <<connects, faults, silences>>

ReconnectTimer ==
    Fires(app.reconnectTimer /\ app.generation < connects + MaxRetries,
          LET a == [app EXCEPT !.reconnectTimer = FALSE]
          IN  IF a.reconnecting THEN onConnectToProfile(a, a.pending) ELSE a)

InitialDelay ==
    Fires(app.delay,
          LET a == requestInitialRadioState([app EXCEPT !.delay = FALSE])
          IN  [a EXCEPT !.retry = ~a.ready])

RetryTimer ==
    Fires(app.retry,
          IF app.ready THEN [app EXCEPT !.retry = FALSE] ELSE requestInitialRadioState(app))

SnapshotDelay ==
    Fires(app.snapshot,
          [app EXCEPT !.snapshot = FALSE,
                      !.asked = IF app.live /\ MainIdentity \subseteq app.idents
                                THEN @ \cup SubIdentity ELSE @])

\* The longer delays (10 s) end after the shorter ones (3 s and 5 s) that were
\* running when they began.
WatchdogTimer ==
    Fires(app.watchdog /\ app.syncTimers = {},
          restartAfterSyncTimeout([app EXCEPT !.watchdog = FALSE]))

WakeTimer ==
    \E g \in app.wakeTimers :
        Fires(app.syncTimers = {} /\ ~app.reconnectTimer,
              LET a == [app EXCEPT !.wakeTimers = @ \ {g}]
              IN  IF g = a.generation THEN reconnectBootstrapSession(a) ELSE a)

BootTimer ==
    \E t \in app.bootTimers :
        Fires(TRUE,
              LET a == [app EXCEPT !.bootTimers = @ \ {t}]
              IN  IF t[1] = a.generation /\ a.bootstrapPending THEN connectToRadio(a, t[2]) ELSE a)

SyncTimer ==
    \E h \in app.syncTimers :
        Fires(TRUE,
              LET a == [app EXCEPT !.syncTimers = @ \ {h}]
              IN  IF a.host # h THEN [a EXCEPT !.syncPending = FALSE] ELSE connectToRadio(a, h))

-----------------------------------------------------------------------------
(* The session's worker thread and the radio.                              *)

Signal(a, kind, arg) == Post(a, <<kind, arg, a.session>>)

Works(from, next) ==
    app.link \in from /\ Len(app.queue) < MaxQueue /\ app' = next /\ UNCHANGED connects

\* Login, stream grant and both media handshakes; the probe goes out.
StreamsOpen == Works({"login"}, [app EXCEPT !.link = "probing"]) /\ UNCHANGED <<faults, silences>>

\* UdpHandler::receiveFromCivStream sees the directed identity reply.
IdentityReply ==
    /\ Works({"probing"} \cup (IF LateReply THEN {"silent"} ELSE {}),
             Signal([app EXCEPT !.link = "proven"], "lanReady", 0))
    /\ UNCHANGED <<faults, silences>>

ProbeTimeout ==
    /\ silences < MaxSilences /\ silences' = silences + 1
    /\ Works({"probing"}, Signal([app EXCEPT !.link = "silent"], "error", "CommandPlaneUnavailable"))
    /\ UNCHANGED faults

\* Anything else that ends a session: refused or failed login, a stalled or
\* closed link.
LinkFails ==
    /\ faults < MaxFaults /\ faults' = faults + 1 /\ UNCHANGED silences
    /\ \E code \in IF app.link = "login" THEN {"ConnectionFailed", "AuthFailure"}
                   ELSE {"Disconnected"} :
           Works({"login", "probing", "silent", "proven"},
                 Signal([app EXCEPT !.link = "failed"], "error", code))

\* A read is answered; the router posts the value.  Or it is lost.
Answer ==
    \E k \in app.asked :
        /\ Works({"proven"}, Signal([app EXCEPT !.asked = @ \ {k}], "report", k))
        /\ UNCHANGED <<faults, silences>>

LoseAnswer ==
    /\ faults < MaxFaults /\ faults' = faults + 1 /\ UNCHANGED silences
    /\ \E k \in app.asked : Works({"proven"}, [app EXCEPT !.asked = @ \ {k}])

Next ==
    \/ \E h \in Hosts : OperatorConnect(h)
    \/ OperatorDisconnect
    \/ HandleEvent
    \/ ReconnectTimer \/ InitialDelay \/ RetryTimer \/ SnapshotDelay
    \/ WatchdogTimer \/ WakeTimer \/ BootTimer \/ SyncTimer
    \/ StreamsOpen \/ IdentityReply \/ ProbeTimeout \/ LinkFails
    \/ Answer \/ LoseAnswer

Spec == Init /\ [][Next]_vars

\* The event loop, the timers and the worker run; the operator need not act,
\* and nothing need fail.
Fairness ==
    /\ WF_vars(HandleEvent)
    /\ WF_vars(ReconnectTimer) /\ WF_vars(InitialDelay) /\ WF_vars(RetryTimer)
    /\ WF_vars(SnapshotDelay) /\ WF_vars(WatchdogTimer) /\ WF_vars(WakeTimer)
    /\ WF_vars(BootTimer) /\ WF_vars(SyncTimer)
    /\ WF_vars(StreamsOpen) /\ WF_vars(IdentityReply \/ ProbeTimeout)

FairSpec == Spec /\ Fairness

-----------------------------------------------------------------------------
\* Every field keeps its type; at most one session's worker runs.
TypeOK ==
    /\ app.host \in Hosts \cup {0} /\ app.pending \in Hosts \cup {0}
    /\ {app.session, app.generation} \subseteq Nat
    /\ app.wakes \in 0 .. kMaxWakeAttempts
    /\ app.syncAttempts \in 0 .. kMaxSyncReconnectAttempts
    /\ app.idents \subseteq Identity /\ app.asked \subseteq Identity
    /\ app.reported \subseteq Identity
    /\ app.wakeTimers \subseteq Nat /\ app.syncTimers \subseteq Hosts
    /\ app.link \in {"off", "login", "probing", "silent", "proven", "failed"}
    /\ app.live = (app.link # "off")
    /\ connects \in 0 .. MaxConnects /\ faults \in 0 .. MaxFaults
    /\ silences \in 0 .. MaxSilences

\* Once a session's command plane has answered, the backend calls it ready only
\* on readings of both receivers made in that session, although readings of the
\* session before may still wait in the event queue when it begins.
ReadyFromThisSession ==
    app.live /\ app.complete /\ app.ready => app.reported = Identity

\* When the events have been handled, MainWindow enables its controls exactly
\* for a connected and ready radio.
PanelMatchesRadio ==
    app.queue = <<>> => (app.uiReady <=> app.connected /\ app.ready)

\* No timer or late event starts a session after the operator disconnected, the
\* wake attempts were exhausted, or synchronization failed twice.
SessionStarts == app'.live /\ app'.session > app.session
StartsWanted  == SessionStarts /\ connects' = connects => app.wish = "connect"

\* Losing a session that had reached the panel leads to an automatic reconnect:
\* MainWindow still knows that it had been ready when it hears of the loss.
Loses ==
    /\ app.queue # <<>> /\ app.uiReady /\ app.connected
    /\ Head(app.queue) = <<"error", "Disconnected", app.session>>
    /\ (app'.queue = <<>> \/ Head(app'.queue) # Head(app.queue))
Pursued == Loses => app'.reconnectTimer /\ app'.reconnecting

\* A session whose command plane has answered is closed only after the commands
\* that unkey the transmitter.
ProvenClosedSafely == ~app.unsafe

\* The limit of one automatic reconnect after a synchronization timeout, "so stop
\* cleanly and let the operator choose when to retry" (RadioBackend.cpp:3087).
SyncReconnectsBounded == app.syncs <= kMaxSyncReconnectAttempts

\* "This provisional session never proved CI-V readiness" (RadioBackend.cpp:3589):
\* a standby-wake replacement never ends a session that had become ready.
ReplacedWhileProvisional == [][app'.bootstrapPending /\ ~app.bootstrapPending => ~app.complete]_vars

\* Every attempt ends: ready, failed or disconnected.
Attempting == app.stage \in {"Connecting", "WaitingForRadio", "Syncing", "Reconnecting"}
AttemptSettles == []<>~Attempting
=============================================================================
