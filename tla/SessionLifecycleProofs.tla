----------------------- MODULE SessionLifecycleProofs -----------------------
(***************************************************************************)
(* Theorems about SessionLifecycle, for every value of its constants with a *)
(* radio that answers the identity probe in time or not at all: when a     *)
(* radio is called ready, what the panel shows, and who starts sessions.   *)
(***************************************************************************)
EXTENDS SessionLifecycle, SequenceTheorems, WellFoundedInduction, TLAPS

-----------------------------------------------------------------------------
(* Types.                                                                  *)

Codes  == {"CommandPlaneUnavailable", "ConnectionFailed", "AuthFailure", "Disconnected"}
Events == ({"ready"} \X BOOLEAN \X {0}) \cup ({"report"} \X Identity \X Nat)
             \cup ({"lanReady"} \X {0} \X Nat) \cup ({"error"} \X Codes \X Nat)
Links  == {"off", "login", "probing", "silent", "proven", "failed"}

Flags == {"live", "bootstrapPending", "retried", "complete", "syncPending", "ready", "requested",
          "postRequested", "delay", "retry", "snapshot", "watchdog", "connected", "modelReady",
          "userDisconnected", "reconnecting", "reconnectTimer", "uiReady", "credential",
          "unsafe"}
Fields == Flags \cup {"host", "session", "generation", "wakes", "syncAttempts", "idents",
          "wakeTimers", "bootTimers", "syncTimers", "link", "asked", "pending", "stage",
          "queue", "reported", "wish", "syncs"}

Sound(a) ==
    /\ DOMAIN a = Fields /\ \A f \in Flags : a[f] \in BOOLEAN
    /\ a.host \in Hosts \cup {0} /\ a.pending \in Hosts \cup {0}
    /\ a.session \in Nat /\ a.generation \in Nat
    /\ a.wakes \in 0 .. kMaxWakeAttempts /\ a.syncAttempts \in 0 .. kMaxSyncReconnectAttempts
    /\ a.idents \subseteq Identity /\ a.asked \subseteq Identity /\ a.reported \subseteq Identity
    /\ a.wakeTimers \subseteq 0 .. a.generation /\ a.syncTimers \subseteq Hosts
    /\ a.bootTimers \subseteq Nat \X Hosts
    /\ a.link \in Links /\ a.wish \in {"none", "connect", "stopped"}
    /\ a.queue \in Seq(Events)

\* b differs from a in the fields F at most.
Same(a, b, F) == DOMAIN b = Fields /\ \A f \in Fields \ F : b[f] = a[f]

-----------------------------------------------------------------------------
(* The event queue.                                                        *)

Shows(e, v)  == e[1] = "ready" /\ e[2] = v
Of(e, s)     == e[1] # "ready" /\ e[3] = s
Exhausts(e)  == e[1] = "error" /\ e[2] = "CommandPlaneUnavailable"
ReadyIs(v)   == <<"ready", v, 0>>

LEMMA QueueDomain == ASSUME NEW q \in Seq(Events) PROVE DOMAIN q = 1 .. Len(q) /\ Len(q) \in Nat
BY LenProperties

LEMMA EventFields ==
    ASSUME NEW e \in Events
    PROVE  /\ e[1] \in {"ready", "report", "lanReady", "error"} /\ e[3] \in Nat
           /\ e[1] = "ready" => e[2] \in BOOLEAN
           /\ e[1] = "report" => e[2] \in Identity
           /\ e[1] = "error" => e[2] \in Codes
BY DEF Events

LEMMA Appended ==
    ASSUME NEW q \in Seq(Events), NEW e \in Events
    PROVE  LET r == Append(q, e)
           IN  /\ r \in Seq(Events) /\ Len(r) = Len(q) + 1
               /\ DOMAIN q = 1 .. Len(q) /\ DOMAIN r = 1 .. Len(q) + 1 /\ Len(q) \in Nat
               /\ \A i \in 1 .. Len(q) : r[i] = q[i]
               /\ r[Len(q) + 1] = e
BY AppendProperties, LenProperties

LEMMA Popped ==
    ASSUME NEW q \in Seq(Events), q # <<>>
    PROVE  LET r == Tail(q)
           IN  /\ r \in Seq(Events) /\ Len(q) \in Nat \ {0} /\ Head(q) = q[1] /\ q[1] \in Events
               /\ DOMAIN q = 1 .. Len(q) /\ DOMAIN r = 1 .. Len(q) - 1 /\ Len(r) = Len(q) - 1
               /\ \A i \in 1 .. Len(q) - 1 : r[i] = q[i + 1]
<1>1. Len(q) \in Nat \ {0} /\ DOMAIN q = 1 .. Len(q) /\ Head(q) = q[1]
  BY LenProperties, EmptySeq
<1>2. q[1] \in Events
  BY <1>1, ElementOfSeq
<1>3. Tail(q) \in Seq(Events) /\ Len(Tail(q)) = Len(q) - 1
      /\ \A i \in 1 .. Len(q) - 1 : Tail(q)[i] = q[i + 1]
  BY HeadTailProperties
<1>4. DOMAIN Tail(q) = 1 .. Len(q) - 1
  BY <1>3, LenProperties
<1> QED
  BY <1>1, <1>2, <1>3, <1>4

\* r is q with announcements behind it that the radio is ready, or that it is not.
Announced(q, r, v) ==
    /\ r \in Seq(Events)
    /\ \A i \in DOMAIN q : i \in DOMAIN r /\ r[i] = q[i]
    /\ \A i \in DOMAIN r : i \notin DOMAIN q => Shows(r[i], v) /\ \A j \in DOMAIN q : j < i

LEMMA ReadyAnnounced ==
    ASSUME NEW q \in Seq(Events), NEW v \in BOOLEAN
    PROVE  LET r == Append(q, ReadyIs(v))
           IN  Announced(q, r, v) /\ r[Len(q) + 1] = ReadyIs(v) /\ Len(q) + 1 \in DOMAIN r
<1>1. ReadyIs(v) \in Events
  BY DEF ReadyIs, Events
<1> DEFINE r == Append(q, ReadyIs(v))
<1>2. /\ r \in Seq(Events) /\ Len(q) \in Nat
      /\ DOMAIN q = 1 .. Len(q) /\ DOMAIN r = 1 .. Len(q) + 1
      /\ \A i \in 1 .. Len(q) : r[i] = q[i]
      /\ r[Len(q) + 1] = ReadyIs(v)
  BY <1>1, Appended
<1>3. Shows(ReadyIs(v), v)
  BY DEF Shows, ReadyIs
<1> HIDE DEF r
<1>4. ASSUME NEW i \in DOMAIN r, i \notin DOMAIN q PROVE i = Len(q) + 1
  BY <1>2, <1>4
<1>5. \A i \in DOMAIN q : i \in DOMAIN r /\ r[i] = q[i] /\ i < Len(q) + 1
  BY <1>2
<1>6. Announced(q, r, v)
  BY <1>2, <1>3, <1>4, <1>5, Zenon DEF Announced
<1>7. Len(q) + 1 \in DOMAIN r
  BY <1>2
<1> QED
  BY <1>2, <1>6, <1>7 DEF r

LEMMA FalseAppended ==
    ASSUME NEW q \in Seq(Events)
    PROVE  /\ Append(q, ReadyIs(FALSE)) \in Seq(Events)
           /\ Announced(q, Append(q, ReadyIs(FALSE)), FALSE)
<1>1. Announced(q, Append(q, ReadyIs(FALSE)), FALSE)
  BY ReadyAnnounced, Zenon
<1> QED
  BY <1>1 DEF Announced

LEMMA NoneAnnounced == ASSUME NEW q \in Seq(Events), NEW v PROVE Announced(q, q, v)
BY DEF Announced

LEMMA AnnouncedTwice ==
    ASSUME NEW q \in Seq(Events), NEW r, NEW t, NEW v, Announced(q, r, v), Announced(r, t, v)
    PROVE  Announced(q, t, v)
<1>1. r \in Seq(Events) /\ t \in Seq(Events)
  BY DEF Announced
<1> QED
  BY <1>1, QueueDomain DEF Announced

\* The oldest event stays the oldest.
Extends(q, r) == q # <<>> => r # <<>> /\ Head(r) = Head(q)

LEMMA AppendExtends ==
    ASSUME NEW q \in Seq(Events), NEW e \in Events PROVE Extends(q, Append(q, e))
<1> SUFFICES ASSUME q # <<>> PROVE Append(q, e) # <<>> /\ Head(Append(q, e)) = Head(q)
  BY DEF Extends
<1>1. Len(q) \in Nat \ {0} /\ Head(q) = q[1]
  BY Popped
<1>2. /\ Append(q, e) \in Seq(Events) /\ Len(Append(q, e)) = Len(q) + 1
      /\ Append(q, e)[1] = q[1]
  BY <1>1, Appended
<1>3. Append(q, e) # <<>>
  BY <1>1, <1>2
<1> QED
  BY <1>1, <1>2, <1>3, Popped

-----------------------------------------------------------------------------
(* What the functions of the backend and the window do to the record.      *)

\* A record whose other fields are typed.
LEMMA SoundBut ==
    ASSUME NEW a, NEW b, Sound(a), DOMAIN b = Fields,
           \A f \in Flags : b[f] = a[f] \/ b[f] \in BOOLEAN,
           b.host = a.host, b.pending = a.pending, b.session = a.session,
           b.generation = a.generation, b.wakes = a.wakes, b.syncAttempts = a.syncAttempts,
           b.idents = a.idents, b.asked = a.asked, b.reported = a.reported,
           b.wakeTimers = a.wakeTimers, b.syncTimers = a.syncTimers,
           b.bootTimers = a.bootTimers, b.link = a.link, b.wish = a.wish,
           b.queue \in Seq(Events)
    PROVE  Sound(b)
BY DEF Sound

LEMMA SoundWith ==
    ASSUME NEW a, NEW b, NEW F, Sound(a), Same(a, b, F),
           \A f \in F \cap Flags : b[f] \in BOOLEAN,
           "host" \in F => b.host \in Hosts \cup {0},
           "pending" \in F => b.pending \in Hosts \cup {0},
           "session" \in F => b.session \in Nat,
           "generation" \in F => b.generation \in Nat,
           "wakes" \in F => b.wakes \in 0 .. kMaxWakeAttempts,
           "syncAttempts" \in F => b.syncAttempts \in 0 .. kMaxSyncReconnectAttempts,
           "idents" \in F => b.idents \subseteq Identity,
           "asked" \in F => b.asked \subseteq Identity,
           "reported" \in F => b.reported \subseteq Identity,
           "wakeTimers" \in F \/ "generation" \in F => b.wakeTimers \subseteq 0 .. b.generation,
           "syncTimers" \in F => b.syncTimers \subseteq Hosts,
           "bootTimers" \in F => b.bootTimers \subseteq Nat \X Hosts,
           "link" \in F => b.link \in Links,
           "wish" \in F => b.wish \in {"none", "connect", "stopped"},
           "queue" \in F => b.queue \in Seq(Events)
    PROVE  Sound(b)
<1>1. DOMAIN b = Fields /\ \A f \in Fields : f \in F \/ b[f] = a[f]
  BY DEF Same
<1>2. ASSUME NEW f \in Flags PROVE b[f] \in BOOLEAN
  <2>1. f \in Fields /\ a[f] \in BOOLEAN
    BY DEF Fields, Sound
  <2> QED
    BY <1>1, <2>1
<1>3. /\ b.host \in Hosts \cup {0} /\ b.pending \in Hosts \cup {0}
      /\ b.session \in Nat /\ b.generation \in Nat
      /\ b.wakes \in 0 .. kMaxWakeAttempts /\ b.syncAttempts \in 0 .. kMaxSyncReconnectAttempts
  BY <1>1 DEF Sound, Fields
<1>4. b.idents \subseteq Identity /\ b.asked \subseteq Identity /\ b.reported \subseteq Identity
  BY <1>1 DEF Sound, Fields
<1>5. b.wakeTimers \subseteq 0 .. b.generation
  <2>1. CASE "wakeTimers" \in F \/ "generation" \in F
    BY <2>1
  <2>2. CASE ~("wakeTimers" \in F \/ "generation" \in F)
    <3>1. b.wakeTimers = a.wakeTimers /\ b.generation = a.generation
      BY <1>1, <2>2 DEF Fields
    <3> QED
      BY <3>1 DEF Sound
  <2> QED
    BY <2>1, <2>2
<1>6. /\ b.syncTimers \subseteq Hosts /\ b.bootTimers \subseteq Nat \X Hosts
      /\ b.link \in Links /\ b.wish \in {"none", "connect", "stopped"}
      /\ b.queue \in Seq(Events)
  BY <1>1 DEF Sound, Fields
<1> QED
  BY <1>1, <1>2, <1>3, <1>4, <1>5, <1>6, Zenon DEF Sound

LEMMA ReadyChangedFalse ==
    ASSUME NEW a, Sound(a)
    PROVE  LET b == readyChanged(a, FALSE)
           IN  /\ Sound(b) /\ Same(a, b, {"modelReady", "queue"}) /\ ~b.modelReady
               /\ b.queue = IF a.modelReady THEN Append(a.queue, ReadyIs(FALSE)) ELSE a.queue
<1> DEFINE b == readyChanged(a, FALSE)
<1>1. CASE a.modelReady = FALSE
  <2>1. b = a
    BY <1>1 DEF readyChanged
  <2> QED
    BY <1>1, <2>1 DEF Same, Sound
<1>2. CASE a.modelReady = TRUE
  <2>1. b = [[a EXCEPT !.modelReady = FALSE] EXCEPT !.queue = Append(@, ReadyIs(FALSE))]
    BY <1>2 DEF readyChanged, Post, ReadyIs
  <2> HIDE DEF b
  <2>2. DOMAIN b = Fields /\ b.modelReady = FALSE /\ b.queue = Append(a.queue, ReadyIs(FALSE))
    BY <2>1 DEF Sound, Fields, Flags
  <2>3. Same(a, b, {"modelReady", "queue"})
    BY <2>1 DEF Sound, Fields, Flags, Same
  <2>4. b.queue \in Seq(Events)
    BY <2>2, FalseAppended DEF Sound
  <2>5. Sound(b)
    BY <2>2, <2>3, <2>4, SoundBut DEF Same, Fields, Flags
  <2> QED
    BY <1>2, <2>2, <2>3, <2>5 DEF b
<1>3. a.modelReady \in BOOLEAN
  BY DEF Sound, Flags
<1> QED
  BY <1>1, <1>2, <1>3

\* Fields that no property depends on.
Aside == {"asked", "delay", "retry", "snapshot", "requested", "postRequested", "syncPending",
          "stage", "syncs"}

\* b is a after its session was closed, the window not yet told.
Shut(a, b) ==
    /\ Sound(b)
    /\ Same(a, b, {"session", "live", "link", "watchdog", "idents", "ready", "reported",
                   "unsafe", "modelReady", "queue"} \cup Aside)
    /\ b.session = a.session + 1 /\ ~b.live /\ b.link = "off" /\ ~b.watchdog
    /\ b.idents = {} /\ ~b.ready /\ b.reported = {} /\ ~b.modelReady
    /\ b.queue = IF a.modelReady THEN Append(a.queue, ReadyIs(FALSE)) ELSE a.queue

LEMMA ShutdownShuts ==
    ASSUME NEW a, Sound(a), NEW s \in BOOLEAN, a.live
    PROVE  LET b == shutdownConnection(a, FALSE, s)
           IN  Shut(a, b) /\ b.unsafe = (a.unsafe \/ (a.complete /\ ~s))
<1> DEFINE u == a.unsafe \/ (a.complete /\ ~s)
           c == [a EXCEPT !.session = @ + 1, !.live = FALSE, !.link = "off", !.asked = {},
                          !.delay = FALSE, !.retry = FALSE, !.snapshot = FALSE,
                          !.watchdog = FALSE, !.idents = {}, !.ready = FALSE,
                          !.requested = FALSE, !.postRequested = FALSE, !.reported = {},
                          !.unsafe = u]
           F == {"session", "live", "link", "watchdog", "idents", "ready", "reported",
                 "unsafe"} \cup Aside
           b == readyChanged(c, FALSE)
<1>1. u \in BOOLEAN
  OBVIOUS
<1>2. shutdownConnection(a, FALSE, s) = b
  BY DEF shutdownConnection
<1> HIDE DEF u
<1>3. DOMAIN c = Fields
  BY DEF Sound
<1>4. Same(a, c, F)
  BY <1>3 DEF Sound, Same, Fields, Flags, Aside
<1>5. /\ c.session = a.session + 1 /\ c.link = "off" /\ c.idents = {} /\ c.reported = {}
      /\ c.unsafe = u /\ c.asked = {} /\ c.live = FALSE /\ c.watchdog = FALSE
      /\ c.ready = FALSE
  BY <1>3 DEF Sound, Fields, Flags
<1>6. /\ c.delay = FALSE /\ c.retry = FALSE /\ c.snapshot = FALSE /\ c.requested = FALSE
      /\ c.postRequested = FALSE /\ c.syncPending \in BOOLEAN
  <2>1. /\ {"delay", "retry", "snapshot", "requested", "postRequested"} \subseteq DOMAIN a
        /\ a.syncPending \in BOOLEAN
    BY DEF Sound, Fields, Flags
  <2> QED
    BY <2>1
<1> HIDE DEF c
<1>12. ASSUME NEW f \in Flags PROVE c[f] \in BOOLEAN
  <2>1. CASE f \in F
    BY <1>1, <1>5, <1>6, <2>1 DEF Flags, Aside
  <2>2. CASE f \notin F
    BY <1>4, <2>2 DEF Same, Sound, Fields
  <2> QED
    BY <2>1, <2>2
<1>13. /\ c.host = a.host /\ c.pending = a.pending /\ c.generation = a.generation
       /\ c.wakes = a.wakes /\ c.syncAttempts = a.syncAttempts
       /\ c.wakeTimers = a.wakeTimers /\ c.syncTimers = a.syncTimers
       /\ c.bootTimers = a.bootTimers /\ c.wish = a.wish /\ c.queue = a.queue
  BY <1>4 DEF Same, Fields, Aside
<1>7. Sound(c)
  BY <1>3, <1>5, <1>12, <1>13 DEF Sound, Links
<1>8. /\ Sound(b) /\ Same(c, b, {"modelReady", "queue"}) /\ ~b.modelReady
      /\ b.queue = IF c.modelReady THEN Append(c.queue, ReadyIs(FALSE)) ELSE c.queue
  BY <1>7, ReadyChangedFalse
<1> HIDE DEF b
<1>9. c.modelReady = a.modelReady /\ c.queue = a.queue
  BY <1>4 DEF Same, Fields, Flags, Aside
<1>10. /\ b.session = c.session /\ b.live = c.live /\ b.link = c.link
       /\ b.watchdog = c.watchdog /\ b.idents = c.idents /\ b.ready = c.ready
       /\ b.reported = c.reported /\ b.unsafe = c.unsafe
  BY <1>8 DEF Same, Fields, Flags
<1>11. Same(a, b, F \cup {"modelReady", "queue"})
  BY <1>4, <1>8 DEF Same
<1> QED
  BY <1>2, <1>5, <1>8, <1>9, <1>10, <1>11 DEF Shut, u

\* The window pursues a connection whose loss it hears of.
Pursues(a) == a.uiReady /\ ~a.userDisconnected /\ ~a.credential /\ a.pending # 0

\* b is a after the window was told that the connection is gone.
Window == {"connected", "modelReady", "queue", "uiReady", "reconnecting", "reconnectTimer",
           "userDisconnected", "credential"}
Gone(a, b) ==
    /\ Sound(b) /\ Same(a, b, Window)
    /\ ~b.connected /\ ~b.modelReady /\ ~b.uiReady
    /\ b.queue = Append(a.queue, ReadyIs(FALSE))
    /\ IF Pursues(a)
       THEN b.reconnecting /\ b.reconnectTimer /\ b.userDisconnected = a.userDisconnected
       ELSE ~b.reconnecting /\ ~b.userDisconnected /\ b.reconnectTimer = a.reconnectTimer

LEMMA DisconnectedGone == ASSUME NEW a, Sound(a) PROVE Gone(a, onBackendDisconnected(a))
<1> DEFINE c == [a EXCEPT !.connected = FALSE, !.modelReady = FALSE]
           d == connectionLost(c)
           b == Post(d, ReadyIs(FALSE))
<1>1. onBackendDisconnected(a) = b
  BY DEF onBackendDisconnected, ReadyIs
<1>2. /\ DOMAIN c = Fields /\ c.connected = FALSE /\ c.modelReady = FALSE
      /\ c.uiReady = a.uiReady /\ c.userDisconnected = a.userDisconnected
      /\ c.credential = a.credential /\ c.pending = a.pending
  BY DEF Sound, Fields, Flags
<1>3. Same(a, c, {"connected", "modelReady"})
  BY <1>2 DEF Same
<1> HIDE DEF c
<1>4. /\ DOMAIN d = Fields /\ Same(c, d, Window \ {"connected", "modelReady", "queue"})
      /\ d.uiReady = FALSE
      /\ IF Pursues(a)
         THEN /\ d.reconnecting = TRUE /\ d.reconnectTimer = TRUE
              /\ d.userDisconnected = a.userDisconnected /\ d.credential = a.credential
         ELSE /\ d.reconnecting = FALSE /\ d.userDisconnected = FALSE /\ d.credential = FALSE
              /\ d.reconnectTimer = c.reconnectTimer
  <2>1. shouldRetryRadioConnection(c, c.uiReady, FALSE) <=> Pursues(a)
    BY <1>2 DEF shouldRetryRadioConnection, Pursues
  <2>2. CASE Pursues(a)
    <3>1. d = [[c EXCEPT !.uiReady = FALSE] EXCEPT !.reconnecting = TRUE, !.reconnectTimer = TRUE]
      BY <2>1, <2>2 DEF connectionLost, scheduleRadioReconnect
    <3> HIDE DEF d
    <3> QED
      BY <1>2, <2>2, <3>1 DEF Same, Fields, Flags, Window
  <2>3. CASE ~Pursues(a)
    <3>1. d = [[c EXCEPT !.uiReady = FALSE] EXCEPT !.reconnecting = FALSE,
                  !.userDisconnected = FALSE, !.credential = FALSE]
      BY <2>1, <2>3 DEF connectionLost
    <3> HIDE DEF d
    <3> QED
      BY <1>2, <2>3, <3>1 DEF Same, Fields, Flags, Window
  <2> QED
    BY <2>2, <2>3
<1> HIDE DEF d
<1>5. /\ DOMAIN b = Fields /\ Same(d, b, {"queue"}) /\ b.queue = Append(d.queue, ReadyIs(FALSE))
  BY <1>4 DEF Post, Same, Fields
<1> HIDE DEF b
<1>6. Same(a, b, Window)
  BY <1>3, <1>4, <1>5 DEF Same, Window
<1>7. b.queue = Append(a.queue, ReadyIs(FALSE)) /\ b.queue \in Seq(Events)
  <2>1. d.queue = a.queue
    BY <1>3, <1>4 DEF Same, Fields, Window
  <2> QED
    BY <1>5, <2>1, FalseAppended DEF Sound
<1>8. /\ b.uiReady = d.uiReady /\ b.connected = c.connected /\ b.modelReady = c.modelReady
      /\ b.reconnecting = d.reconnecting /\ b.reconnectTimer = d.reconnectTimer
      /\ b.userDisconnected = d.userDisconnected /\ b.credential = d.credential
      /\ c.reconnectTimer = a.reconnectTimer
  BY <1>3, <1>4, <1>5 DEF Same, Fields, Flags, Window
<1>9. \A f \in Flags : b[f] = a[f] \/ b[f] \in BOOLEAN
  <2>1. b.reconnecting \in BOOLEAN /\ b.reconnectTimer \in BOOLEAN
        /\ b.userDisconnected \in BOOLEAN /\ b.credential \in BOOLEAN
    BY <1>4, <1>8 DEF Sound, Flags
  <2>2. b.connected = FALSE /\ b.modelReady = FALSE /\ b.uiReady = FALSE
    BY <1>2, <1>4, <1>8
  <2>3. \A f \in Flags : f \notin Window => b[f] = a[f]
    BY <1>6, Zenon DEF Same, Fields
  <2>4. "queue" \notin Flags
    BY DEF Flags
  <2>5. ASSUME NEW f \in Flags, f \in Window PROVE b[f] \in BOOLEAN
    BY <2>1, <2>2, <2>4, <2>5 DEF Window
  <2> QED
    BY <2>3, <2>5, Zenon
<1>10. Sound(b)
  BY <1>6, <1>7, <1>9, SoundBut DEF Same, Fields, Flags, Window
<1> QED
  BY <1>1, <1>2, <1>4, <1>6, <1>7, <1>8, <1>10 DEF Gone

\* b is a after the window was told of an error.
Told(a, b, code) ==
    /\ Sound(b) /\ Same(a, b, Window) /\ ~b.connected
    /\ a.connected =>
          /\ ~b.modelReady /\ ~b.uiReady /\ b.queue = Append(a.queue, ReadyIs(FALSE))
          /\ IF a.uiReady /\ ~a.userDisconnected /\ code # "AuthFailure" /\ a.pending # 0
             THEN b.reconnecting /\ b.reconnectTimer /\ b.userDisconnected = a.userDisconnected
             ELSE ~b.reconnecting /\ ~b.userDisconnected /\ b.reconnectTimer = a.reconnectTimer
    /\ ~a.connected =>
          /\ b.modelReady = a.modelReady /\ b.uiReady = a.uiReady /\ b.queue = a.queue
          /\ b.userDisconnected = a.userDisconnected
          /\ IF isAutomaticReconnectError(code) /\ ~a.userDisconnected /\ a.pending # 0
             THEN b.reconnecting /\ b.reconnectTimer
             ELSE b.reconnecting = a.reconnecting /\ b.reconnectTimer = a.reconnectTimer

LEMMA ErrorTold ==
    ASSUME NEW a, Sound(a), NEW code \in Codes
    PROVE  Told(a, onBackendError(a, code), code)
<1> DEFINE p == [a EXCEPT !.credential = (code = "AuthFailure")]
           t == scheduleRadioReconnect(p)
           b == onBackendError(a, code)
<1>1. /\ DOMAIN p = Fields /\ p.credential = (code = "AuthFailure")
      /\ p.credential \in BOOLEAN
  BY DEF Sound, Fields, Flags
<1>2. Same(a, p, {"credential"})
  BY <1>1 DEF Same
<1>3. Sound(p)
  BY <1>1, <1>2, SoundBut DEF Same, Sound, Fields, Flags
<1> HIDE DEF p
<1>4. /\ p.connected = a.connected /\ p.uiReady = a.uiReady /\ p.pending = a.pending
      /\ p.userDisconnected = a.userDisconnected /\ p.reconnecting = a.reconnecting
      /\ p.reconnectTimer = a.reconnectTimer /\ p.queue = a.queue
      /\ p.modelReady = a.modelReady
  BY <1>2 DEF Same, Fields, Flags
<1>5. onError(a, code) = IF ~p.connected /\ shouldRetryRadioConnection(p, FALSE, isAutomaticReconnectError(code))
                         THEN t ELSE p
  BY <1>4 DEF onError, p
<1>6. a.connected \in BOOLEAN
  BY DEF Sound, Flags
<1>7. CASE a.connected = TRUE
  <2>1. onError(a, code) = p
    BY <1>4, <1>5, <1>7
  <2>2. b = onBackendDisconnected(p)
    BY <1>4, <1>7, <2>1 DEF onBackendError
  <2>3. Gone(p, b)
    BY <1>3, <2>2, DisconnectedGone
  <2> HIDE DEF b
  <2>4. Same(a, b, Window)
    BY <1>2, <2>3 DEF Gone, Same, Window
  <2>5. Pursues(p) <=> a.uiReady /\ ~a.userDisconnected /\ code # "AuthFailure" /\ a.pending # 0
    BY <1>1, <1>4 DEF Pursues
  <2> QED
    BY <1>4, <1>7, <2>3, <2>4, <2>5 DEF Gone, Told, b
<1>8. CASE a.connected = FALSE
  <2>1. shouldRetryRadioConnection(p, FALSE, isAutomaticReconnectError(code))
            <=> isAutomaticReconnectError(code) /\ ~a.userDisconnected /\ a.pending # 0
    BY <1>1, <1>4 DEF shouldRetryRadioConnection, isAutomaticReconnectError
  <2>2. /\ Sound(t) /\ Same(a, t, {"credential", "reconnecting", "reconnectTimer"})
        /\ t.reconnecting /\ t.reconnectTimer
    <3>1. /\ DOMAIN t = Fields /\ t.reconnecting = TRUE /\ t.reconnectTimer = TRUE
          /\ Same(p, t, {"reconnecting", "reconnectTimer"})
      BY <1>1 DEF scheduleRadioReconnect, Same, Fields, Flags
    <3> HIDE DEF t
    <3>2. \A f \in Flags : t[f] = p[f] \/ t[f] \in BOOLEAN
      BY <3>1 DEF Same, Fields, Flags
    <3>3. t.queue \in Seq(Events)
      BY <1>3, <3>1 DEF Same, Sound, Fields
    <3>4. Sound(t)
      BY <1>3, <3>1, <3>2, <3>3, SoundBut DEF Same, Fields, Flags
    <3> QED
      BY <1>2, <3>1, <3>4 DEF Same
  <2>3. CASE isAutomaticReconnectError(code) /\ ~a.userDisconnected /\ a.pending # 0
    <3>1. onError(a, code) = t
      BY <1>4, <1>5, <1>8, <2>1, <2>3
    <3>2. t.connected = a.connected /\ t.modelReady = a.modelReady /\ t.uiReady = a.uiReady
          /\ t.queue = a.queue /\ t.userDisconnected = a.userDisconnected
      BY <2>2 DEF Same, Fields, Flags
    <3>3. b = t
      BY <1>8, <3>1, <3>2 DEF onBackendError
    <3> HIDE DEF b, t
    <3>4. Same(a, b, Window)
      BY <2>2, <3>3 DEF Same, Window
    <3> QED
      BY <1>8, <2>2, <2>3, <3>2, <3>3, <3>4 DEF Told, b
  <2>4. CASE ~(isAutomaticReconnectError(code) /\ ~a.userDisconnected /\ a.pending # 0)
    <3>1. onError(a, code) = p
      BY <1>5, <2>1, <2>4
    <3>2. b = p
      BY <1>4, <1>8, <3>1 DEF onBackendError
    <3> HIDE DEF b
    <3>3. Same(a, b, Window)
      BY <1>2, <3>2 DEF Same, Window
    <3> QED
      BY <1>3, <1>4, <1>8, <2>4, <3>2, <3>3 DEF Told, b
  <2> QED
    BY <2>3, <2>4
<1> QED
  BY <1>6, <1>7, <1>8

-----------------------------------------------------------------------------
(* The invariant, a predicate on the record.                               *)

\* Events of the worker and the router wait in the order of their sessions; those
\* of the current session come from a live one.
Sorted(a) ==
    LET q == a.queue IN
    /\ \A i \in DOMAIN q : q[i][1] # "ready" =>
          q[i][3] <= a.session /\ (q[i][3] = a.session => a.live)
    /\ \A i, j \in DOMAIN q :
          i < j /\ q[i][1] # "ready" /\ q[j][1] # "ready" => q[i][3] <= q[j][3]

\* A worker tells of its session's answer first, then of readings, and at last of
\* errors; what it has not come to it has not told.
Telling(a) ==
    LET q == a.queue IN
    /\ \A i, j \in DOMAIN q :
          i < j /\ Of(q[i], a.session) /\ Of(q[j], a.session) =>
              q[j][1] # "lanReady" /\ (q[i][1] = "error" => q[j][1] = "error")
    /\ ~a.complete =>
          /\ a.link = "proven" => \E i \in DOMAIN q : q[i][1] = "lanReady" /\ Of(q[i], a.session)
          /\ \A j \in DOMAIN q : q[j][1] = "report" /\ Of(q[j], a.session) =>
                 \E i \in DOMAIN q : i < j /\ q[i][1] = "lanReady" /\ Of(q[i], a.session)

\* No answer of the current session's command plane is known or on its way.
Unproven(a) ==
    ~a.complete /\ \A i \in DOMAIN a.queue : Of(a.queue[i], a.session) => a.queue[i][1] = "error"
NoneOf(a) == \A i \in DOMAIN a.queue : ~Of(a.queue[i], a.session)

\* What the worker has come to, and what it has told.  A session that will be
\* replaced to wake the radio has not proven itself.
Linked(a) ==
    LET q == a.queue IN
    /\ a.live <=> a.link # "off"
    /\ a.live => a.host # 0
    /\ a.link \in {"login", "probing"} => ~a.complete /\ NoneOf(a)
    /\ a.link = "silent" => Unproven(a)
    /\ a.link = "proven" => \A i \in DOMAIN q : Of(q[i], a.session) => q[i][1] # "error"
    /\ a.link \in {"silent", "failed"} =>
          \A i \in DOMAIN q : Of(q[i], a.session) /\ Exhausts(q[i]) =>
              /\ Unproven(a) /\ a.generation \notin a.wakeTimers
              /\ \A j \in DOMAIN q : Of(q[j], a.session) /\ Exhausts(q[j]) => i = j
    /\ a.generation \in a.wakeTimers => Unproven(a) /\ a.link \in {"silent", "failed"}
    /\ a.bootstrapPending => ~a.live /\ ~a.complete
    /\ a.watchdog => a.live /\ a.complete

\* Readings: of a proven session only its own count, and no others wait; none are
\* left of a proven session while the radio is woken.
Proven(a) == a.live /\ a.complete
Waking(a) == (a.retried \/ a.wakes > 0) /\ ~a.complete
Read(a) ==
    LET q == a.queue IN
    /\ Proven(a) =>
          /\ a.idents = a.reported /\ ~a.reconnectTimer
          /\ \A i \in DOMAIN q : /\ q[i][1] = "report" => Of(q[i], a.session)
                                 /\ q[i][1] = "lanReady" => ~Of(q[i], a.session)
    /\ a.ready => a.idents = Identity /\ a.syncAttempts = 0
    /\ Waking(a) => /\ ~a.ready
                    /\ \A i \in DOMAIN q : q[i][1] = "report" => Of(q[i], a.session)

\* The window, once it has handled what the model announced, shows the backend's
\* state.
Panel(a) ==
    LET q == a.queue IN
    /\ a.uiReady => a.connected
    /\ a.modelReady => a.ready
    /\ a.connected /\ a.ready => a.modelReady
    /\ (\A i \in DOMAIN q : q[i][1] # "ready") => (a.uiReady <=> a.connected /\ a.modelReady)
    /\ \A i \in DOMAIN q :
          q[i][1] = "ready" /\ (\A j \in DOMAIN q : j > i => q[j][1] # "ready")
              => (q[i][2] <=> a.modelReady)

\* A window that still shows a ready radio when the session changed learns better
\* before the i-th event.
Corrected(a, i) ==
    LET q == a.queue IN
    /\ a.uiReady \/ (\E j \in DOMAIN q : j < i /\ Shows(q[j], TRUE)) =>
          \E k \in DOMAIN q : /\ k < i /\ Shows(q[k], FALSE)
                              /\ \A j \in DOMAIN q : k < j /\ j < i => ~Shows(q[j], TRUE)
    /\ \A j \in DOMAIN q : j > i => ~Shows(q[j], TRUE)

\* So it does before a session fails that never was ready; only the first attempt
\* to synchronize can find it otherwise.
Screened(a) ==
    LET q == a.queue IN
    /\ a.live /\ ~a.complete /\ ~a.ready =>
          \A i \in DOMAIN q : Of(q[i], a.session) => Corrected(a, i)
    /\ Proven(a) /\ ~a.ready /\ (a.uiReady \/ \E j \in DOMAIN q : Shows(q[j], TRUE)) =>
          a.syncAttempts = 0

\* What is under way, or will be, is wanted; and when the last attempt to wake the
\* radio fails nothing is left that would start another session.
Retrying(a) == a.wakes = 2 \/ (a.wakes = 1 /\ a.generation \notin a.wakeTimers)
Wanted(a) ==
    /\ a.live \/ a.bootstrapPending \/ a.host \in a.syncTimers => a.wish = "connect"
    /\ a.reconnectTimer /\ a.reconnecting => a.wish = "connect"
    /\ a.wish = "connect" => ~a.userDisconnected /\ a.pending # 0
    /\ (a.live \/ a.bootstrapPending) /\ ~a.complete /\ Retrying(a) =>
          ~a.reconnectTimer /\ a.syncTimers = {}

Inv(a) ==
    /\ Sound(a) /\ Sorted(a) /\ Telling(a) /\ Linked(a) /\ Read(a) /\ Panel(a) /\ Screened(a)
    /\ Wanted(a) /\ ~a.unsafe
-----------------------------------------------------------------------------
(* Parts of the invariant that a change elsewhere in the record keeps.     *)

LEMMA SortedKept ==
    ASSUME NEW a, NEW b, NEW v, Sound(a), Sorted(a), Announced(a.queue, b.queue, v),
           (b.session = a.session /\ b.live = a.live) \/ (b.session \in Nat /\ b.session > a.session)
    PROVE  Sorted(b)
<1>1. a.queue \in Seq(Events) /\ b.queue \in Seq(Events) /\ a.session \in Nat
  BY DEF Sound, Announced
<1>2. \A i \in DOMAIN b.queue : b.queue[i][1] # "ready" => i \in DOMAIN a.queue
  BY DEF Announced, Shows
<1>3. \A i \in DOMAIN a.queue : b.queue[i] = a.queue[i] /\ a.queue[i] \in Events
  BY <1>1, QueueDomain, ElementOfSeq DEF Announced
<1>4. \A i \in DOMAIN a.queue : a.queue[i][3] \in Nat
  BY <1>3, EventFields
<1> DEFINE q == a.queue
           r == b.queue
<1>5. ASSUME NEW i \in DOMAIN r, r[i][1] # "ready"
      PROVE  r[i][3] <= b.session /\ (r[i][3] = b.session => b.live)
  <2>1. i \in DOMAIN a.queue /\ r[i] = a.queue[i] /\ r[i][3] \in Nat
    BY <1>2, <1>3, <1>4, <1>5
  <2>2. r[i][3] <= a.session /\ (r[i][3] = a.session => a.live)
    BY <1>5, <2>1 DEF Sorted
  <2> QED
    BY <1>1, <2>1, <2>2
<1>6. \A i, j \in DOMAIN r :
          i < j /\ r[i][1] # "ready" /\ r[j][1] # "ready" => r[i][3] <= r[j][3]
  BY <1>2, <1>3 DEF Sorted
<1> QED
  BY <1>5, <1>6, Zenon DEF Sorted

LEMMA PanelShown ==
    ASSUME NEW b, NEW q \in Seq(Events), NEW v \in BOOLEAN, b.queue = Append(q, ReadyIs(v)),
           b.modelReady = v, b.uiReady => b.connected, b.modelReady => b.ready,
           b.connected /\ b.ready => b.modelReady
    PROVE  Panel(b)
<1> DEFINE n == Len(q) + 1
           r == b.queue
<1>1. /\ n \in DOMAIN r /\ r[n] = ReadyIs(v) /\ r \in Seq(Events)
  BY ReadyAnnounced DEF Announced
<1>2. \A i \in DOMAIN r : i = n \/ i < n
  <2>1. ReadyIs(v) \in Events
    BY DEF ReadyIs, Events
  <2> QED
    BY <2>1, Appended
<1>3. r[n][1] = "ready" /\ (r[n][2] <=> b.modelReady)
  BY <1>1 DEF ReadyIs
<1> HIDE DEF n, r
<1>4. \A i \in DOMAIN r :
          r[i][1] = "ready" /\ (\A j \in DOMAIN r : j > i => r[j][1] # "ready")
              => (r[i][2] <=> b.modelReady)
  <2> SUFFICES ASSUME NEW i \in DOMAIN r, i # n, \A j \in DOMAIN r : j > i => r[j][1] # "ready"
               PROVE  FALSE
    BY <1>3
  <2>1. n > i
    BY <1>1, <1>2, QueueDomain
  <2> QED
    BY <1>1, <1>3, <2>1
<1> QED
  BY <1>1, <1>3, <1>4 DEF Panel, r

LEMMA PanelKept ==
    ASSUME NEW a, NEW b, Panel(a), b.queue = a.queue, b.uiReady = a.uiReady,
           b.connected = a.connected, b.modelReady = a.modelReady,
           b.ready = a.ready \/ (~b.modelReady /\ ~b.ready)
    PROVE  Panel(b)
BY DEF Panel

\* What does not depend on the session's progress.
Basic(a) ==
    /\ Sound(a) /\ Sorted(a) /\ Panel(a) /\ ~a.unsafe
    /\ a.live <=> a.link # "off"
    /\ a.watchdog => a.live
    /\ a.ready => a.idents = Identity
Quiet(a) == Basic(a) /\ ~a.live

LEMMA InvBasic == ASSUME NEW a, Inv(a) PROVE Basic(a)
BY DEF Inv, Basic, Linked, Read

\* No events of a quiet record's session wait.
LEMMA QuietQueue ==
    ASSUME NEW a, Quiet(a)
    PROVE  /\ NoneOf(a) /\ a.link = "off" /\ ~a.watchdog
           /\ \A i \in DOMAIN a.queue : ~Of(a.queue[i], a.session)
BY DEF Quiet, Basic, Sorted, NoneOf, Of

LEMMA QuietInv ==
    ASSUME NEW a, Quiet(a), Wanted(a), a.generation \notin a.wakeTimers,
           a.bootstrapPending => ~a.complete, a.ready => a.syncAttempts = 0,
           Waking(a) => ~a.ready /\ \A i \in DOMAIN a.queue : a.queue[i][1] # "report"
    PROVE  Inv(a)
<1>1. NoneOf(a) /\ a.link = "off" /\ ~a.watchdog /\ \A i \in DOMAIN a.queue : ~Of(a.queue[i], a.session)
  BY QuietQueue
<1>2. Telling(a)
  BY <1>1 DEF Telling
<1>3. Linked(a)
  BY <1>1 DEF Linked, Quiet, Basic
<1>4. Read(a)
  BY DEF Read, Quiet, Basic, Proven
<1>5. Screened(a)
  BY DEF Screened, Quiet, Proven
<1> QED
  BY <1>2, <1>3, <1>4, <1>5 DEF Inv, Quiet, Basic

LEMMA ShutQuiet ==
    ASSUME NEW a, NEW b, Basic(a), Shut(a, b), ~b.unsafe
    PROVE  Quiet(b) /\ Announced(a.queue, b.queue, FALSE) /\ Extends(a.queue, b.queue)
<1>1. a.queue \in Seq(Events) /\ a.modelReady \in BOOLEAN /\ a.session \in Nat
  BY DEF Basic, Sound, Flags
<1>2. ReadyIs(FALSE) \in Events
  BY DEF ReadyIs, Events
<1>3. Announced(a.queue, b.queue, FALSE) /\ Extends(a.queue, b.queue)
  <2>1. CASE a.modelReady
    BY <1>1, <1>2, <2>1, FalseAppended, AppendExtends DEF Shut
  <2>2. CASE ~a.modelReady
    BY <1>1, <2>2, NoneAnnounced DEF Shut, Extends
  <2> QED
    BY <2>1, <2>2
<1>4. Sorted(b)
  <2>1. b.session \in Nat /\ b.session > a.session
    BY <1>1 DEF Shut
  <2> QED
    BY <1>3, <2>1, SortedKept DEF Basic
<1>5. b.uiReady = a.uiReady /\ b.connected = a.connected /\ b.modelReady = FALSE /\ b.ready = FALSE
  BY DEF Shut, Same, Sound, Fields, Flags, Aside
<1>6. Panel(b)
  <2>1. CASE a.modelReady
    <3>1. b.queue = Append(a.queue, ReadyIs(FALSE))
      BY <2>1 DEF Shut
    <3>2. b.uiReady => b.connected
      BY <1>5 DEF Basic, Panel
    <3> QED
      BY <1>1, <1>5, <3>1, <3>2, PanelShown
  <2>2. CASE ~a.modelReady
    <3>1. b.queue = a.queue /\ a.modelReady = FALSE
      BY <1>1, <2>2 DEF Shut
    <3> QED
      BY <1>5, <3>1, PanelKept DEF Basic
  <2> QED
    BY <2>1, <2>2
<1> QED
  BY <1>3, <1>4, <1>6 DEF Quiet, Basic, Shut

LEMMA GoneQuiet ==
    ASSUME NEW a, NEW b, Quiet(a), Gone(a, b)
    PROVE  Quiet(b) /\ Announced(a.queue, b.queue, FALSE) /\ Extends(a.queue, b.queue)
<1>1. a.queue \in Seq(Events) /\ a.session \in Nat
  BY DEF Quiet, Basic, Sound
<1>2. ReadyIs(FALSE) \in Events
  BY DEF ReadyIs, Events
<1>3. Announced(a.queue, b.queue, FALSE) /\ Extends(a.queue, b.queue)
  BY <1>1, <1>2, FalseAppended, AppendExtends DEF Gone
<1>4. /\ b.session = a.session /\ b.live = a.live /\ b.link = a.link /\ b.ready = a.ready
      /\ b.idents = a.idents /\ b.unsafe = a.unsafe /\ b.watchdog = a.watchdog
  BY DEF Gone, Same, Fields, Flags, Window
<1>5. Sorted(b)
  BY <1>1, <1>3, <1>4, SortedKept DEF Quiet, Basic
<1>6. b.modelReady = FALSE /\ b.connected = FALSE /\ b.uiReady = FALSE
  BY DEF Gone, Sound, Flags
<1>7. Panel(b)
  BY <1>1, <1>6, PanelShown DEF Gone
<1> QED
  BY <1>3, <1>4, <1>5, <1>7 DEF Quiet, Basic, Gone

LEMMA ToldQuiet ==
    ASSUME NEW a, NEW b, NEW code, Quiet(a), Told(a, b, code)
    PROVE  Quiet(b) /\ Announced(a.queue, b.queue, FALSE) /\ Extends(a.queue, b.queue)
<1>1. a.queue \in Seq(Events) /\ a.session \in Nat /\ a.connected \in BOOLEAN
  BY DEF Quiet, Basic, Sound, Flags
<1>2. ReadyIs(FALSE) \in Events
  BY DEF ReadyIs, Events
<1>3. Announced(a.queue, b.queue, FALSE) /\ Extends(a.queue, b.queue)
  <2>1. CASE a.connected
    BY <1>1, <1>2, <2>1, FalseAppended, AppendExtends DEF Told
  <2>2. CASE ~a.connected
    BY <1>1, <2>2, NoneAnnounced DEF Told, Extends
  <2> QED
    BY <2>1, <2>2
<1>4. /\ b.session = a.session /\ b.live = a.live /\ b.link = a.link /\ b.ready = a.ready
      /\ b.idents = a.idents /\ b.unsafe = a.unsafe /\ b.watchdog = a.watchdog
  BY DEF Told, Same, Fields, Flags, Window
<1>5. Sorted(b)
  BY <1>1, <1>3, <1>4, SortedKept DEF Quiet, Basic
<1>6. b.connected = FALSE /\ b.modelReady \in BOOLEAN /\ b.uiReady \in BOOLEAN
  BY DEF Told, Sound, Flags
<1>7. Panel(b)
  <2>1. CASE a.connected
    <3>1. b.queue = Append(a.queue, ReadyIs(FALSE)) /\ b.modelReady = FALSE /\ b.uiReady = FALSE
      BY <1>6, <2>1 DEF Told
    <3> QED
      BY <1>1, <1>6, <3>1, PanelShown
  <2>2. CASE ~a.connected
    BY <1>1, <1>4, <1>6, <2>2, PanelKept DEF Told, Quiet, Basic
  <2> QED
    BY <2>1, <2>2
<1> QED
  BY <1>3, <1>4, <1>5, <1>7 DEF Quiet, Basic, Told

\* Parts that other fields than these do not touch.
Essence == {"queue", "session", "live", "uiReady", "connected", "modelReady", "ready", "link",
            "watchdog", "idents", "unsafe"}
LEMMA BasicKept ==
    ASSUME NEW a, NEW b, NEW F, Basic(a), Sound(b), Same(a, b, F), F \cap Essence = {}
    PROVE  Basic(b) /\ b.live = a.live /\ b.queue = a.queue
<1>1. /\ b.queue = a.queue /\ b.session = a.session /\ b.live = a.live /\ b.uiReady = a.uiReady
      /\ b.connected = a.connected /\ b.modelReady = a.modelReady /\ b.ready = a.ready
      /\ b.link = a.link /\ b.watchdog = a.watchdog /\ b.idents = a.idents
      /\ b.unsafe = a.unsafe
  <2>1. \A f \in Essence : f \in Fields \ F
    BY DEF Essence, Fields, Flags
  <2> QED
    BY <2>1 DEF Same, Essence
<1>2. Sorted(b)
  BY <1>1 DEF Basic, Sorted
<1> QED
  BY <1>1, <1>2, PanelKept DEF Basic

\* The invariant only depends on some fields.
LEMMA InvKept ==
    ASSUME NEW a, NEW b, Inv(a), Sound(b),
           Same(a, b, Aside \cup {"bootTimers", "credential"})
    PROVE  Inv(b) /\ b.queue = a.queue
<1>1. /\ b.queue = a.queue /\ b.session = a.session /\ b.live = a.live /\ b.uiReady = a.uiReady
      /\ b.connected = a.connected /\ b.modelReady = a.modelReady /\ b.ready = a.ready
      /\ b.link = a.link /\ b.watchdog = a.watchdog /\ b.idents = a.idents
      /\ b.unsafe = a.unsafe
  BY DEF Same, Fields, Flags, Aside
<1>2. /\ b.complete = a.complete /\ b.generation = a.generation /\ b.wakeTimers = a.wakeTimers
      /\ b.bootstrapPending = a.bootstrapPending /\ b.host = a.host /\ b.reported = a.reported
      /\ b.reconnectTimer = a.reconnectTimer /\ b.syncAttempts = a.syncAttempts
      /\ b.retried = a.retried /\ b.wakes = a.wakes /\ b.syncTimers = a.syncTimers
      /\ b.reconnecting = a.reconnecting /\ b.wish = a.wish /\ b.pending = a.pending
      /\ b.userDisconnected = a.userDisconnected
  BY DEF Same, Fields, Flags, Aside
<1>3. Sorted(b) /\ Telling(b)
  BY <1>1, <1>2 DEF Inv, Sorted, Telling
<1>4. Linked(b)
  BY <1>1, <1>2 DEF Inv, Linked, Unproven, NoneOf
<1>5. Read(b) /\ Panel(b)
  <2>1. Read(b)
    BY <1>1, <1>2 DEF Inv, Read, Proven, Waking
  <2> QED
    BY <1>1, <2>1, PanelKept DEF Inv
<1>6. Screened(b)
  BY <1>1, <1>2, Zenon DEF Inv, Screened, Corrected, Proven
<1>7. Wanted(b)
  BY <1>1, <1>2, Zenon DEF Inv, Wanted, Retrying
<1> QED
  BY <1>1, <1>3, <1>4, <1>5, <1>6, <1>7, Zenon DEF Inv

-----------------------------------------------------------------------------
(* Sessions that end and begin.                                            *)

Closing == {"session", "live", "link", "watchdog", "idents", "ready", "reported", "unsafe",
            "modelReady", "queue"} \cup Aside

LEMMA ShutdownEnds ==
    ASSUME NEW a, Basic(a), NEW s \in BOOLEAN, a.complete => s
    PROVE  LET b == shutdownConnection(a, FALSE, s)
           IN  /\ Quiet(b) /\ Announced(a.queue, b.queue, FALSE) /\ Extends(a.queue, b.queue)
               /\ Same(a, b, Closing) /\ (b.ready => a.ready /\ ~a.live)
<1> DEFINE b == shutdownConnection(a, FALSE, s)
<1>0. Sound(a) /\ a.live \in BOOLEAN /\ a.queue \in Seq(Events) /\ a.complete \in BOOLEAN
  BY DEF Basic, Sound, Flags
<1>1. CASE a.live
  <2>1. Shut(a, b) /\ b.unsafe = (a.unsafe \/ (a.complete /\ ~s))
    BY <1>0, <1>1, ShutdownShuts
  <2> HIDE DEF b
  <2>2. ~b.unsafe
    BY <1>0, <2>1 DEF Basic
  <2>3. Quiet(b) /\ Announced(a.queue, b.queue, FALSE) /\ Extends(a.queue, b.queue)
    BY <2>1, <2>2, ShutQuiet
  <2> QED
    BY <2>1, <2>3, Zenon DEF Shut, Closing, b
<1>2. CASE ~a.live
  <2>1. b = a
    BY <1>2 DEF shutdownConnection
  <2>2. Same(a, a, Closing)
    BY <1>0 DEF Same, Sound
  <2> HIDE DEF b
  <2> QED
    BY <1>0, <1>2, <2>1, <2>2, NoneAnnounced DEF Quiet, Extends, b
<1> QED
  BY <1>1, <1>2

\* connectToRadio, for a connection that is wanted.
LEMMA ConnectKeeps ==
    ASSUME LifecycleAssumption, NEW a, Inv(a), a.wish = "connect", NEW h \in Hosts
    PROVE  Inv(connectToRadio(a, h)) /\ Extends(a.queue, connectToRadio(a, h).queue)
<1> DEFINE a0 == [a EXCEPT !.bootstrapPending = FALSE, !.syncPending = FALSE,
                           !.syncAttempts = IF a.syncPending THEN @ ELSE 0]
           a1 == IF a.bootstrapPending THEN a0
                 ELSE [a0 EXCEPT !.generation = @ + 1, !.retried = FALSE, !.wakes = 0]
           b == shutdownConnection(a1, FALSE, a0.complete)
           c == [b EXCEPT !.complete = (a.bootstrapPending /\ @),
                          !.stage = IF a.bootstrapPending THEN @ ELSE "Connecting"]
           d == [c EXCEPT !.stage = "Failed"]
           e == [c EXCEPT !.host = h, !.session = @ + 1, !.live = TRUE, !.link = "login",
                          !.snapshot = FALSE]
           r == connectToRadio(a, h)
           G == {"bootstrapPending", "syncPending", "syncAttempts", "generation", "retried",
                 "wakes"}
<1>1. r = IF h \in Bad THEN onBackendError(d, "ConnectionFailed") ELSE e
  BY DEF connectToRadio, closeForReplacement
<1>2. Sound(a) /\ Basic(a) /\ DOMAIN a = Fields
  BY InvBasic DEF Basic, Sound
<1>3. DOMAIN a0 = Fields /\ a0.bootstrapPending = FALSE /\ a0.syncPending = FALSE
  BY <1>2 DEF Fields, Flags
<1>4. a0.syncAttempts = IF a.syncPending THEN a.syncAttempts ELSE 0
  BY <1>2 DEF Fields, Flags
<1>5. Same(a, a0, {"bootstrapPending", "syncPending", "syncAttempts"})
  BY <1>2, <1>3 DEF Same
<1>6. a0.generation = a.generation /\ a0.retried = a.retried /\ a0.wakes = a.wakes /\ a0.complete = a.complete
  BY <1>5 DEF Same, Fields, Flags
<1> HIDE DEF a0
<1>7. /\ DOMAIN a1 = Fields /\ Same(a, a1, G)
      /\ IF a.bootstrapPending
         THEN a1.generation = a.generation /\ a1.retried = a.retried /\ a1.wakes = a.wakes
         ELSE a1.generation = a.generation + 1 /\ a1.retried = FALSE /\ a1.wakes = 0
  <2>1. CASE a.bootstrapPending
    BY <1>3, <1>5, <1>6, <2>1 DEF Same
  <2>2. CASE ~a.bootstrapPending
    <3>1. a1 = [a0 EXCEPT !.generation = @ + 1, !.retried = FALSE, !.wakes = 0]
      BY <2>2
    <3> HIDE DEF a1
    <3>2. DOMAIN a1 = Fields /\ Same(a0, a1, {"generation", "retried", "wakes"})
      BY <1>3, <3>1 DEF Same
    <3>3. a1.generation = a.generation + 1 /\ a1.retried = FALSE /\ a1.wakes = 0
      BY <1>3, <1>6, <3>1 DEF Fields, Flags
    <3> QED
      BY <1>5, <2>2, <3>2, <3>3 DEF Same
  <2> QED
    BY <2>1, <2>2
<1>8. /\ a1.bootstrapPending = FALSE /\ a1.syncPending = FALSE
      /\ a1.syncAttempts = IF a.syncPending THEN a.syncAttempts ELSE 0
  <2>1. CASE a.bootstrapPending
    BY <1>3, <1>4, <2>1
  <2>2. CASE ~a.bootstrapPending
    <3>1. a1 = [a0 EXCEPT !.generation = @ + 1, !.retried = FALSE, !.wakes = 0]
      BY <2>2
    <3> HIDE DEF a1
    <3> QED
      BY <1>3, <1>4, <3>1 DEF Fields, Flags
  <2> QED
    BY <2>1, <2>2
<1> HIDE DEF a1
<1>9. /\ a.generation \in Nat /\ a.wakes \in 0 .. kMaxWakeAttempts /\ a.retried \in BOOLEAN
      /\ a.syncAttempts \in 0 .. kMaxSyncReconnectAttempts /\ a.wakeTimers \subseteq 0 .. a.generation
      /\ a.complete \in BOOLEAN /\ a.bootstrapPending \in BOOLEAN
  BY <1>2 DEF Sound, Flags
<1>10. a1.generation \in Nat /\ a1.generation >= a.generation
  BY <1>7, <1>9
<1>11. Sound(a1)
  <2>1. a1.wakeTimers = a.wakeTimers
    BY <1>7 DEF Same, Fields
  <2>2. a1.wakeTimers \subseteq 0 .. a1.generation
    BY <1>9, <1>10, <2>1
  <2>3. a1.wakes \in 0 .. kMaxWakeAttempts /\ a1.syncAttempts \in 0 .. kMaxSyncReconnectAttempts
    BY <1>7, <1>8, <1>9 DEF kMaxWakeAttempts, kMaxSyncReconnectAttempts
  <2>4. a1.retried \in BOOLEAN
    BY <1>7, <1>9, Zenon
  <2> QED
    BY <1>2, <1>7, <1>8, <1>10, <2>2, <2>3, <2>4, SoundWith DEF Flags
<1>12. Basic(a1) /\ a1.live = a.live /\ a1.queue = a.queue
  BY <1>2, <1>7, <1>11, BasicKept DEF Essence
<1>13. a1.complete = a.complete /\ a1.ready = a.ready
  BY <1>7 DEF Same, Fields, Flags
<1>14. /\ Quiet(b) /\ Announced(a.queue, b.queue, FALSE) /\ Extends(a.queue, b.queue)
       /\ Same(a1, b, Closing) /\ (b.ready => a.ready /\ ~a.live)
  BY <1>6, <1>9, <1>12, <1>13, ShutdownEnds
<1> HIDE DEF b
<1>15. /\ DOMAIN c = Fields /\ c.complete = (a.bootstrapPending /\ b.complete)
       /\ Same(b, c, {"complete", "stage"})
  BY <1>14 DEF Quiet, Basic, Sound, Same, Fields, Flags
<1> HIDE DEF c
<1>16. c.complete = FALSE
  <2>1. b.complete = a.complete
    BY <1>13, <1>14 DEF Same, Fields, Flags, Closing, Aside
  <2>2. a.bootstrapPending => a.complete = FALSE
    BY <1>9 DEF Inv, Linked
  <2> QED
    BY <1>9, <1>15, <2>1, <2>2
<1>17. Sound(c)
  BY <1>14, <1>15, <1>16, SoundWith DEF Quiet, Basic, Flags
<1>18. Quiet(c) /\ c.queue = b.queue
  BY <1>14, <1>15, <1>17, BasicKept DEF Quiet, Essence
<1>19. /\ c.pending = a.pending /\ c.syncTimers = a.syncTimers /\ c.wish = a.wish
       /\ c.reconnectTimer = a.reconnectTimer /\ c.reconnecting = a.reconnecting
       /\ c.userDisconnected = a.userDisconnected /\ c.wakeTimers = a.wakeTimers
  BY <1>7, <1>14, <1>15 DEF Same, Fields, Flags, Closing, Aside
<1>20. /\ c.bootstrapPending = FALSE /\ c.generation = a1.generation /\ c.retried = a1.retried
       /\ c.wakes = a1.wakes /\ c.syncAttempts = a1.syncAttempts /\ c.ready = b.ready
  BY <1>8, <1>14, <1>15 DEF Same, Fields, Flags, Closing, Aside
<1>21. c.generation \notin c.wakeTimers
  <2>1. CASE a.bootstrapPending
    <3>1. a.generation \notin a.wakeTimers
      BY <2>1 DEF Inv, Linked
    <3> QED
      BY <1>7, <1>19, <1>20, <2>1, <3>1
  <2>2. CASE ~a.bootstrapPending
    BY <1>7, <1>9, <1>19, <1>20, <2>2
  <2> QED
    BY <2>1, <2>2
<1>22. c.ready => c.syncAttempts = 0
  <2>1. a.ready => a.syncAttempts = 0
    BY DEF Inv, Read
  <2> QED
    BY <1>8, <1>14, <1>20, <2>1
<1>23. Waking(c) => a.bootstrapPending /\ Waking(a)
  <2> SUFFICES ASSUME Waking(c) PROVE a.bootstrapPending /\ Waking(a)
    OBVIOUS
  <2>1. a.bootstrapPending
    BY <1>7, <1>20 DEF Waking
  <2>2. a.complete = FALSE
    BY <1>9, <2>1 DEF Inv, Linked
  <2> QED
    BY <1>7, <1>20, <2>1, <2>2 DEF Waking
<1>24. ASSUME Waking(c)
       PROVE  ~c.ready /\ \A i \in DOMAIN c.queue : c.queue[i][1] # "report"
  <2>1. a.bootstrapPending /\ Waking(a) /\ ~a.live
    BY <1>23, <1>24 DEF Inv, Linked
  <2>2. ~a.ready /\ \A i \in DOMAIN a.queue : a.queue[i][1] = "report" => Of(a.queue[i], a.session)
    BY <2>1 DEF Inv, Read
  <2>3. \A i \in DOMAIN a.queue : a.queue[i][1] # "report"
    BY <1>2, <2>1, <2>2, QuietQueue DEF Quiet
  <2>4. \A i \in DOMAIN b.queue : b.queue[i][1] # "report"
    BY <1>14, <2>3 DEF Announced, Shows
  <2> QED
    BY <1>14, <1>18, <1>20, <2>2, <2>4
<1>25. ASSUME Retrying(c) PROVE ~c.reconnectTimer /\ c.syncTimers = {}
  <2>1. a.bootstrapPending
    BY <1>7, <1>20, <1>25 DEF Retrying
  <2>2. Retrying(a) /\ ~a.complete
    <3>1. a.complete = FALSE /\ a.generation \notin a.wakeTimers
      BY <1>9, <2>1 DEF Inv, Linked
    <3> QED
      BY <1>7, <1>20, <1>25, <2>1, <3>1 DEF Retrying
  <2> QED
    BY <1>19, <2>1, <2>2 DEF Inv, Wanted
<1>26. a.wish = "connect" /\ ~a.userDisconnected /\ a.pending # 0
  BY DEF Inv, Wanted
<1>27. CASE h \notin Bad
  <2>1. r = e
    BY <1>1, <1>27
  <2> HIDE DEF r
  <2>2. DOMAIN e = Fields /\ Same(c, e, {"host", "session", "live", "link", "snapshot"})
    BY <1>15 DEF Same
  <2>3. e.host = h /\ e.session = c.session + 1 /\ e.live = TRUE /\ e.link = "login" /\ e.snapshot = FALSE
    BY <1>15 DEF Fields, Flags
  <2> HIDE DEF e
  <2>4. c.session \in Nat /\ c.queue \in Seq(Events)
    BY <1>17 DEF Sound
  <2>5. Sound(e)
    <3>1. e.host \in Hosts \cup {0} /\ e.session \in Nat /\ e.link \in Links
      BY <2>3, <2>4 DEF Links
    <3> QED
      BY <1>17, <2>2, <2>3, <3>1, SoundWith DEF Flags
  <2>6. /\ e.queue = c.queue /\ e.uiReady = c.uiReady /\ e.connected = c.connected
        /\ e.modelReady = c.modelReady /\ e.ready = c.ready /\ e.idents = c.idents
        /\ e.unsafe = c.unsafe /\ e.watchdog = c.watchdog
    BY <2>2 DEF Same, Fields, Flags
  <2>7. /\ e.complete = c.complete /\ e.generation = c.generation /\ e.wakeTimers = c.wakeTimers
        /\ e.bootstrapPending = c.bootstrapPending /\ e.reconnectTimer = c.reconnectTimer
        /\ e.syncAttempts = c.syncAttempts /\ e.retried = c.retried /\ e.wakes = c.wakes
        /\ e.syncTimers = c.syncTimers /\ e.reconnecting = c.reconnecting /\ e.wish = c.wish
        /\ e.pending = c.pending /\ e.userDisconnected = c.userDisconnected
    BY <2>2 DEF Same, Fields, Flags
  <2>8. Sorted(e)
    <3>1. Announced(c.queue, e.queue, FALSE)
      BY <2>4, <2>6, NoneAnnounced
    <3>2. e.session \in Nat /\ e.session > c.session
      BY <2>3, <2>4
    <3> QED
      BY <1>18, <3>1, <3>2, SortedKept DEF Quiet, Basic
  <2>9. \A i \in DOMAIN e.queue : ~Of(e.queue[i], e.session)
    <3>1. \A i \in DOMAIN c.queue : c.queue[i][1] # "ready" => c.queue[i][3] <= c.session
      BY <1>18 DEF Quiet, Basic, Sorted
    <3>2. \A i \in DOMAIN c.queue : c.queue[i][1] # "ready" => c.queue[i][3] # c.session + 1
      <4>1. \A i \in DOMAIN c.queue : c.queue[i][3] \in Nat
        BY <2>4, QueueDomain, ElementOfSeq, EventFields
      <4> QED
        BY <2>4, <3>1, <4>1
    <3> QED
      BY <2>3, <2>6, <3>2 DEF Of
  <2>10. Telling(e)
    BY <2>3, <2>9 DEF Telling
  <2>11. Linked(e)
    <3>1. e.host # 0
      BY <2>3 DEF LifecycleAssumption
    <3>2. e.watchdog = FALSE
      BY <1>17, <1>18, <2>6, QuietQueue DEF Sound, Flags
    <3> QED
      BY <1>16, <1>20, <1>21, <2>3, <2>7, <2>9, <3>1, <3>2 DEF Linked, NoneOf
  <2>12. Read(e)
    <3>1. Proven(e) = FALSE
      BY <1>16, <2>7 DEF Proven
    <3>2. Waking(e) => ~e.ready /\ \A i \in DOMAIN e.queue : e.queue[i][1] # "report"
      BY <1>24, <2>6, <2>7 DEF Waking
    <3>3. e.ready => e.idents = Identity /\ e.syncAttempts = 0
      BY <1>18, <1>22, <2>6, <2>7 DEF Quiet, Basic
    <3> QED
      BY <3>1, <3>2, <3>3 DEF Read
  <2>13. Panel(e)
    BY <1>18, <2>6, PanelKept DEF Quiet, Basic
  <2>14. Screened(e)
    BY <1>16, <2>7, <2>9 DEF Screened, Proven
  <2>15. Wanted(e)
    BY <1>19, <1>25, <1>26, <2>7 DEF Wanted, Retrying
  <2> QED
    BY <1>14, <1>18, <2>1, <2>5, <2>6, <2>8, <2>10, <2>11, <2>12, <2>13, <2>14, <2>15
       DEF Inv, Quiet, Basic, r
<1>28. CASE h \in Bad
  <2>1. DOMAIN d = Fields /\ Same(c, d, {"stage"})
    BY <1>15 DEF Same
  <2>2. r = onBackendError(d, "ConnectionFailed")
    BY <1>1, <1>28
  <2> HIDE DEF d, r
  <2>3. Sound(d)
    BY <1>17, <2>1, SoundWith DEF Flags
  <2>4. Quiet(d) /\ d.queue = c.queue
    BY <1>18, <2>1, <2>3, BasicKept DEF Quiet, Essence
  <2>5. Told(d, r, "ConnectionFailed")
    BY <2>2, <2>3, ErrorTold DEF Codes
  <2>6. Quiet(r) /\ Announced(d.queue, r.queue, FALSE) /\ Extends(d.queue, r.queue)
    BY <2>4, <2>5, ToldQuiet
  <2>7. /\ r.complete = c.complete /\ r.generation = c.generation /\ r.wakeTimers = c.wakeTimers
        /\ r.bootstrapPending = c.bootstrapPending
        /\ r.syncAttempts = c.syncAttempts /\ r.retried = c.retried /\ r.wakes = c.wakes
        /\ r.syncTimers = c.syncTimers /\ r.wish = c.wish
        /\ r.pending = c.pending /\ r.ready = c.ready
    BY <2>1, <2>5 DEF Told, Same, Fields, Flags, Window
  <2>8. ~r.userDisconnected
    <3>1. d.userDisconnected = a.userDisconnected
      BY <1>19, <2>1 DEF Same, Fields, Flags
    <3> QED
      BY <1>26, <2>5, <3>1 DEF Told
  <2>9. Wanted(r)
    BY <1>19, <1>20, <1>26, <2>6, <2>7, <2>8 DEF Wanted, Quiet
  <2>10. Waking(r) => ~r.ready /\ \A i \in DOMAIN r.queue : r.queue[i][1] # "report"
    <3> SUFFICES ASSUME Waking(r) PROVE ~r.ready /\ \A i \in DOMAIN r.queue : r.queue[i][1] # "report"
      OBVIOUS
    <3>1. ~c.ready /\ \A i \in DOMAIN c.queue : c.queue[i][1] # "report"
      BY <1>24, <2>7 DEF Waking
    <3> QED
      BY <2>4, <2>6, <2>7, <3>1 DEF Announced, Shows
  <2>11. Inv(r)
    BY <1>16, <1>20, <1>21, <1>22, <2>6, <2>7, <2>9, <2>10, QuietInv
  <2>12. Extends(a.queue, r.queue)
    BY <1>14, <1>18, <2>4, <2>6 DEF Extends
  <2> QED
    BY <2>11, <2>12 DEF r
<1> QED
  BY <1>27, <1>28

\* Nor does the rest of the invariant depend on what was asked.
LEMMA InvWanted ==
    ASSUME NEW a, NEW b, Inv(a), Sound(b), Wanted(b), b.reconnectTimer => a.reconnectTimer,
           Same(a, b, Aside \cup {"bootTimers", "credential", "wish", "pending",
                                  "userDisconnected", "reconnectTimer", "reconnecting",
                                  "syncTimers"})
    PROVE  Inv(b) /\ b.queue = a.queue
<1>1. /\ b.queue = a.queue /\ b.session = a.session /\ b.live = a.live /\ b.uiReady = a.uiReady
      /\ b.connected = a.connected /\ b.modelReady = a.modelReady /\ b.ready = a.ready
      /\ b.link = a.link /\ b.watchdog = a.watchdog /\ b.idents = a.idents
      /\ b.unsafe = a.unsafe
  BY DEF Same, Fields, Flags, Aside
<1>2. /\ b.complete = a.complete /\ b.generation = a.generation /\ b.wakeTimers = a.wakeTimers
      /\ b.bootstrapPending = a.bootstrapPending /\ b.host = a.host /\ b.reported = a.reported
      /\ b.syncAttempts = a.syncAttempts /\ b.retried = a.retried /\ b.wakes = a.wakes
  BY DEF Same, Fields, Flags, Aside
<1>3. Sorted(b) /\ Telling(b)
  BY <1>1, <1>2 DEF Inv, Sorted, Telling
<1>4. Linked(b)
  BY <1>1, <1>2 DEF Inv, Linked, Unproven, NoneOf
<1>5. Read(b) /\ Panel(b)
  <2>1. Read(b)
    BY <1>1, <1>2 DEF Inv, Read, Proven, Waking
  <2> QED
    BY <1>1, <2>1, PanelKept DEF Inv
<1>6. Screened(b)
  BY <1>1, <1>2, Zenon DEF Inv, Screened, Corrected, Proven
<1> QED
  BY <1>1, <1>3, <1>4, <1>5, <1>6, Zenon DEF Inv

\* A connection that the operator or the reconnect timer asks for.
LEMMA AskedConnectKeeps ==
    ASSUME LifecycleAssumption, NEW a, Inv(a), NEW b, Sound(b), NEW h \in Hosts,
           Same(a, b, {"wish", "syncs", "reconnectTimer"}), b.wish = "connect",
           b.reconnectTimer => a.reconnectTimer
    PROVE  LET r == onConnectToProfile(b, h) IN Inv(r) /\ Extends(a.queue, r.queue)
<1> DEFINE p == [b EXCEPT !.pending = h, !.userDisconnected = FALSE, !.stage = "Connecting"]
<1>1. onConnectToProfile(b, h) = connectToRadio(p, h)
  BY DEF onConnectToProfile
<1>2. /\ DOMAIN p = Fields /\ Same(b, p, {"pending", "userDisconnected", "stage"})
      /\ p.pending = h /\ p.userDisconnected = FALSE
  BY DEF Sound, Same, Fields, Flags
<1> HIDE DEF p
<1>3. Sound(p)
  BY <1>2, SoundWith DEF Flags
<1>4. Same(a, p, {"wish", "syncs", "reconnectTimer", "pending", "userDisconnected", "stage"})
  BY <1>2 DEF Same
<1>5. p.wish = "connect" /\ p.reconnectTimer = b.reconnectTimer
  BY <1>2 DEF Same, Fields, Flags
<1>6. Wanted(p)
  <2>1. /\ p.live = a.live /\ p.bootstrapPending = a.bootstrapPending /\ p.complete = a.complete
        /\ p.wakes = a.wakes /\ p.generation = a.generation /\ p.wakeTimers = a.wakeTimers
        /\ p.syncTimers = a.syncTimers
    BY <1>4 DEF Same, Fields, Flags
  <2> QED
    BY <1>2, <1>5, <2>1 DEF LifecycleAssumption, Inv, Wanted, Retrying
<1>7. Same(a, p, Aside \cup {"bootTimers", "credential", "wish", "pending", "userDisconnected",
                             "reconnectTimer", "reconnecting", "syncTimers"})
  BY <1>4 DEF Same, Aside
<1>8. Inv(p) /\ p.queue = a.queue
  BY <1>3, <1>5, <1>6, <1>7, InvWanted
<1> QED
  BY <1>1, <1>5, <1>8, ConnectKeeps

\* Inv of the state; the two states of a step keep the oldest event.
Kept == Inv(app)' /\ Extends(app.queue, app'.queue)

LEMMA OperatorConnectKeeps ==
    ASSUME LifecycleAssumption, Inv(app), NEW h \in Hosts, OperatorConnect(h) PROVE Kept
<1> DEFINE b == [app EXCEPT !.wish = "connect", !.syncs = 0]
<1>1. app' = onConnectToProfile(b, h)
  BY DEF OperatorConnect
<1>2. Sound(app)
  BY DEF Inv
<1>3. DOMAIN b = Fields /\ Same(app, b, {"wish", "syncs"}) /\ b.wish = "connect"
  BY <1>2 DEF Sound, Same, Fields
<1> HIDE DEF b
<1>4. Sound(b)
  BY <1>2, <1>3, SoundWith DEF Flags
<1>5. Same(app, b, {"wish", "syncs", "reconnectTimer"}) /\ b.reconnectTimer = app.reconnectTimer
  BY <1>3 DEF Same, Fields, Flags
<1> QED
  BY <1>1, <1>3, <1>4, <1>5, AskedConnectKeeps DEF Kept

LEMMA ReconnectTimerKeeps == ASSUME LifecycleAssumption, Inv(app), ReconnectTimer PROVE Kept
<1> DEFINE a == [app EXCEPT !.reconnectTimer = FALSE]
<1>1. app.reconnectTimer /\ app' = IF a.reconnecting THEN onConnectToProfile(a, a.pending) ELSE a
  BY DEF ReconnectTimer, Fires
<1>2. Sound(app)
  BY DEF Inv
<1>3. DOMAIN a = Fields /\ Same(app, a, {"reconnectTimer"}) /\ a.reconnectTimer = FALSE
  BY <1>2 DEF Sound, Same, Fields, Flags
<1> HIDE DEF a
<1>4. Sound(a)
  BY <1>2, <1>3, SoundWith DEF Flags
<1>5. /\ a.wish = app.wish /\ a.pending = app.pending /\ a.reconnecting = app.reconnecting
      /\ a.live = app.live /\ a.bootstrapPending = app.bootstrapPending
      /\ a.complete = app.complete /\ a.wakes = app.wakes /\ a.generation = app.generation
      /\ a.wakeTimers = app.wakeTimers /\ a.syncTimers = app.syncTimers
      /\ a.userDisconnected = app.userDisconnected /\ a.host = app.host
  BY <1>3 DEF Same, Fields, Flags
<1>6. CASE a.reconnecting
  <2>1. app.wish = "connect" /\ app.pending # 0
    BY <1>1, <1>5, <1>6 DEF Inv, Wanted
  <2>2. a.pending \in Hosts /\ a.wish = "connect"
    BY <1>2, <1>5, <2>1 DEF Sound
  <2>3. Same(app, a, {"wish", "syncs", "reconnectTimer"})
    BY <1>3 DEF Same
  <2> QED
    BY <1>1, <1>3, <1>4, <1>6, <2>2, <2>3, AskedConnectKeeps DEF Kept
<1>7. CASE ~a.reconnecting
  <2>1. Wanted(a)
    BY <1>3, <1>5, <1>7 DEF Inv, Wanted, Retrying
  <2>2. Same(app, a, Aside \cup {"bootTimers", "credential", "wish", "pending", "userDisconnected",
                                 "reconnectTimer", "reconnecting", "syncTimers"})
    BY <1>3 DEF Same, Aside
  <2>3. Inv(a) /\ a.queue = app.queue
    BY <1>3, <1>4, <2>1, <2>2, InvWanted
  <2> QED
    BY <1>1, <1>7, <2>3 DEF Kept, Extends
<1> QED
  BY <1>6, <1>7

LEMMA BootTimerKeeps == ASSUME LifecycleAssumption, Inv(app), BootTimer PROVE Kept
<1>1. PICK t \in app.bootTimers :
         app' = LET a == [app EXCEPT !.bootTimers = @ \ {t}]
                IN  IF t[1] = a.generation /\ a.bootstrapPending THEN connectToRadio(a, t[2]) ELSE a
  BY DEF BootTimer, Fires
<1> DEFINE a == [app EXCEPT !.bootTimers = @ \ {t}]
<1>2. app' = IF t[1] = a.generation /\ a.bootstrapPending THEN connectToRadio(a, t[2]) ELSE a
  BY <1>1
<1>3. Sound(app)
  BY DEF Inv
<1>4. DOMAIN a = Fields /\ Same(app, a, {"bootTimers"}) /\ a.bootTimers \subseteq app.bootTimers
  BY <1>3 DEF Sound, Same, Fields
<1> HIDE DEF a
<1>5. t[2] \in Hosts /\ app.bootTimers \subseteq Nat \X Hosts
  BY <1>3 DEF Sound
<1>6. Sound(a)
  BY <1>3, <1>4, <1>5, SoundWith DEF Flags
<1>7. Inv(a) /\ a.queue = app.queue
  <2>1. Same(app, a, Aside \cup {"bootTimers", "credential"})
    BY <1>4 DEF Same
  <2> QED
    BY <1>6, <2>1, InvKept
<1>8. a.bootstrapPending => a.wish = "connect"
  BY <1>7 DEF Inv, Wanted
<1> QED
  BY <1>2, <1>5, <1>7, <1>8, ConnectKeeps DEF Kept, Extends

LEMMA SyncTimerKeeps == ASSUME LifecycleAssumption, Inv(app), SyncTimer PROVE Kept
<1>1. PICK h \in app.syncTimers :
         app' = LET a == [app EXCEPT !.syncTimers = @ \ {h}]
                IN  IF a.host # h THEN [a EXCEPT !.syncPending = FALSE] ELSE connectToRadio(a, h)
  BY DEF SyncTimer, Fires
<1> DEFINE a == [app EXCEPT !.syncTimers = @ \ {h}]
           b == [a EXCEPT !.syncPending = FALSE]
<1>2. app' = IF a.host # h THEN b ELSE connectToRadio(a, h)
  BY <1>1
<1>3. Sound(app)
  BY DEF Inv
<1>4. DOMAIN a = Fields /\ Same(app, a, {"syncTimers"}) /\ a.syncTimers = app.syncTimers \ {h}
  BY <1>3 DEF Sound, Same, Fields
<1> HIDE DEF a
<1>5. h \in Hosts /\ app.syncTimers \subseteq Hosts
  BY <1>3 DEF Sound
<1>6. Sound(a)
  BY <1>3, <1>4, <1>5, SoundWith DEF Flags
<1>7. /\ a.wish = app.wish /\ a.pending = app.pending /\ a.reconnecting = app.reconnecting
      /\ a.live = app.live /\ a.bootstrapPending = app.bootstrapPending
      /\ a.complete = app.complete /\ a.wakes = app.wakes /\ a.generation = app.generation
      /\ a.wakeTimers = app.wakeTimers /\ a.reconnectTimer = app.reconnectTimer
      /\ a.userDisconnected = app.userDisconnected /\ a.host = app.host
  BY <1>4 DEF Same, Fields, Flags
<1>8. Wanted(a)
  BY <1>4, <1>7 DEF Inv, Wanted, Retrying
<1>9. Inv(a) /\ a.queue = app.queue
  <2>1. Same(app, a, Aside \cup {"bootTimers", "credential", "wish", "pending", "userDisconnected",
                                 "reconnectTimer", "reconnecting", "syncTimers"})
    BY <1>4 DEF Same
  <2> QED
    BY <1>6, <1>7, <1>8, <2>1, InvWanted
<1>10. CASE a.host # h
  <2>1. app' = b
    BY <1>2, <1>10
  <2>2. DOMAIN b = Fields /\ Same(a, b, {"syncPending"}) /\ b.syncPending = FALSE
    BY <1>4 DEF Same, Fields, Flags
  <2> HIDE DEF b
  <2>3. Sound(b)
    BY <1>6, <2>2, SoundWith DEF Flags
  <2>4. Same(a, b, Aside \cup {"bootTimers", "credential"})
    BY <2>2 DEF Same, Aside
  <2>5. Inv(b) /\ b.queue = a.queue
    BY <1>9, <2>3, <2>4, InvKept
  <2> QED
    BY <1>9, <2>1, <2>5 DEF Kept, Extends
<1>11. CASE a.host = h
  <2>1. a.wish = "connect"
    BY <1>7, <1>11 DEF Inv, Wanted
  <2> QED
    BY <1>2, <1>5, <1>9, <1>11, <2>1, ConnectKeeps DEF Kept
<1> QED
  BY <1>10, <1>11

\* A session that ends, and of whose end the window hears.
LEMMA ShutdownTells ==
    ASSUME NEW a, Basic(a), NEW s \in BOOLEAN, a.complete => s, a.live
    PROVE  LET b == shutdownConnection(a, TRUE, s)
           IN  /\ Quiet(b) /\ Announced(a.queue, b.queue, FALSE) /\ Extends(a.queue, b.queue)
               /\ Same(a, b, Closing \cup Window) /\ ~b.ready /\ ~b.connected
               /\ IF Pursues(a)
                  THEN b.reconnecting /\ b.reconnectTimer /\ b.userDisconnected = a.userDisconnected
                  ELSE ~b.reconnecting /\ ~b.userDisconnected /\ b.reconnectTimer = a.reconnectTimer
<1> DEFINE c == shutdownConnection(a, FALSE, s)
           b == shutdownConnection(a, TRUE, s)
<1>1. b = onBackendDisconnected(c)
  BY Zenon DEF shutdownConnection
<1>2. /\ Quiet(c) /\ Announced(a.queue, c.queue, FALSE) /\ Extends(a.queue, c.queue)
      /\ Same(a, c, Closing) /\ ~c.ready
  BY ShutdownEnds
<1> HIDE DEF b, c
<1>3. Gone(c, b)
  BY <1>1, <1>2, DisconnectedGone DEF Quiet, Basic
<1>4. Quiet(b) /\ Announced(c.queue, b.queue, FALSE) /\ Extends(c.queue, b.queue)
  BY <1>2, <1>3, GoneQuiet
<1>5. Announced(a.queue, b.queue, FALSE) /\ Extends(a.queue, b.queue)
  <2>1. a.queue \in Seq(Events)
    BY DEF Basic, Sound
  <2> QED
    BY <1>2, <1>4, <2>1, AnnouncedTwice DEF Extends
<1>6. Same(a, b, Closing \cup Window)
  BY <1>2, <1>3 DEF Gone, Same
<1>7. ~b.ready
  BY <1>2, <1>3 DEF Gone, Same, Fields, Flags, Window
<1>8. /\ c.uiReady = a.uiReady /\ c.userDisconnected = a.userDisconnected
      /\ c.credential = a.credential /\ c.pending = a.pending
      /\ c.reconnectTimer = a.reconnectTimer
  BY <1>2 DEF Same, Fields, Flags, Closing, Aside
<1> QED
  BY <1>3, <1>4, <1>5, <1>6, <1>7, <1>8 DEF Gone, Pursues, b

LEMMA OperatorDisconnectKeeps ==
    ASSUME LifecycleAssumption, Inv(app), OperatorDisconnect PROVE Kept
<1> DEFINE b == [app EXCEPT !.userDisconnected = TRUE, !.reconnecting = FALSE,
                       !.reconnectTimer = FALSE, !.generation = @ + 1,
                       !.bootstrapPending = FALSE, !.retried = FALSE, !.wakes = 0,
                       !.watchdog = FALSE]
           c == shutdownConnection(b, TRUE, app.complete)
           d == [c EXCEPT !.complete = FALSE, !.host = 0,
                          !.stage = IF app.live THEN "Disconnected" ELSE "Disconnecting"]
           r == [d EXCEPT !.wish = "stopped"]
           G == {"userDisconnected", "reconnecting", "reconnectTimer", "generation",
                 "bootstrapPending", "retried", "wakes", "watchdog"}
           Out == {"complete", "host", "stage", "wish"}
<1>1. app' = r
  BY DEF OperatorDisconnect, disconnectFromRadio
<1>2. Sound(app) /\ Basic(app)
  BY InvBasic DEF Inv
<1>3. DOMAIN b = Fields /\ Same(app, b, G)
  BY <1>2 DEF Sound, Same, Fields
<1>4. /\ b.userDisconnected = TRUE /\ b.reconnecting = FALSE /\ b.reconnectTimer = FALSE
      /\ b.generation = app.generation + 1 /\ b.bootstrapPending = FALSE
      /\ b.retried = FALSE /\ b.wakes = 0 /\ b.watchdog = FALSE
  BY <1>2 DEF Sound, Fields, Flags
<1> HIDE DEF b
<1>5. /\ app.generation \in Nat /\ app.wakeTimers \subseteq 0 .. app.generation
      /\ app.complete \in BOOLEAN /\ app.live \in BOOLEAN /\ app.queue \in Seq(Events)
  BY <1>2 DEF Sound, Flags
<1>6. b.wakeTimers \subseteq 0 .. b.generation /\ b.generation \in Nat
  <2>1. b.wakeTimers = app.wakeTimers
    BY <1>3 DEF Same, Fields
  <2> QED
    BY <1>4, <1>5, <2>1
<1>7. Sound(b)
  <2>1. b.wakes \in 0 .. kMaxWakeAttempts
    BY <1>4 DEF kMaxWakeAttempts
  <2> QED
    BY <1>2, <1>3, <1>4, <1>6, <2>1, SoundWith DEF Flags
<1>8. /\ b.live = app.live /\ b.queue = app.queue /\ b.complete = app.complete
      /\ b.wakeTimers = app.wakeTimers /\ b.link = app.link /\ b.ready = app.ready
      /\ b.syncAttempts = app.syncAttempts
  BY <1>3 DEF Same, Fields, Flags
<1>9. Basic(b)
  <2>1. /\ b.session = app.session /\ b.idents = app.idents /\ b.unsafe = app.unsafe
        /\ b.uiReady = app.uiReady /\ b.connected = app.connected
        /\ b.modelReady = app.modelReady
    BY <1>3 DEF Same, Fields, Flags
  <2>2. Sorted(b)
    BY <1>2, <1>8, <2>1 DEF Basic, Sorted
  <2>3. Panel(b)
    BY <1>2, <1>8, <2>1, PanelKept DEF Basic
  <2> QED
    BY <1>2, <1>4, <1>7, <1>8, <2>1, <2>2, <2>3 DEF Basic
<1>10. /\ Quiet(c) /\ Extends(app.queue, c.queue) /\ Same(b, c, Closing \cup Window)
       /\ ~c.reconnecting /\ ~c.reconnectTimer /\ (c.ready => app.ready)
  <2>1. CASE app.live
    <3>1. ~Pursues(b)
      BY <1>4 DEF Pursues
    <3> QED
      BY <1>4, <1>5, <1>8, <1>9, <2>1, <3>1, ShutdownTells
  <2>2. CASE ~app.live
    <3>1. c = b
      BY <1>8, <2>2 DEF shutdownConnection
    <3>2. Same(b, b, Closing \cup Window)
      BY <1>7 DEF Same, Sound
    <3> HIDE DEF c
    <3> QED
      BY <1>4, <1>8, <1>9, <2>2, <3>1, <3>2 DEF Quiet, Extends
  <2> QED
    BY <2>1, <2>2
<1> HIDE DEF c
<1>11. DOMAIN r = Fields /\ Same(c, r, Out)
  BY <1>10 DEF Quiet, Basic, Sound, Same, Fields
<1>12. r.complete = FALSE /\ r.host = 0 /\ r.wish = "stopped"
  BY <1>10 DEF Quiet, Basic, Sound, Fields, Flags
<1> HIDE DEF r
<1>13. Sound(r)
  BY <1>10, <1>11, <1>12, SoundWith DEF Quiet, Basic, Flags
<1>14. Quiet(r) /\ r.queue = c.queue
  BY <1>10, <1>11, <1>13, BasicKept DEF Quiet, Essence
<1>15. /\ r.bootstrapPending = b.bootstrapPending /\ r.retried = b.retried /\ r.wakes = b.wakes
       /\ r.generation = b.generation /\ r.wakeTimers = b.wakeTimers
       /\ r.syncAttempts = b.syncAttempts /\ r.syncTimers = b.syncTimers
  BY <1>10, <1>11 DEF Same, Fields, Flags, Closing, Aside, Window
<1>16. r.reconnecting = c.reconnecting /\ r.reconnectTimer = c.reconnectTimer /\ r.ready = c.ready
  BY <1>11 DEF Same, Fields, Flags
<1>17. r.generation \notin r.wakeTimers
  BY <1>4, <1>5, <1>8, <1>15
<1>18. r.ready => r.syncAttempts = 0
  BY <1>8, <1>10, <1>15, <1>16 DEF Inv, Read
<1>19. ~Waking(r)
  BY <1>4, <1>15 DEF Waking
<1>20. Wanted(r)
  <2>1. 0 \notin r.syncTimers
    BY <1>13 DEF Sound, LifecycleAssumption
  <2> QED
    BY <1>4, <1>10, <1>12, <1>14, <1>15, <1>16, <2>1 DEF Wanted, Quiet
<1>21. Inv(r)
  BY <1>4, <1>14, <1>15, <1>17, <1>18, <1>19, <1>20, QuietInv
<1> QED
  BY <1>1, <1>10, <1>14, <1>21 DEF Kept

-----------------------------------------------------------------------------
(* The timers of a session.                                                *)

LEMMA InitialDelayKeeps == ASSUME Inv(app), InitialDelay PROVE Kept
<1> DEFINE a == [app EXCEPT !.delay = FALSE]
           b == requestInitialRadioState(a)
           c == [b EXCEPT !.retry = ~b.ready]
<1>1. app' = c
  BY DEF InitialDelay, Fires
<1>2. Sound(app)
  BY DEF Inv
<1>3. DOMAIN a = Fields /\ Same(app, a, {"delay"}) /\ a.delay = FALSE
  BY <1>2 DEF Sound, Same, Fields, Flags
<1> HIDE DEF a
<1>4. Sound(a)
  BY <1>2, <1>3, SoundWith DEF Flags
<1>5. Sound(b) /\ Same(a, b, {"requested", "asked"})
  <2>1. CASE b = a
    BY <1>3, <1>4, <2>1 DEF Same
  <2>2. CASE b # a
    <3>1. b = [a EXCEPT !.requested = TRUE, !.asked = @ \cup MainIdentity]
      BY <2>2 DEF requestInitialRadioState
    <3> HIDE DEF b
    <3>2. DOMAIN b = Fields /\ Same(a, b, {"requested", "asked"})
      BY <1>3, <3>1 DEF Same
    <3>3. b.requested = TRUE /\ b.asked \subseteq Identity
      BY <1>3, <1>4, <3>1 DEF Fields, Flags, Sound, Identity
    <3> QED
      BY <1>4, <3>2, <3>3, SoundWith DEF Flags
  <2> QED
    BY <2>1, <2>2
<1> HIDE DEF b
<1>6. DOMAIN c = Fields /\ Same(b, c, {"retry"}) /\ c.retry \in BOOLEAN
  BY <1>5 DEF Sound, Same, Fields, Flags
<1> HIDE DEF c
<1>7. Sound(c)
  BY <1>5, <1>6, SoundWith DEF Flags
<1>8. Same(app, c, Aside \cup {"bootTimers", "credential"})
  BY <1>3, <1>5, <1>6 DEF Same, Aside
<1> QED
  BY <1>1, <1>7, <1>8, InvKept DEF Kept, Extends

LEMMA RetryTimerKeeps == ASSUME Inv(app), RetryTimer PROVE Kept
<1>1. Sound(app)
  BY DEF Inv
<1>2. \/ app' = app
      \/ app' = [app EXCEPT !.retry = FALSE]
      \/ app' = [app EXCEPT !.requested = TRUE, !.asked = @ \cup MainIdentity]
  BY DEF RetryTimer, Fires, requestInitialRadioState
<1> DEFINE b == app'
<1>3. DOMAIN b = Fields /\ Same(app, b, {"retry", "requested", "asked"})
  BY <1>1, <1>2 DEF Sound, Same
<1>4. b.retry \in BOOLEAN /\ b.requested \in BOOLEAN /\ b.asked \subseteq Identity
  <2>1. b.asked \in {app.asked, app.asked \cup MainIdentity}
    BY <1>1, <1>2 DEF Sound, Fields, Flags
  <2>2. b.retry \in {app.retry, FALSE} /\ b.requested \in {app.requested, TRUE}
    BY <1>1, <1>2 DEF Sound, Fields, Flags
  <2> QED
    BY <1>1, <2>1, <2>2 DEF Sound, Flags, Identity
<1> HIDE DEF b
<1>5. Sound(b)
  BY <1>1, <1>3, <1>4, SoundWith DEF Flags
<1>6. Same(app, b, Aside \cup {"bootTimers", "credential"})
  BY <1>3 DEF Same, Aside
<1>7. Inv(b) /\ b.queue = app.queue
  BY <1>5, <1>6, InvKept
<1> QED
  BY <1>7 DEF Kept, Extends, b

LEMMA SnapshotDelayKeeps == ASSUME Inv(app), SnapshotDelay PROVE Kept
<1> DEFINE more == app.live /\ MainIdentity \subseteq app.idents
           b == [app EXCEPT !.snapshot = FALSE,
                            !.asked = IF more THEN @ \cup SubIdentity ELSE @]
<1>1. Sound(app)
  BY DEF Inv
<1>2. app' = b
  BY DEF SnapshotDelay, Fires
<1> HIDE DEF more
<1>3. DOMAIN b = Fields /\ Same(app, b, {"snapshot", "asked"}) /\ b.snapshot = FALSE
  BY <1>1 DEF Sound, Same, Fields, Flags
<1>4. b.asked \subseteq Identity
  BY <1>1 DEF Sound, Fields, Flags, Identity
<1> HIDE DEF b
<1>5. Sound(b)
  BY <1>1, <1>3, <1>4, SoundWith DEF Flags
<1>6. Same(app, b, Aside \cup {"bootTimers", "credential"})
  BY <1>3 DEF Same, Aside
<1> QED
  BY <1>2, <1>5, <1>6, InvKept DEF Kept, Extends

LEMMA WatchdogTimerKeeps == ASSUME LifecycleAssumption, Inv(app), WatchdogTimer PROVE Kept
<1> DEFINE a == [app EXCEPT !.watchdog = FALSE]
           stop == shutdownConnection(a, TRUE, TRUE)
           stopped == [stop EXCEPT !.stage = "Failed", !.wish = "stopped"]
           a1 == [a EXCEPT !.syncAttempts = @ + 1]
           retry == shutdownConnection(a1, TRUE, TRUE)
           retried == [retry EXCEPT !.stage = "Reconnecting", !.syncPending = TRUE,
                                    !.syncTimers = @ \cup {a1.host},
                                    !.syncs = IF @ < 2 THEN @ + 1 ELSE @]
<1>1. app.watchdog /\ app.syncTimers = {} /\ app' = restartAfterSyncTimeout(a)
  BY DEF WatchdogTimer, Fires
<1>2. Sound(app) /\ Basic(app)
  BY InvBasic DEF Inv
<1>3. DOMAIN a = Fields /\ Same(app, a, {"watchdog"}) /\ a.watchdog = FALSE
  BY <1>2 DEF Sound, Same, Fields, Flags
<1>4. app' = IF ~a.live \/ a.ready \/ a.host = 0 THEN a
             ELSE IF a.syncAttempts >= kMaxSyncReconnectAttempts THEN stopped ELSE retried
  <2>1. a1.host = a.host
    BY <1>3 DEF Fields
  <2> QED
    BY <1>1, <2>1 DEF restartAfterSyncTimeout
<1> HIDE DEF a
<1>5. Sound(a)
  BY <1>2, <1>3, SoundWith DEF Flags
<1>6. /\ a.queue = app.queue /\ a.session = app.session /\ a.live = app.live
      /\ a.uiReady = app.uiReady /\ a.connected = app.connected
      /\ a.modelReady = app.modelReady /\ a.ready = app.ready
      /\ a.link = app.link /\ a.idents = app.idents /\ a.unsafe = app.unsafe
  BY <1>3 DEF Same, Fields, Flags
<1>7. /\ a.complete = app.complete /\ a.generation = app.generation
      /\ a.wakeTimers = app.wakeTimers /\ a.host = app.host /\ a.reported = app.reported
      /\ a.bootstrapPending = app.bootstrapPending /\ a.reconnectTimer = app.reconnectTimer
      /\ a.syncAttempts = app.syncAttempts /\ a.retried = app.retried /\ a.wakes = app.wakes
      /\ a.syncTimers = app.syncTimers /\ a.reconnecting = app.reconnecting
      /\ a.wish = app.wish /\ a.pending = app.pending
      /\ a.userDisconnected = app.userDisconnected
  BY <1>3 DEF Same, Fields, Flags
<1>8. Inv(a)
  <2>1. Sorted(a) /\ Telling(a)
    BY <1>6, <1>7 DEF Inv, Sorted, Telling
  <2>2. Linked(a)
    BY <1>3, <1>6, <1>7 DEF Inv, Linked, Unproven, NoneOf
  <2>3. Read(a) /\ Panel(a)
    <3>1. Read(a)
      BY <1>6, <1>7 DEF Inv, Read, Proven, Waking
    <3> QED
      BY <1>6, <3>1, PanelKept DEF Inv
  <2>4. Screened(a)
    BY <1>6, <1>7, Zenon DEF Inv, Screened, Corrected, Proven
  <2>5. Wanted(a)
    BY <1>6, <1>7, Zenon DEF Inv, Wanted, Retrying
  <2> QED
    BY <1>5, <1>6, <2>1, <2>2, <2>3, <2>4, <2>5, Zenon DEF Inv
<1>9. Basic(a)
  BY <1>8, InvBasic
<1>10. Proven(a)
  BY <1>1, <1>6, <1>7 DEF Inv, Linked, Proven
<1>11. /\ a.generation \notin a.wakeTimers /\ ~a.bootstrapPending
       /\ a.wish = "connect" /\ ~a.userDisconnected /\ a.pending # 0
  BY <1>8, <1>10 DEF Inv, Linked, Wanted, Unproven, Proven
<1>12. CASE ~a.live \/ a.ready \/ a.host = 0
  BY <1>4, <1>6, <1>8, <1>12 DEF Kept, Extends
<1>13. CASE ~(~a.live \/ a.ready \/ a.host = 0) /\ a.syncAttempts >= kMaxSyncReconnectAttempts
  <2>1. app' = stopped
    BY <1>4, <1>13
  <2>2. ~Pursues(a)
    <3>1. a.syncAttempts # 0
      BY <1>5, <1>13 DEF Sound, kMaxSyncReconnectAttempts
    <3> QED
      BY <1>8, <1>10, <1>13, <3>1 DEF Inv, Screened, Pursues
  <2>3. /\ Quiet(stop) /\ Extends(a.queue, stop.queue) /\ Same(a, stop, Closing \cup Window)
        /\ ~stop.ready /\ ~stop.reconnecting
    BY <1>9, <1>13, <2>2, ShutdownTells
  <2> HIDE DEF stop
  <2>4. /\ DOMAIN stopped = Fields /\ Same(stop, stopped, {"stage", "wish"})
        /\ stopped.wish = "stopped"
    BY <2>3 DEF Quiet, Basic, Sound, Same, Fields
  <2> HIDE DEF stopped
  <2>5. Sound(stopped)
    BY <2>3, <2>4, SoundWith DEF Quiet, Basic, Flags
  <2>6. Quiet(stopped) /\ stopped.queue = stop.queue
    BY <2>3, <2>4, <2>5, BasicKept DEF Quiet, Essence
  <2>7. /\ stopped.bootstrapPending = a.bootstrapPending /\ stopped.complete = a.complete
        /\ stopped.generation = a.generation /\ stopped.wakeTimers = a.wakeTimers
        /\ stopped.syncTimers = a.syncTimers
    BY <2>3, <2>4 DEF Same, Fields, Flags, Closing, Aside, Window
  <2>8. stopped.ready = stop.ready /\ stopped.reconnecting = stop.reconnecting
    BY <2>4 DEF Same, Fields, Flags
  <2>9. Wanted(stopped)
    BY <1>1, <1>7, <1>11, <2>3, <2>4, <2>6, <2>7, <2>8 DEF Wanted, Quiet
  <2>10. Inv(stopped)
    BY <1>10, <1>11, <2>3, <2>6, <2>7, <2>8, <2>9, QuietInv DEF Waking, Proven
  <2> QED
    BY <1>6, <2>1, <2>3, <2>6, <2>10 DEF Kept
<1>14. CASE ~(~a.live \/ a.ready \/ a.host = 0) /\ ~(a.syncAttempts >= kMaxSyncReconnectAttempts)
  <2>1. app' = retried
    BY <1>4, <1>14
  <2>2. DOMAIN a1 = Fields /\ Same(a, a1, {"syncAttempts"}) /\ a1.syncAttempts = a.syncAttempts + 1
    BY <1>3 DEF Same, Fields
  <2> HIDE DEF a1
  <2>3. Sound(a1)
    <3>1. a1.syncAttempts \in 0 .. kMaxSyncReconnectAttempts
      BY <1>5, <1>14, <2>2 DEF Sound, kMaxSyncReconnectAttempts
    <3> QED
      BY <1>5, <2>2, <3>1, SoundWith DEF Flags
  <2>4. Basic(a1) /\ a1.live = a.live /\ a1.queue = a.queue
    BY <1>9, <2>2, <2>3, BasicKept DEF Essence
  <2>5. /\ Quiet(retry) /\ Extends(a1.queue, retry.queue) /\ Same(a1, retry, Closing \cup Window)
        /\ ~retry.ready /\ (retry.userDisconnected => a1.userDisconnected)
    BY <1>14, <2>4, ShutdownTells
  <2> HIDE DEF retry
  <2>6. /\ DOMAIN retried = Fields
        /\ Same(retry, retried, {"stage", "syncPending", "syncTimers", "syncs"})
        /\ retried.syncPending = TRUE /\ retried.syncTimers = retry.syncTimers \cup {a1.host}
    BY <2>5 DEF Quiet, Basic, Sound, Same, Fields, Flags
  <2> HIDE DEF retried
  <2>7. Sound(retried)
    <3>1. a1.host \in Hosts
      BY <1>14, <2>2, <2>3 DEF Sound, Same, Fields
    <3>2. retried.syncTimers \subseteq Hosts
      BY <2>5, <2>6, <3>1 DEF Quiet, Basic, Sound
    <3> QED
      BY <2>5, <2>6, <3>2, SoundWith DEF Quiet, Basic, Flags
  <2>8. Quiet(retried) /\ retried.queue = retry.queue
    BY <2>5, <2>6, <2>7, BasicKept DEF Quiet, Essence
  <2>9. /\ retried.bootstrapPending = a.bootstrapPending /\ retried.complete = a.complete
        /\ retried.generation = a.generation /\ retried.wakeTimers = a.wakeTimers
        /\ retried.wish = a.wish /\ retried.pending = a.pending
    BY <2>2, <2>5, <2>6 DEF Same, Fields, Flags, Closing, Aside, Window
  <2>10. retried.ready = retry.ready /\ retried.userDisconnected = retry.userDisconnected
         /\ a1.userDisconnected = a.userDisconnected
    BY <2>2, <2>6 DEF Same, Fields, Flags
  <2>11. Wanted(retried)
    BY <1>11, <2>5, <2>8, <2>9, <2>10 DEF Wanted, Quiet
  <2>12. Inv(retried)
    BY <1>10, <1>11, <2>5, <2>8, <2>9, <2>10, <2>11, QuietInv DEF Waking, Proven
  <2> QED
    BY <1>6, <2>1, <2>4, <2>5, <2>8, <2>12 DEF Kept
<1> QED
  BY <1>12, <1>13, <1>14

\* The session is closed and will be replaced.
LEMMA BootstrapKeeps ==
    ASSUME NEW a, Basic(a), a.live, a.host # 0, ~a.complete,
           Waking(a) => \A i \in DOMAIN a.queue : a.queue[i][1] # "report",
           a.wish = "connect", ~a.userDisconnected, a.pending # 0,
           a.generation \notin a.wakeTimers,
           Retrying(a) => ~a.reconnectTimer /\ a.syncTimers = {}
    PROVE  LET r == reconnectBootstrapSession(a) IN Inv(r) /\ Extends(a.queue, r.queue)
<1> DEFINE b == shutdownConnection(a, FALSE, FALSE)
           r == [b EXCEPT !.bootstrapPending = TRUE,
                          !.bootTimers = @ \cup {<<a.generation, a.host>>}]
<1>1. reconnectBootstrapSession(a) = r
  BY DEF reconnectBootstrapSession
<1>2. /\ Quiet(b) /\ Announced(a.queue, b.queue, FALSE) /\ Extends(a.queue, b.queue)
      /\ Same(a, b, Closing) /\ ~b.ready
  BY ShutdownEnds
<1> HIDE DEF b
<1>3. /\ DOMAIN r = Fields /\ Same(b, r, {"bootstrapPending", "bootTimers"})
      /\ r.bootstrapPending = TRUE /\ r.bootTimers = b.bootTimers \cup {<<a.generation, a.host>>}
  BY <1>2 DEF Quiet, Basic, Sound, Same, Fields, Flags
<1> HIDE DEF r
<1>4. Sound(r)
  <2>1. a.generation \in Nat /\ a.host \in Hosts
    BY DEF Basic, Sound
  <2>2. r.bootTimers \subseteq Nat \X Hosts
    BY <1>2, <1>3, <2>1 DEF Quiet, Basic, Sound
  <2> QED
    BY <1>2, <1>3, <2>2, SoundWith DEF Quiet, Basic, Flags
<1>5. Quiet(r) /\ r.queue = b.queue
  BY <1>2, <1>3, <1>4, BasicKept DEF Quiet, Essence
<1>6. /\ r.complete = a.complete /\ r.generation = a.generation /\ r.wakeTimers = a.wakeTimers
      /\ r.syncTimers = a.syncTimers /\ r.wish = a.wish /\ r.pending = a.pending
      /\ r.userDisconnected = a.userDisconnected /\ r.reconnectTimer = a.reconnectTimer
      /\ r.wakes = a.wakes /\ r.retried = a.retried
  BY <1>2, <1>3 DEF Same, Fields, Flags, Closing, Aside
<1>7. r.ready = b.ready
  BY <1>3 DEF Same, Fields, Flags
<1>8. Wanted(r)
  BY <1>6 DEF Wanted, Retrying
<1>9. Waking(r) => \A i \in DOMAIN r.queue : r.queue[i][1] # "report"
  BY <1>2, <1>5, <1>6 DEF Waking, Announced, Shows
<1>10. Inv(r)
  BY <1>2, <1>5, <1>6, <1>7, <1>8, <1>9, QuietInv
<1> QED
  BY <1>1, <1>2, <1>5, <1>10

LEMMA WakeTimerKeeps == ASSUME LifecycleAssumption, Inv(app), WakeTimer PROVE Kept
<1>1. PICK g \in app.wakeTimers :
         /\ app.syncTimers = {} /\ ~app.reconnectTimer
         /\ app' = LET a == [app EXCEPT !.wakeTimers = @ \ {g}]
                   IN  IF g = a.generation THEN reconnectBootstrapSession(a) ELSE a
  BY DEF WakeTimer, Fires
<1> DEFINE a == [app EXCEPT !.wakeTimers = @ \ {g}]
<1>2. app' = IF g = a.generation THEN reconnectBootstrapSession(a) ELSE a
  BY <1>1
<1>3. Sound(app) /\ Basic(app)
  BY InvBasic DEF Inv
<1>4. DOMAIN a = Fields /\ Same(app, a, {"wakeTimers"}) /\ a.wakeTimers = app.wakeTimers \ {g}
  BY <1>3 DEF Sound, Same, Fields
<1> HIDE DEF a
<1>5. Sound(a)
  <2>1. a.wakeTimers \subseteq 0 .. a.generation
    BY <1>3, <1>4 DEF Sound, Same, Fields
  <2> QED
    BY <1>3, <1>4, <2>1, SoundWith DEF Flags
<1>6. Basic(a) /\ a.live = app.live /\ a.queue = app.queue
  BY <1>3, <1>4, <1>5, BasicKept DEF Essence
<1>7. /\ a.complete = app.complete /\ a.generation = app.generation
      /\ a.host = app.host /\ a.reported = app.reported
      /\ a.bootstrapPending = app.bootstrapPending /\ a.reconnectTimer = app.reconnectTimer
      /\ a.syncAttempts = app.syncAttempts /\ a.retried = app.retried /\ a.wakes = app.wakes
      /\ a.syncTimers = app.syncTimers /\ a.reconnecting = app.reconnecting
      /\ a.wish = app.wish /\ a.pending = app.pending
      /\ a.userDisconnected = app.userDisconnected
  BY <1>4 DEF Same, Fields, Flags
<1>8. CASE g = a.generation
  <2>1. Unproven(app) /\ app.live
    BY <1>1, <1>7, <1>8 DEF Inv, Linked
  <2>2. a.host # 0 /\ a.wish = "connect" /\ ~a.userDisconnected /\ a.pending # 0
    BY <1>7, <2>1 DEF Inv, Linked, Wanted
  <2>3. Waking(a) => \A i \in DOMAIN a.queue : a.queue[i][1] # "report"
    BY <1>6, <1>7, <2>1 DEF Waking, Inv, Read, Unproven
  <2>4. a.generation \notin a.wakeTimers
    BY <1>4, <1>8
  <2>5. Retrying(a) => ~a.reconnectTimer /\ a.syncTimers = {}
    BY <1>1, <1>7
  <2>6. app' = reconnectBootstrapSession(a) /\ a.live /\ ~a.complete
    BY <1>2, <1>6, <1>7, <1>8, <2>1 DEF Unproven
  <2> HIDE DEF Inv
  <2> QED
    BY <1>6, <2>2, <2>3, <2>4, <2>5, <2>6, BootstrapKeeps DEF Kept
<1>9. CASE g # a.generation
  <2>1. /\ a.session = app.session /\ a.uiReady = app.uiReady /\ a.connected = app.connected
        /\ a.modelReady = app.modelReady /\ a.ready = app.ready
        /\ a.link = app.link /\ a.idents = app.idents /\ a.unsafe = app.unsafe
        /\ a.watchdog = app.watchdog
    BY <1>4 DEF Same, Fields, Flags
  <2>2. a.generation \in a.wakeTimers <=> app.generation \in app.wakeTimers
    BY <1>4, <1>7, <1>9
  <2>3. Sorted(a) /\ Telling(a)
    BY <1>6, <1>7, <2>1 DEF Inv, Sorted, Telling
  <2>4. Linked(a)
    BY <1>6, <1>7, <2>1, <2>2 DEF Inv, Linked, Unproven, NoneOf
  <2>5. Read(a) /\ Panel(a)
    BY <1>6, <1>7, <2>1 DEF Inv, Read, Panel, Proven, Waking
  <2>6. Screened(a)
    BY <1>6, <1>7, <2>1, Zenon DEF Inv, Screened, Corrected, Proven
  <2>7. Wanted(a)
    BY <1>6, <1>7, <2>2 DEF Inv, Wanted, Retrying
  <2>8. Inv(a)
    BY <1>5, <2>1, <2>3, <2>4, <2>5, <2>6, <2>7, Zenon DEF Inv
  <2> QED
    BY <1>2, <1>6, <1>9, <2>8 DEF Kept, Extends
<1> QED
  BY <1>8, <1>9

-----------------------------------------------------------------------------
(* One event is taken from the queue.                                      *)

Pop(a) == [a EXCEPT !.queue = Tail(@)]

LEMMA PopRecord ==
    ASSUME NEW a, Sound(a), a.queue # <<>>
    PROVE  LET p == Pop(a)
           IN  /\ Sound(p) /\ Same(a, p, {"queue"})
               /\ 1 \in DOMAIN a.queue /\ Head(a.queue) = a.queue[1] /\ a.queue[1] \in Events
               /\ \A i \in DOMAIN p.queue :
                     /\ i \in Nat \ {0} /\ i + 1 \in DOMAIN a.queue
                     /\ p.queue[i] = a.queue[i + 1]
               /\ \A i \in DOMAIN a.queue :
                     i \in Nat \ {0} /\ (i = 1 \/ (i > 1 /\ i - 1 \in DOMAIN p.queue))
<1> DEFINE p == Pop(a)
<1>1. DOMAIN p = Fields /\ Same(a, p, {"queue"}) /\ p.queue = Tail(a.queue)
  BY DEF Sound, Same, Fields, Pop
<1> HIDE DEF p
<1>2. a.queue \in Seq(Events)
  BY DEF Sound
<1>3. /\ p.queue \in Seq(Events) /\ Len(a.queue) \in Nat \ {0} /\ Head(a.queue) = a.queue[1]
      /\ a.queue[1] \in Events /\ DOMAIN a.queue = 1 .. Len(a.queue)
      /\ DOMAIN p.queue = 1 .. Len(a.queue) - 1
      /\ \A i \in 1 .. Len(a.queue) - 1 : p.queue[i] = a.queue[i + 1]
  BY <1>1, <1>2, Popped
<1>4. Sound(p)
  BY <1>1, <1>3, SoundWith DEF Flags
<1>5. \A i \in DOMAIN p.queue :
         i \in Nat \ {0} /\ i + 1 \in DOMAIN a.queue /\ p.queue[i] = a.queue[i + 1]
  BY <1>3
<1>6. \A i \in DOMAIN a.queue :
         i \in Nat \ {0} /\ (i = 1 \/ (i > 1 /\ i - 1 \in DOMAIN p.queue))
  BY <1>3
<1> QED
  BY <1>1, <1>3, <1>4, <1>5, <1>6 DEF p

\* What holds of all events, or of all pairs, holds of the rest.
LEMMA PopKeeps ==
    ASSUME NEW a, Inv(a), a.queue # <<>>
    PROVE  LET p == Pop(a)
               e == Head(a.queue)
           IN  /\ Sorted(p) /\ Linked(p) /\ Read(p) /\ Wanted(p) /\ ~p.unsafe
               /\ ~(e[1] = "lanReady" /\ Of(e, a.session)) => Telling(p)
               /\ e[1] # "ready" => Panel(p) /\ Screened(p)
               /\ Of(e, a.session) =>
                     \A i \in DOMAIN p.queue :
                        p.queue[i][1] # "ready" => Of(p.queue[i], a.session)
<1> DEFINE p == Pop(a)
           q == a.queue
           r == p.queue
           e == Head(q)
<1>1. /\ Sound(p) /\ Same(a, p, {"queue"}) /\ 1 \in DOMAIN q /\ e = q[1] /\ e \in Events
      /\ \A i \in DOMAIN r : i \in Nat \ {0} /\ i + 1 \in DOMAIN q /\ r[i] = q[i + 1]
      /\ \A i \in DOMAIN q : i \in Nat \ {0} /\ (i = 1 \/ (i > 1 /\ i - 1 \in DOMAIN r))
  BY PopRecord DEF Inv
<1> HIDE DEF p
<1>2. /\ p.session = a.session /\ p.live = a.live /\ p.uiReady = a.uiReady
      /\ p.connected = a.connected /\ p.modelReady = a.modelReady /\ p.ready = a.ready
      /\ p.link = a.link /\ p.watchdog = a.watchdog /\ p.idents = a.idents
      /\ p.unsafe = a.unsafe
  BY <1>1 DEF Same, Fields, Flags
<1>3. /\ p.complete = a.complete /\ p.generation = a.generation /\ p.wakeTimers = a.wakeTimers
      /\ p.bootstrapPending = a.bootstrapPending /\ p.host = a.host /\ p.reported = a.reported
      /\ p.reconnectTimer = a.reconnectTimer /\ p.syncAttempts = a.syncAttempts
      /\ p.retried = a.retried /\ p.wakes = a.wakes /\ p.syncTimers = a.syncTimers
      /\ p.reconnecting = a.reconnecting /\ p.wish = a.wish /\ p.pending = a.pending
      /\ p.userDisconnected = a.userDisconnected
  BY <1>1 DEF Same, Fields, Flags
<1> HIDE DEF q, r, e
<1>4. \A i, j \in DOMAIN r : i < j => i + 1 < j + 1 /\ i + 1 # 1
  BY <1>1
<1>5. Sorted(p)
  <2>1. \A i \in DOMAIN r : r[i][1] # "ready" =>
           r[i][3] <= a.session /\ (r[i][3] = a.session => a.live)
    BY <1>1 DEF Inv, Sorted, q
  <2>2. \A i, j \in DOMAIN r :
           i < j /\ r[i][1] # "ready" /\ r[j][1] # "ready" => r[i][3] <= r[j][3]
    BY <1>1, <1>4 DEF Inv, Sorted, q
  <2> QED
    BY <1>2, <2>1, <2>2, Zenon DEF Sorted, r
<1>6. Linked(p)
  <2>1. Unproven(a) => Unproven(p)
    BY <1>1, <1>2, <1>3 DEF Unproven, q, r
  <2>2. NoneOf(a) => NoneOf(p)
    BY <1>1, <1>2 DEF NoneOf, q, r
  <2>3. ASSUME a.link \in {"silent", "failed"}, NEW i \in DOMAIN r, Of(r[i], a.session),
               Exhausts(r[i]), NEW j \in DOMAIN r, Of(r[j], a.session), Exhausts(r[j])
        PROVE  i = j
    <3>1. i + 1 = j + 1
      BY <1>1, <2>3 DEF Inv, Linked, q
    <3> QED
      BY <1>1, <3>1
  <2>4. ASSUME a.link \in {"silent", "failed"}, NEW i \in DOMAIN r, Of(r[i], a.session),
               Exhausts(r[i])
        PROVE  Unproven(p) /\ a.generation \notin a.wakeTimers
    BY <1>1, <2>1, <2>4 DEF Inv, Linked, q
  <2>5. a.link = "proven" => \A i \in DOMAIN r : Of(r[i], a.session) => r[i][1] # "error"
    BY <1>1 DEF Inv, Linked, q
  <2>6. /\ a.live <=> a.link # "off"
        /\ a.live => a.host # 0
        /\ a.link \in {"login", "probing"} => ~a.complete /\ NoneOf(p)
        /\ a.link = "silent" => Unproven(p)
        /\ a.generation \in a.wakeTimers => Unproven(p) /\ a.link \in {"silent", "failed"}
        /\ a.bootstrapPending => ~a.live /\ ~a.complete
        /\ a.watchdog => a.live /\ a.complete
    BY <2>1, <2>2 DEF Inv, Linked
  <2> QED
    BY <1>2, <1>3, <2>3, <2>4, <2>5, <2>6 DEF Linked, r
<1>7. Read(p)
  <2>1. Proven(a) => \A i \in DOMAIN r : /\ r[i][1] = "report" => Of(r[i], a.session)
                                         /\ r[i][1] = "lanReady" => ~Of(r[i], a.session)
    BY <1>1 DEF Inv, Read, q
  <2>2. Waking(a) => \A i \in DOMAIN r : r[i][1] = "report" => Of(r[i], a.session)
    BY <1>1 DEF Inv, Read, q
  <2>3. /\ Proven(a) => a.idents = a.reported /\ ~a.reconnectTimer
        /\ a.ready => a.idents = Identity /\ a.syncAttempts = 0
        /\ Waking(a) => ~a.ready
    BY DEF Inv, Read
  <2>4. (Proven(p) <=> Proven(a)) /\ (Waking(p) <=> Waking(a))
    BY <1>2, <1>3 DEF Proven, Waking
  <2> QED
    BY <1>2, <1>3, <2>1, <2>2, <2>3, <2>4 DEF Read, r
<1>8. Wanted(p) /\ ~p.unsafe
  BY <1>2, <1>3 DEF Inv, Wanted, Retrying
<1>9. ASSUME ~(e[1] = "lanReady" /\ Of(e, a.session)) PROVE Telling(p)
  <2>1. \A i, j \in DOMAIN r :
           i < j /\ Of(r[i], a.session) /\ Of(r[j], a.session) =>
              r[j][1] # "lanReady" /\ (r[i][1] = "error" => r[j][1] = "error")
    BY <1>1, <1>4 DEF Inv, Telling, q
  <2>2. ASSUME NEW i \in DOMAIN q, q[i][1] = "lanReady", Of(q[i], a.session)
        PROVE  i - 1 \in DOMAIN r /\ r[i - 1] = q[i] /\ i \in Nat
    <3>1. i # 1
      BY <1>1, <1>9, <2>2
    <3>2. i - 1 \in DOMAIN r /\ (i - 1) + 1 = i
      BY <1>1, <3>1
    <3> QED
      BY <1>1, <3>2
  <2>3. ASSUME ~a.complete
        PROVE  /\ a.link = "proven" => \E i \in DOMAIN r : r[i][1] = "lanReady" /\ Of(r[i], a.session)
               /\ \A j \in DOMAIN r : r[j][1] = "report" /\ Of(r[j], a.session) =>
                     \E i \in DOMAIN r : i < j /\ r[i][1] = "lanReady" /\ Of(r[i], a.session)
    <3>1. a.link = "proven" => \E i \in DOMAIN r : r[i][1] = "lanReady" /\ Of(r[i], a.session)
      BY <2>2, <2>3 DEF Inv, Telling, q
    <3>2. ASSUME NEW j \in DOMAIN r, r[j][1] = "report", Of(r[j], a.session)
          PROVE  \E i \in DOMAIN r : i < j /\ r[i][1] = "lanReady" /\ Of(r[i], a.session)
      <4>1. j + 1 \in DOMAIN q /\ q[j + 1] = r[j] /\ j \in Nat
        BY <1>1
      <4>2. PICK i \in DOMAIN q : i < j + 1 /\ q[i][1] = "lanReady" /\ Of(q[i], a.session)
        BY <2>3, <3>2, <4>1 DEF Inv, Telling, q
      <4>3. i - 1 \in DOMAIN r /\ r[i - 1] = q[i] /\ i - 1 < j
        BY <2>2, <4>1, <4>2
      <4> QED
        BY <4>2, <4>3
    <3> QED
      BY <3>1, <3>2
  <2> QED
    BY <1>2, <1>3, <2>1, <2>3 DEF Telling, r
<1>10. ASSUME e[1] # "ready" PROVE Panel(p)
  <2>1. \A i \in DOMAIN q : q[i][1] = "ready" => i - 1 \in DOMAIN r /\ r[i - 1] = q[i]
    <3>1. \A i \in DOMAIN q : i # 1 => i - 1 \in DOMAIN r /\ (i - 1) + 1 = i
      BY <1>1
    <3> QED
      BY <1>1, <1>10, <3>1
  <2>2. ASSUME \A i \in DOMAIN r : r[i][1] # "ready"
        PROVE  a.uiReady <=> a.connected /\ a.modelReady
    <3>1. \A i \in DOMAIN q : q[i][1] # "ready"
      BY <2>1, <2>2
    <3> QED
      BY <3>1 DEF Inv, Panel, q
  <2>3. ASSUME NEW i \in DOMAIN r, r[i][1] = "ready",
               \A j \in DOMAIN r : j > i => r[j][1] # "ready"
        PROVE  r[i][2] <=> a.modelReady
    <3>1. \A j \in DOMAIN q : j > i + 1 => q[j][1] # "ready"
      <4>1. \A j \in DOMAIN q : j > i + 1 => j - 1 > i
        BY <1>1
      <4> QED
        BY <2>1, <2>3, <4>1
    <3> QED
      BY <1>1, <2>3, <3>1 DEF Inv, Panel, q
  <2>4. /\ a.uiReady => a.connected
        /\ a.modelReady => a.ready
        /\ a.connected /\ a.ready => a.modelReady
    BY DEF Inv, Panel
  <2> QED
    BY <1>2, <2>2, <2>3, <2>4 DEF Panel, r
<1>11. ASSUME e[1] # "ready" PROVE Screened(p)
  <2>1. ASSUME NEW i \in DOMAIN r, Corrected(a, i + 1) PROVE Corrected(p, i)
    <3>1. \A j \in DOMAIN r : j > i => ~Shows(r[j], TRUE)
      <4>1. \A j \in DOMAIN r : j > i => j + 1 > i + 1
        BY <1>1
      <4> QED
        BY <1>1, <2>1, <4>1 DEF Corrected, q
    <3>2. ASSUME p.uiReady \/ (\E j \in DOMAIN r : j < i /\ Shows(r[j], TRUE))
          PROVE  \E k \in DOMAIN r : /\ k < i /\ Shows(r[k], FALSE)
                                     /\ \A j \in DOMAIN r : k < j /\ j < i => ~Shows(r[j], TRUE)
      <4>1. a.uiReady \/ (\E j \in DOMAIN q : j < i + 1 /\ Shows(q[j], TRUE))
        <5>1. \A j \in DOMAIN r : j < i => j + 1 < i + 1
          BY <1>1
        <5> QED
          BY <1>1, <1>2, <3>2, <5>1
      <4>2. PICK k \in DOMAIN q : /\ k < i + 1 /\ Shows(q[k], FALSE)
                                  /\ \A j \in DOMAIN q : k < j /\ j < i + 1 => ~Shows(q[j], TRUE)
        BY <2>1, <4>1 DEF Corrected, q
      <4>3. k # 1
        BY <1>1, <1>11, <4>2 DEF Shows
      <4>4. k - 1 \in DOMAIN r /\ (k - 1) + 1 = k /\ k - 1 < i
        BY <1>1, <4>2, <4>3
      <4>5. r[k - 1] = q[k]
        BY <1>1, <4>4
      <4>6. \A j \in DOMAIN r : k - 1 < j /\ j < i => ~Shows(r[j], TRUE)
        <5>1. \A j \in DOMAIN r : k - 1 < j /\ j < i => k < j + 1 /\ j + 1 < i + 1
          BY <1>1, <4>4
        <5> QED
          BY <1>1, <4>2, <5>1
      <4> QED
        BY <4>2, <4>4, <4>5, <4>6
    <3> QED
      BY <3>1, <3>2 DEF Corrected, r
  <2>2. ASSUME a.live, ~a.complete, ~a.ready, NEW i \in DOMAIN r, Of(r[i], a.session)
        PROVE  Corrected(p, i)
    <3>1. Corrected(a, i + 1)
      BY <1>1, <2>2 DEF Inv, Screened, q
    <3> QED
      BY <2>1, <3>1
  <2>3. ASSUME Proven(a), ~a.ready, a.uiReady \/ \E j \in DOMAIN r : Shows(r[j], TRUE)
        PROVE  a.syncAttempts = 0
    <3>1. a.uiReady \/ \E j \in DOMAIN q : Shows(q[j], TRUE)
      BY <1>1, <2>3
    <3> QED
      BY <2>3, <3>1 DEF Inv, Screened, q
  <2>4. Proven(p) <=> Proven(a)
    BY <1>2, <1>3 DEF Proven
  <2> QED
    BY <1>2, <1>3, <2>2, <2>3, <2>4 DEF Screened, r
<1>12. ASSUME Of(e, a.session), NEW i \in DOMAIN r, r[i][1] # "ready"
       PROVE  Of(r[i], a.session)
  <2>1. i + 1 \in DOMAIN q /\ 1 < i + 1 /\ r[i] = q[i + 1]
    BY <1>1
  <2>2. q[1][3] <= q[i + 1][3] /\ q[i + 1][3] <= a.session /\ q[1][3] = a.session
    BY <1>1, <1>12, <2>1 DEF Inv, Sorted, q, Of
  <2>3. q[i + 1][3] \in Nat /\ a.session \in Nat
    <3>1. q \in Seq(Events) /\ a.session \in Nat
      BY DEF Inv, Sound, q
    <3>2. q[i + 1] \in Events
      BY <2>1, <3>1, QueueDomain, ElementOfSeq
    <3> QED
      BY <3>1, <3>2, EventFields
  <2> QED
    BY <1>12, <2>1, <2>2, <2>3 DEF Of
<1> QED
  BY <1>5, <1>6, <1>7, <1>8, <1>9, <1>10, <1>11, <1>12 DEF p, q, r, e

\* An announcement says nothing of what the worker told.
LEMMA TalkKept ==
    ASSUME NEW a, NEW b, NEW v, a.queue \in Seq(Events), Announced(a.queue, b.queue, v),
           Telling(a), Linked(a), b.watchdog => a.watchdog,
           b.session = a.session, b.complete = a.complete, b.link = a.link, b.live = a.live,
           b.host = a.host, b.generation = a.generation, b.wakeTimers = a.wakeTimers,
           b.bootstrapPending = a.bootstrapPending
    PROVE  Telling(b) /\ Linked(b)
<1> DEFINE q == a.queue
           r == b.queue
<1>1. \A i \in DOMAIN q : i \in DOMAIN r /\ r[i] = q[i]
  BY DEF Announced
<1>2. \A i \in DOMAIN r : r[i][1] # "ready" => i \in DOMAIN q /\ r[i] = q[i]
  BY DEF Announced, Shows
<1> HIDE DEF q, r
<1>3. Telling(b)
  <2>1. \A i, j \in DOMAIN r :
           i < j /\ Of(r[i], a.session) /\ Of(r[j], a.session) =>
              r[j][1] # "lanReady" /\ (r[i][1] = "error" => r[j][1] = "error")
    BY <1>2 DEF Telling, Of, q
  <2>2. ASSUME ~a.complete
        PROVE  /\ a.link = "proven" => \E i \in DOMAIN r : r[i][1] = "lanReady" /\ Of(r[i], a.session)
               /\ \A j \in DOMAIN r : r[j][1] = "report" /\ Of(r[j], a.session) =>
                     \E i \in DOMAIN r : i < j /\ r[i][1] = "lanReady" /\ Of(r[i], a.session)
    BY <1>1, <1>2, <2>2 DEF Telling, q
  <2> QED
    BY <2>1, <2>2 DEF Telling, r
<1>4. Linked(b)
  <2>1. Unproven(a) => Unproven(b)
    BY <1>2 DEF Unproven, Of, q, r
  <2>2. NoneOf(a) => NoneOf(b)
    BY <1>2 DEF NoneOf, Of, q, r
  <2>3. \A i \in DOMAIN r : Of(r[i], a.session) => i \in DOMAIN q /\ r[i] = q[i]
    BY <1>2 DEF Of
  <2>4. a.link = "proven" => \A i \in DOMAIN r : Of(r[i], a.session) => r[i][1] # "error"
    BY <2>3 DEF Linked, q
  <2>5. a.link \in {"silent", "failed"} =>
          \A i \in DOMAIN r : Of(r[i], a.session) /\ Exhausts(r[i]) =>
              /\ Unproven(b) /\ a.generation \notin a.wakeTimers
              /\ \A j \in DOMAIN r : Of(r[j], a.session) /\ Exhausts(r[j]) => i = j
    BY <2>1, <2>3 DEF Linked, q
  <2>6. /\ a.live <=> a.link # "off"
        /\ a.live => a.host # 0
        /\ a.link \in {"login", "probing"} => ~a.complete /\ NoneOf(b)
        /\ a.link = "silent" => Unproven(b)
        /\ a.generation \in a.wakeTimers => Unproven(b) /\ a.link \in {"silent", "failed"}
        /\ a.bootstrapPending => ~a.live /\ ~a.complete
        /\ a.watchdog => a.live /\ a.complete
    BY <2>1, <2>2 DEF Linked
  <2> QED
    BY <2>4, <2>5, <2>6 DEF Linked, r
<1> QED
  BY <1>3, <1>4

\* The window hears whether the radio is ready.
LEMMA ReadyHandled ==
    ASSUME NEW a, Inv(a), a.queue # <<>>, Head(a.queue)[1] = "ready"
    PROVE  Inv(onRadioReadyChanged(Pop(a), Head(a.queue)[2]))
<1> DEFINE p == Pop(a)
           q == a.queue
           r == p.queue
           e == Head(q)
           b == onRadioReadyChanged(p, e[2])
<1>1. /\ Sound(p) /\ Same(a, p, {"queue"}) /\ 1 \in DOMAIN q /\ e = q[1] /\ e \in Events
      /\ \A i \in DOMAIN r : i \in Nat \ {0} /\ i + 1 \in DOMAIN q /\ r[i] = q[i + 1]
      /\ \A i \in DOMAIN q : i \in Nat \ {0} /\ (i = 1 \/ (i > 1 /\ i - 1 \in DOMAIN r))
  BY PopRecord DEF Inv
<1>2. Sorted(p) /\ Linked(p) /\ Read(p) /\ Wanted(p) /\ ~p.unsafe /\ Telling(p)
  BY PopKeeps
<1>3. e[1] = "ready" /\ e[2] \in BOOLEAN
  BY <1>1, EventFields
<1> HIDE DEF p
<1>4. b = [p EXCEPT !.uiReady = p.connected /\ e[2]]
  BY DEF onRadioReadyChanged
<1> HIDE DEF e
<1>5. DOMAIN b = Fields /\ Same(p, b, {"uiReady"}) /\ b.uiReady = (p.connected /\ e[2])
  BY <1>1, <1>4 DEF Sound, Same, Fields, Flags
<1> HIDE DEF b
<1>6. Sound(b)
  <2>1. b.uiReady \in BOOLEAN
    BY <1>5
  <2> QED
    BY <1>1, <1>5, <2>1, SoundWith DEF Flags
<1>7. /\ b.queue = p.queue /\ b.session = p.session /\ b.live = p.live
      /\ b.connected = p.connected /\ b.modelReady = p.modelReady /\ b.ready = p.ready
      /\ b.link = p.link /\ b.watchdog = p.watchdog /\ b.idents = p.idents
      /\ b.unsafe = p.unsafe /\ b.complete = p.complete /\ b.generation = p.generation
      /\ b.wakeTimers = p.wakeTimers /\ b.bootstrapPending = p.bootstrapPending
      /\ b.host = p.host /\ b.reported = p.reported
      /\ b.reconnectTimer = p.reconnectTimer /\ b.syncAttempts = p.syncAttempts
      /\ b.retried = p.retried /\ b.wakes = p.wakes /\ b.syncTimers = p.syncTimers
      /\ b.reconnecting = p.reconnecting /\ b.wish = p.wish /\ b.pending = p.pending
      /\ b.userDisconnected = p.userDisconnected
  BY <1>5 DEF Same, Fields, Flags
<1>8. /\ a.session = p.session /\ a.live = p.live /\ a.connected = p.connected
      /\ a.modelReady = p.modelReady /\ a.ready = p.ready /\ a.complete = p.complete
      /\ a.syncAttempts = p.syncAttempts
  BY <1>1 DEF Same, Fields, Flags
<1>9. Sorted(b) /\ Telling(b)
  BY <1>2, <1>7 DEF Sorted, Telling
<1>10. Linked(b)
  BY <1>2, <1>7 DEF Linked, Unproven, NoneOf
<1>11. Read(b) /\ Wanted(b)
  BY <1>2, <1>7 DEF Read, Proven, Waking, Wanted, Retrying
<1> HIDE DEF q, r
<1>12. Panel(b)
  <2>1. /\ a.uiReady => a.connected
        /\ a.modelReady => a.ready
        /\ a.connected /\ a.ready => a.modelReady
    BY DEF Inv, Panel
  <2>2. ASSUME \A i \in DOMAIN r : r[i][1] # "ready" PROVE e[2] <=> a.modelReady
    <3>1. \A j \in DOMAIN q : j > 1 => q[j][1] # "ready"
      <4>1. \A j \in DOMAIN q : j > 1 => j - 1 \in DOMAIN r /\ (j - 1) + 1 = j
        BY <1>1
      <4> QED
        BY <1>1, <2>2, <4>1
    <3> QED
      BY <1>1, <1>3, <3>1 DEF Inv, Panel, q
  <2>3. ASSUME NEW i \in DOMAIN r, r[i][1] = "ready",
               \A j \in DOMAIN r : j > i => r[j][1] # "ready"
        PROVE  r[i][2] <=> a.modelReady
    <3>1. \A j \in DOMAIN q : j > i + 1 => q[j][1] # "ready"
      <4>1. \A j \in DOMAIN q : j > i + 1 => j - 1 > i /\ j - 1 \in DOMAIN r /\ (j - 1) + 1 = j
        BY <1>1
      <4> QED
        BY <1>1, <2>3, <4>1
    <3> QED
      BY <1>1, <2>3, <3>1 DEF Inv, Panel, q
  <2>4. /\ b.uiReady = (a.connected /\ e[2]) /\ b.connected = a.connected
        /\ b.modelReady = a.modelReady /\ b.ready = a.ready /\ b.queue = r
    BY <1>5, <1>7, <1>8 DEF r
  <2> QED
    BY <2>1, <2>2, <2>3, <2>4, Zenon DEF Panel
<1>13. Screened(b)
  <2>1. b.uiReady => Shows(q[1], TRUE)
    BY <1>1, <1>3, <1>5 DEF Shows
  <2>2. ASSUME NEW i \in DOMAIN r, Corrected(a, i + 1) PROVE Corrected(b, i)
    <3>1. \A j \in DOMAIN r : j > i => ~Shows(r[j], TRUE)
      <4>1. \A j \in DOMAIN r : j > i => j + 1 > i + 1
        BY <1>1
      <4> QED
        BY <1>1, <2>2, <4>1 DEF Corrected, q
    <3>2. ASSUME b.uiReady \/ (\E j \in DOMAIN r : j < i /\ Shows(r[j], TRUE))
          PROVE  \E k \in DOMAIN r : /\ k < i /\ Shows(r[k], FALSE)
                                     /\ \A j \in DOMAIN r : k < j /\ j < i => ~Shows(r[j], TRUE)
      <4>1. PICK m \in DOMAIN q : m < i + 1 /\ Shows(q[m], TRUE)
        <5>1. \A j \in DOMAIN r : j < i => j + 1 < i + 1
          BY <1>1
        <5>2. 1 < i + 1
          BY <1>1
        <5> QED
          BY <1>1, <2>1, <3>2, <5>1, <5>2
      <4>2. PICK k \in DOMAIN q : /\ k < i + 1 /\ Shows(q[k], FALSE)
                                  /\ \A j \in DOMAIN q : k < j /\ j < i + 1 => ~Shows(q[j], TRUE)
        BY <2>2, <4>1 DEF Corrected, q
      <4>3. k # 1
        <5>1. m # k
          BY <4>1, <4>2 DEF Shows
        <5> QED
          BY <1>1, <4>1, <4>2, <5>1
      <4>4. k - 1 \in DOMAIN r /\ (k - 1) + 1 = k /\ k - 1 < i
        BY <1>1, <4>2, <4>3
      <4>5. r[k - 1] = q[k]
        BY <1>1, <4>4
      <4>6. \A j \in DOMAIN r : k - 1 < j /\ j < i => ~Shows(r[j], TRUE)
        <5>1. \A j \in DOMAIN r : k - 1 < j /\ j < i => k < j + 1 /\ j + 1 < i + 1
          BY <1>1, <4>4
        <5> QED
          BY <1>1, <4>2, <5>1
      <4> QED
        BY <4>2, <4>4, <4>5, <4>6
    <3> QED
      BY <1>7, <3>1, <3>2 DEF Corrected, r
  <2>3. ASSUME a.live, ~a.complete, ~a.ready, NEW i \in DOMAIN r, Of(r[i], a.session)
        PROVE  Corrected(b, i)
    <3>1. Corrected(a, i + 1)
      BY <1>1, <2>3 DEF Inv, Screened, q
    <3> QED
      BY <2>2, <3>1
  <2>4. ASSUME Proven(a), ~a.ready, b.uiReady \/ \E j \in DOMAIN r : Shows(r[j], TRUE)
        PROVE  a.syncAttempts = 0
    <3>1. \E j \in DOMAIN q : Shows(q[j], TRUE)
      BY <1>1, <2>1, <2>4
    <3> QED
      BY <2>4, <3>1 DEF Inv, Screened, q
  <2>5. Proven(b) <=> Proven(a)
    BY <1>7, <1>8 DEF Proven
  <2> QED
    BY <1>7, <1>8, <2>3, <2>4, <2>5 DEF Screened, r
<1>14. Inv(b)
  BY <1>2, <1>6, <1>7, <1>9, <1>10, <1>11, <1>12, <1>13, Zenon DEF Inv
<1> QED
  BY <1>14 DEF p, b, e, q

\* A reading is heard that the router passed on.
LEMMA ReportHandled ==
    ASSUME NEW a, Inv(a), a.queue # <<>>, Head(a.queue)[1] = "report"
    PROVE  LET r == identityReported(Pop(a), Head(a.queue)[2], Head(a.queue)[3])
           IN  Inv(r) /\ r.live = a.live
<1> DEFINE p == Pop(a)
           e == Head(a.queue)
           k == e[2]
           s == e[3]
           x == [p EXCEPT !.idents = @ \cup {k},
                          !.reported = IF s = p.session THEN @ \cup {k} ELSE @]
           m == MainIdentity \subseteq x.idents /\ ~x.postRequested
           b == IF m THEN [x EXCEPT !.postRequested = TRUE, !.retry = FALSE, !.snapshot = TRUE]
                ELSE x
           full == Identity \subseteq x.idents
           y == [b EXCEPT !.ready = full]
           c == readyChanged(y, full)
           d == [c EXCEPT !.syncAttempts = 0, !.syncs = 0, !.syncPending = FALSE,
                          !.watchdog = FALSE, !.retry = FALSE, !.stage = "Ready"]
           r == identityReported(p, k, s)
<1>1. /\ Sound(p) /\ Same(a, p, {"queue"}) /\ 1 \in DOMAIN a.queue /\ e = a.queue[1]
      /\ e \in Events
      /\ \A i \in DOMAIN a.queue : i \in Nat \ {0}
  BY PopRecord DEF Inv
<1>2. /\ Sorted(p) /\ Linked(p) /\ Read(p) /\ Wanted(p) /\ ~p.unsafe /\ Telling(p)
      /\ Panel(p) /\ Screened(p)
  BY PopKeeps
<1>3. k \in Identity /\ s \in Nat /\ e[1] = "report"
  BY <1>1, EventFields
<1>4. /\ a.session = p.session /\ a.live = p.live /\ a.ready = p.ready /\ a.complete = p.complete
      /\ a.retried = p.retried /\ a.wakes = p.wakes
  BY <1>1 DEF Same, Fields, Flags
<1> HIDE DEF p
<1>5. Proven(p) => s = p.session
  <2>1. Proven(p) => Proven(a)
    BY <1>4 DEF Proven
  <2>2. Proven(a) => \A i \in DOMAIN a.queue : a.queue[i][1] = "report" => Of(a.queue[i], a.session)
    BY DEF Inv, Read
  <2>3. Proven(a) => Of(a.queue[1], a.session)
    BY <1>1, <1>3, <2>2
  <2> QED
    BY <1>1, <1>4, <2>1, <2>3 DEF Of
<1>6. ~Waking(p)
  <2> SUFFICES ASSUME Waking(p) PROVE FALSE
    OBVIOUS
  <2>1. Waking(a) /\ ~a.complete
    BY <1>4 DEF Waking
  <2>2. Of(e, a.session)
    BY <1>1, <1>3, <2>1 DEF Inv, Read
  <2>3. PICK i \in DOMAIN a.queue : i < 1
    BY <1>1, <1>3, <2>1, <2>2 DEF Inv, Telling
  <2> QED
    BY <1>1, <2>3
<1> HIDE DEF e, k, s
<1>7. r = IF x.ready = full THEN b ELSE IF ~full THEN c ELSE d
  BY DEF identityReported, updateReadyState
<1>8. /\ DOMAIN x = Fields /\ Same(p, x, {"idents", "reported"})
      /\ x.idents = p.idents \cup {k}
      /\ x.reported = IF s = p.session THEN p.reported \cup {k} ELSE p.reported
  BY <1>1 DEF Sound, Same, Fields
<1> HIDE DEF x
<1>9. Sound(x) /\ Proven(p) => x.idents = x.reported
  BY <1>2, <1>5, <1>8 DEF Read
<1>10. Sound(x)
  <2>1. x.idents \subseteq Identity /\ x.reported \subseteq Identity
    BY <1>1, <1>3, <1>8 DEF Sound
  <2> QED
    BY <1>1, <1>8, <2>1, SoundWith DEF Flags
<1>11. /\ Sound(b) /\ Same(x, b, {"postRequested", "retry", "snapshot"})
  <2>1. CASE ~m
    BY <1>8, <1>10, <2>1 DEF Same
  <2>2. CASE m
    <3>1. b = [x EXCEPT !.postRequested = TRUE, !.retry = FALSE, !.snapshot = TRUE]
      BY <2>2
    <3> HIDE DEF b
    <3>2. /\ DOMAIN b = Fields /\ Same(x, b, {"postRequested", "retry", "snapshot"})
          /\ b.postRequested = TRUE /\ b.retry = FALSE /\ b.snapshot = TRUE
      BY <1>8, <3>1 DEF Same, Fields, Flags
    <3> QED
      BY <1>10, <3>2, SoundWith DEF Flags
  <2> QED
    BY <2>1, <2>2
<1> HIDE DEF b
<1>12. /\ b.idents = x.idents /\ b.reported = x.reported
       /\ Same(p, b, {"idents", "reported"} \cup Aside)
  BY <1>8, <1>11 DEF Same, Fields, Aside
<1>13. x.ready = p.ready /\ b.ready = p.ready /\ p.ready \in BOOLEAN
  BY <1>1, <1>8, <1>11 DEF Same, Fields, Flags, Sound
<1>14. p.ready => full
  BY <1>2, <1>8 DEF Read
<1>15. x.idents \subseteq Identity /\ full \in BOOLEAN
  BY <1>10 DEF Sound
<1>16. CASE x.ready = full
  <2>1. r = b
    BY <1>7, <1>16
  <2> HIDE DEF r
  <2>2. /\ b.queue = p.queue /\ b.session = p.session /\ b.live = p.live
        /\ b.uiReady = p.uiReady /\ b.connected = p.connected
        /\ b.modelReady = p.modelReady /\ b.link = p.link /\ b.watchdog = p.watchdog
        /\ b.unsafe = p.unsafe /\ b.complete = p.complete /\ b.generation = p.generation
        /\ b.wakeTimers = p.wakeTimers /\ b.bootstrapPending = p.bootstrapPending
        /\ b.host = p.host /\ b.reconnectTimer = p.reconnectTimer
        /\ b.syncAttempts = p.syncAttempts /\ b.retried = p.retried /\ b.wakes = p.wakes
        /\ b.syncTimers = p.syncTimers /\ b.reconnecting = p.reconnecting
        /\ b.wish = p.wish /\ b.pending = p.pending
        /\ b.userDisconnected = p.userDisconnected
    BY <1>12 DEF Same, Fields, Flags, Aside
  <2>3. Sorted(b) /\ Telling(b)
    BY <1>2, <2>2 DEF Sorted, Telling
  <2>4. Linked(b)
    BY <1>2, <2>2 DEF Linked, Unproven, NoneOf
  <2>5. Read(b)
    <3>1. Proven(b) => b.idents = b.reported
      BY <1>9, <1>10, <1>12, <2>2 DEF Proven
    <3>2. b.ready => b.idents = Identity
      BY <1>12, <1>13, <1>14, <1>15
    <3> QED
      BY <1>2, <1>13, <2>2, <3>1, <3>2 DEF Read, Proven, Waking
  <2>6. Panel(b)
    BY <1>2, <1>13, <2>2, PanelKept
  <2>7. Screened(b)
    BY <1>2, <1>13, <2>2 DEF Screened, Corrected, Proven
  <2>8. Wanted(b)
    BY <1>2, <2>2 DEF Wanted, Retrying
  <2>9. Inv(b)
    BY <1>2, <1>11, <2>2, <2>3, <2>4, <2>5, <2>6, <2>7, <2>8 DEF Inv
  <2> QED
    BY <1>4, <2>1, <2>2, <2>9 DEF r, p, k, s, e
<1>17. CASE x.ready # full
  <2>1. full /\ ~p.ready /\ full = TRUE
    BY <1>13, <1>14, <1>15, <1>17
  <2>2. r = d
    BY <1>7, <1>17, <2>1
  <2>3. DOMAIN y = Fields /\ Same(b, y, {"ready"}) /\ y.ready = TRUE
    BY <1>11, <2>1 DEF Sound, Same, Fields, Flags
  <2>4. c = readyChanged(y, TRUE)
    BY <2>1
  <2> HIDE DEF y, r, full
  <2>5. p.modelReady = FALSE
    BY <1>1, <1>2, <2>1 DEF Panel, Sound, Flags
  <2>6. y.modelReady = FALSE
    BY <1>12, <2>3, <2>5 DEF Same, Fields, Flags, Aside
  <2>7. c = [[y EXCEPT !.modelReady = TRUE] EXCEPT !.queue = Append(@, ReadyIs(TRUE))]
    BY <2>4, <2>6 DEF readyChanged, Post, ReadyIs
  <2> HIDE DEF c
  <2>8. /\ DOMAIN c = Fields /\ Same(y, c, {"modelReady", "queue"})
        /\ c.modelReady = TRUE /\ c.queue = Append(y.queue, ReadyIs(TRUE))
    BY <2>3, <2>7 DEF Same, Fields, Flags
  <2>9. /\ DOMAIN d = Fields
        /\ Same(c, d, {"syncAttempts", "syncs", "syncPending", "watchdog", "retry", "stage"})
        /\ d.syncAttempts = 0 /\ d.syncPending = FALSE /\ d.watchdog = FALSE /\ d.retry = FALSE
    BY <2>8 DEF Same, Fields, Flags
  <2> HIDE DEF d
  <2>10. Same(p, d, {"idents", "reported", "ready", "modelReady", "queue", "syncAttempts",
                     "watchdog"} \cup Aside)
    BY <1>12, <2>3, <2>8, <2>9 DEF Same, Aside
  <2>11. /\ d.idents = x.idents /\ d.reported = x.reported /\ d.ready = TRUE
         /\ d.modelReady = TRUE /\ d.queue = Append(p.queue, ReadyIs(TRUE))
    <3>1. /\ d.idents = c.idents /\ d.reported = c.reported /\ d.ready = c.ready
          /\ d.modelReady = c.modelReady /\ d.queue = c.queue
      BY <2>9 DEF Same, Fields, Flags
    <3>2. /\ c.idents = y.idents /\ c.reported = y.reported /\ c.ready = y.ready
          /\ y.idents = b.idents /\ y.reported = b.reported /\ y.queue = b.queue
      BY <2>3, <2>8 DEF Same, Fields, Flags
    <3>3. b.queue = p.queue
      BY <1>12 DEF Same, Fields, Aside
    <3> QED
      BY <1>12, <2>3, <2>8, <3>1, <3>2, <3>3
  <2>12. p.queue \in Seq(Events) /\ Announced(p.queue, d.queue, TRUE)
    BY <1>1, <2>11, ReadyAnnounced DEF Sound
  <2>13. Sound(d)
    <3>1. d.queue \in Seq(Events)
      BY <2>12 DEF Announced
    <3>2. Sound(y)
      BY <1>11, <2>3, SoundWith DEF Flags
    <3>3. Sound(c)
      <4>1. c.queue \in Seq(Events)
        BY <2>9, <3>1 DEF Same, Fields
      <4> QED
        BY <2>8, <3>2, <4>1, SoundWith DEF Flags
    <3>4. d.syncAttempts \in 0 .. kMaxSyncReconnectAttempts
      BY <2>9 DEF kMaxSyncReconnectAttempts
    <3> QED
      BY <2>9, <3>3, <3>4, SoundWith DEF Flags
  <2>14. /\ d.session = p.session /\ d.live = p.live
         /\ d.uiReady = p.uiReady /\ d.connected = p.connected
         /\ d.link = p.link
         /\ d.unsafe = p.unsafe /\ d.complete = p.complete /\ d.generation = p.generation
         /\ d.wakeTimers = p.wakeTimers /\ d.bootstrapPending = p.bootstrapPending
         /\ d.host = p.host /\ d.reconnectTimer = p.reconnectTimer
         /\ d.retried = p.retried /\ d.wakes = p.wakes
         /\ d.syncTimers = p.syncTimers /\ d.reconnecting = p.reconnecting
         /\ d.wish = p.wish /\ d.pending = p.pending
         /\ d.userDisconnected = p.userDisconnected
    BY <2>10 DEF Same, Fields, Flags, Aside
  <2>15. Sorted(d)
    BY <1>1, <1>2, <2>12, <2>14, SortedKept
  <2>16. Telling(d) /\ Linked(d)
    BY <1>2, <2>9, <2>12, <2>14, TalkKept
  <2>17. Read(d)
    <3>1. Proven(d) => d.idents = d.reported
      BY <1>9, <1>10, <2>11, <2>14 DEF Proven
    <3>2. d.idents = Identity
      BY <1>15, <2>1, <2>11 DEF full
    <3>3. ~Waking(d)
      BY <1>6, <2>14 DEF Waking
    <3>4. \A i \in DOMAIN d.queue : d.queue[i][1] # "ready" =>
             i \in DOMAIN p.queue /\ d.queue[i] = p.queue[i]
      BY <2>12 DEF Announced, Shows
    <3>5. Proven(d) => /\ ~d.reconnectTimer
                       /\ \A i \in DOMAIN d.queue :
                             /\ d.queue[i][1] = "report" => Of(d.queue[i], d.session)
                             /\ d.queue[i][1] = "lanReady" => ~Of(d.queue[i], d.session)
      <4>1. Proven(p) => /\ ~p.reconnectTimer
                         /\ \A i \in DOMAIN p.queue :
                               /\ p.queue[i][1] = "report" => Of(p.queue[i], p.session)
                               /\ p.queue[i][1] = "lanReady" => ~Of(p.queue[i], p.session)
        BY <1>2 DEF Read
      <4>2. Proven(d) => Proven(p)
        BY <2>14 DEF Proven
      <4>3. ASSUME NEW i \in DOMAIN d.queue, Proven(d)
            PROVE  /\ d.queue[i][1] = "report" => Of(d.queue[i], d.session)
                   /\ d.queue[i][1] = "lanReady" => ~Of(d.queue[i], d.session)
        BY <2>14, <3>4, <4>1, <4>2, <4>3
      <4> QED
        BY <2>14, <4>1, <4>2, <4>3
    <3> QED
      BY <2>9, <3>1, <3>2, <3>3, <3>5 DEF Read
  <2>18. Panel(d)
    BY <1>2, <2>11, <2>12, <2>14, PanelShown DEF Panel
  <2>19. Screened(d)
    BY <2>11 DEF Screened
  <2>20. Wanted(d)
    BY <1>2, <2>14 DEF Wanted, Retrying
  <2>21. Inv(d)
    BY <1>2, <2>13, <2>14, <2>15, <2>16, <2>17, <2>18, <2>19, <2>20 DEF Inv
  <2> QED
    BY <1>4, <2>2, <2>14, <2>21 DEF r, p, k, s, e
<1> QED
  BY <1>16, <1>17

\* The session's command plane has answered.
LEMMA AnswerHandled ==
    ASSUME NEW a, Inv(a), a.queue # <<>>, Head(a.queue)[1] = "lanReady",
           Of(Head(a.queue), a.session)
    PROVE  Inv(onLanReady(Pop(a)))
<1> DEFINE p == Pop(a)
           q == a.queue
           e == Head(q)
           f == identityForgotten(p)
           x == [f EXCEPT !.complete = TRUE, !.requested = FALSE, !.postRequested = FALSE,
                          !.asked = @ \cup MainIdentity]
           y == readyChanged(x, FALSE)
           u == [y EXCEPT !.connected = TRUE, !.modelReady = FALSE]
           v == connectionMade(u)
           w == Post(v, ReadyIs(FALSE))
           r == syncStarted(w)
<1>1. /\ Sound(p) /\ Same(a, p, {"queue"}) /\ 1 \in DOMAIN q /\ e = q[1] /\ e \in Events
      /\ \A i \in DOMAIN p.queue :
            i \in Nat \ {0} /\ i + 1 \in DOMAIN q /\ p.queue[i] = q[i + 1]
      /\ \A i \in DOMAIN q : i \in Nat \ {0} /\ (i = 1 \/ (i > 1 /\ i - 1 \in DOMAIN p.queue))
  BY PopRecord DEF Inv
<1>2. /\ Sorted(p) /\ Linked(p) /\ Read(p) /\ Wanted(p) /\ ~p.unsafe /\ Panel(p)
      /\ \A i \in DOMAIN p.queue : p.queue[i][1] # "ready" => Of(p.queue[i], a.session)
  BY PopKeeps
<1>3. onLanReady(p) = r
  BY DEF onLanReady, onBackendConnected, ReadyIs
<1> HIDE DEF p, e
<1>4. /\ a.session = p.session /\ a.live = p.live /\ a.ready = p.ready /\ a.complete = p.complete
      /\ a.link = p.link /\ a.generation = p.generation /\ a.wakeTimers = p.wakeTimers
      /\ a.uiReady = p.uiReady /\ a.syncAttempts = p.syncAttempts
      /\ a.bootstrapPending = p.bootstrapPending
  BY <1>1 DEF Same, Fields, Flags
<1>5. e[1] = "lanReady" /\ Of(e, a.session)
  BY DEF e
<1>6. a.live
  BY <1>1, <1>5 DEF Inv, Sorted, Of
<1>7. ~a.complete
  <2>1. Proven(a) => \A i \in DOMAIN q : q[i][1] = "lanReady" => ~Of(q[i], a.session)
    BY DEF Inv, Read
  <2> QED
    BY <1>1, <1>5, <1>6, <2>1 DEF Proven
<1>8. ~Unproven(a) /\ ~NoneOf(a)
  BY <1>1, <1>5 DEF Unproven, NoneOf
<1>9. /\ a.link \in {"proven", "failed"} /\ a.generation \notin a.wakeTimers
      /\ ~a.bootstrapPending
  BY <1>6, <1>8 DEF Inv, Linked, Sound, Links
<1>10. \A i \in DOMAIN q : Of(q[i], a.session) /\ Exhausts(q[i]) => a.link # "failed"
  BY <1>8 DEF Inv, Linked
<1>11. \A i, j \in DOMAIN p.queue :
          i < j /\ Of(p.queue[i], a.session) /\ Of(p.queue[j], a.session) =>
              p.queue[j][1] # "lanReady" /\ (p.queue[i][1] = "error" => p.queue[j][1] = "error")
  <2>1. \A i, j \in DOMAIN p.queue : i < j => i + 1 < j + 1
    BY <1>1
  <2>2. \A i, j \in DOMAIN q :
          i < j /\ Of(q[i], a.session) /\ Of(q[j], a.session) =>
              q[j][1] # "lanReady" /\ (q[i][1] = "error" => q[j][1] = "error")
    BY DEF Inv, Telling
  <2>3. \A i \in DOMAIN p.queue : i + 1 \in DOMAIN q /\ p.queue[i] = q[i + 1]
    BY <1>1
  <2> QED
    BY <2>1, <2>2, <2>3
<1>12. \A i \in DOMAIN p.queue : p.queue[i][1] = "lanReady" => ~Of(p.queue[i], a.session)
  <2>1. \A i \in DOMAIN p.queue : 1 < i + 1
    BY <1>1
  <2> QED
    BY <1>1, <1>5, <2>1 DEF Inv, Telling
<1>13. ~a.ready => ~a.uiReady /\ \A i \in DOMAIN p.queue : ~Shows(p.queue[i], TRUE)
  <2> SUFFICES ASSUME ~a.ready
               PROVE  ~a.uiReady /\ \A i \in DOMAIN p.queue : ~Shows(p.queue[i], TRUE)
    OBVIOUS
  <2>1. Corrected(a, 1)
    BY <1>1, <1>5, <1>6, <1>7 DEF Inv, Screened
  <2>2. ~a.uiReady
    <3>1. \A k \in DOMAIN q : ~(k < 1)
      BY <1>1
    <3> QED
      BY <2>1, <3>1 DEF Corrected
  <2>3. \A i \in DOMAIN p.queue : i + 1 > 1
    BY <1>1
  <2>4. \A i \in DOMAIN p.queue : ~Shows(p.queue[i], TRUE)
    BY <1>1, <2>1, <2>3 DEF Corrected
  <2> QED
    BY <2>2, <2>4
<1>14. a.ready => a.syncAttempts = 0
  BY DEF Inv, Read
<1> HIDE DEF q
<1>15. /\ DOMAIN f = Fields /\ Same(p, f, {"ready", "idents", "reported"})
       /\ f.ready = FALSE /\ f.idents = {} /\ f.reported = {}
  BY <1>1 DEF identityForgotten, Sound, Same, Fields, Flags
<1> HIDE DEF f
<1>16. Sound(f)
  <2>1. Sound(p) /\ f.idents \subseteq Identity /\ f.reported \subseteq Identity
    BY <1>1, <1>15
  <2> QED
    BY <1>15, <2>1, SoundWith DEF Flags
<1>17. /\ DOMAIN x = Fields /\ Same(f, x, {"complete", "requested", "postRequested", "asked"})
       /\ x.complete = TRUE /\ x.requested = FALSE /\ x.postRequested = FALSE
       /\ x.asked = f.asked \cup MainIdentity
  BY <1>15 DEF Same, Fields, Flags
<1> HIDE DEF x
<1>18. Sound(x)
  <2>1. x.asked \subseteq Identity
    BY <1>16, <1>17 DEF Sound, Identity
  <2> QED
    BY <1>16, <1>17, <2>1, SoundWith DEF Flags
<1>19. /\ Sound(y) /\ Same(x, y, {"modelReady", "queue"})
       /\ y.queue = IF x.modelReady THEN Append(x.queue, ReadyIs(FALSE)) ELSE x.queue
  BY <1>18, ReadyChangedFalse
<1> HIDE DEF y
<1>20. /\ DOMAIN u = Fields /\ Same(y, u, {"connected", "modelReady"})
       /\ u.connected = TRUE /\ u.modelReady = FALSE
  BY <1>19 DEF Sound, Same, Fields, Flags
<1> HIDE DEF u
<1>21. /\ DOMAIN v = Fields /\ Same(u, v, {"reconnecting", "reconnectTimer", "credential"})
       /\ v.reconnecting = FALSE /\ v.reconnectTimer = FALSE /\ v.credential = FALSE
  BY <1>20 DEF connectionMade, Same, Fields, Flags
<1> HIDE DEF v
<1>22. /\ DOMAIN w = Fields /\ Same(v, w, {"queue"}) /\ w.queue = Append(v.queue, ReadyIs(FALSE))
  BY <1>21 DEF Post, Same, Fields
<1> HIDE DEF w
<1>23. /\ DOMAIN r = Fields /\ Same(w, r, {"delay", "retry", "watchdog", "stage"})
       /\ r.delay = TRUE /\ r.retry = FALSE /\ r.watchdog = TRUE
  BY <1>22 DEF syncStarted, Same, Fields, Flags
<1> HIDE DEF r
<1>24. Announced(p.queue, y.queue, FALSE) /\ y.queue \in Seq(Events)
  <2>1. x.queue = p.queue /\ x.queue \in Seq(Events) /\ x.modelReady \in BOOLEAN
    <3>1. f.queue = p.queue /\ x.queue = f.queue
      BY <1>15, <1>17 DEF Same, Fields
    <3> QED
      BY <1>18, <3>1 DEF Sound, Flags
  <2>2. CASE x.modelReady
    BY <1>19, <2>1, <2>2, FalseAppended
  <2>3. CASE ~x.modelReady
    BY <1>19, <2>1, <2>3, NoneAnnounced
  <2> QED
    BY <2>2, <2>3
<1>25. r.queue = Append(y.queue, ReadyIs(FALSE))
  <2>1. r.queue = w.queue /\ v.queue = u.queue /\ u.queue = y.queue
    BY <1>20, <1>21, <1>23 DEF Same, Fields
  <2> QED
    BY <1>22, <2>1
<1>26. Announced(p.queue, r.queue, FALSE) /\ r.queue \in Seq(Events)
  <2>1. Announced(y.queue, r.queue, FALSE) /\ r.queue \in Seq(Events)
    BY <1>24, <1>25, FalseAppended
  <2>2. p.queue \in Seq(Events)
    BY <1>1 DEF Sound
  <2> QED
    BY <1>24, <2>1, <2>2, AnnouncedTwice
<1>27. /\ r.reconnecting = FALSE /\ r.reconnectTimer = FALSE /\ r.connected = TRUE
       /\ r.modelReady = FALSE /\ r.credential = FALSE
  <2>1. /\ r.reconnecting = v.reconnecting /\ r.reconnectTimer = v.reconnectTimer
        /\ r.credential = v.credential /\ r.connected = u.connected
        /\ r.modelReady = u.modelReady
    BY <1>21, <1>22, <1>23 DEF Same, Fields, Flags
  <2> QED
    BY <1>20, <1>21, <2>1
<1>28. r.complete = TRUE /\ r.ready = FALSE /\ r.idents = {} /\ r.reported = {}
  <2>1. r.complete = y.complete /\ r.ready = y.ready /\ r.idents = y.idents /\ r.reported = y.reported
    BY <1>20, <1>21, <1>22, <1>23 DEF Same, Fields, Flags
  <2>2. y.complete = x.complete /\ y.ready = f.ready /\ y.idents = f.idents /\ y.reported = f.reported
    BY <1>17, <1>19 DEF Same, Fields, Flags
  <2> QED
    BY <1>15, <1>17, <2>1, <2>2
<1>29. Sound(r)
  <2>1. Sound(u)
    BY <1>19, <1>20, SoundWith DEF Flags
  <2>2. Sound(v)
    BY <1>21, <2>1, SoundWith DEF Flags
  <2>3. w.queue \in Seq(Events)
    BY <1>23, <1>26 DEF Same, Fields
  <2>4. Sound(w)
    BY <1>22, <2>2, <2>3, SoundWith DEF Flags
  <2> QED
    BY <1>23, <2>4, SoundWith DEF Flags
<1>30. /\ r.session = p.session /\ r.live = p.live /\ r.link = p.link /\ r.host = p.host
       /\ r.generation = p.generation /\ r.wakeTimers = p.wakeTimers
       /\ r.bootstrapPending = p.bootstrapPending /\ r.uiReady = p.uiReady
       /\ r.syncAttempts = p.syncAttempts /\ r.unsafe = p.unsafe
       /\ r.wish = p.wish /\ r.pending = p.pending /\ r.syncTimers = p.syncTimers
       /\ r.userDisconnected = p.userDisconnected
  <2>1. /\ y.session = p.session /\ y.live = p.live /\ y.link = p.link /\ y.host = p.host
        /\ y.generation = p.generation /\ y.wakeTimers = p.wakeTimers
        /\ y.bootstrapPending = p.bootstrapPending /\ y.uiReady = p.uiReady
        /\ y.syncAttempts = p.syncAttempts /\ y.unsafe = p.unsafe
        /\ y.wish = p.wish /\ y.pending = p.pending /\ y.syncTimers = p.syncTimers
        /\ y.userDisconnected = p.userDisconnected
    BY <1>15, <1>17, <1>19 DEF Same, Fields, Flags
  <2>2. Same(y, r, {"connected", "modelReady", "reconnecting", "reconnectTimer", "credential",
                    "queue", "delay", "retry", "watchdog", "stage"})
    BY <1>20, <1>21, <1>22, <1>23 DEF Same
  <2> QED
    BY <2>1, <2>2 DEF Same, Fields, Flags
<1>31. \A i \in DOMAIN r.queue : r.queue[i][1] # "ready" =>
          /\ i \in DOMAIN p.queue /\ r.queue[i] = p.queue[i] /\ Of(r.queue[i], r.session)
          /\ r.queue[i][1] # "lanReady"
  <2>1. \A i \in DOMAIN r.queue : r.queue[i][1] # "ready" =>
           i \in DOMAIN p.queue /\ r.queue[i] = p.queue[i]
    BY <1>26 DEF Announced, Shows
  <2> QED
    BY <1>2, <1>4, <1>12, <1>30, <2>1
<1>32. Sorted(r)
  BY <1>1, <1>2, <1>26, <1>30, SortedKept
<1>33. Telling(r)
  <2>1. \A i \in DOMAIN r.queue : Of(r.queue[i], r.session) =>
           i \in DOMAIN p.queue /\ r.queue[i] = p.queue[i]
    BY <1>31 DEF Of
  <2>2. r.session = a.session
    BY <1>4, <1>30
  <2> QED
    BY <1>11, <1>28, <2>1, <2>2 DEF Telling
<1>34. Linked(r)
  <2>1. \A i \in DOMAIN r.queue : Of(r.queue[i], r.session) =>
           i \in DOMAIN p.queue /\ r.queue[i] = p.queue[i] /\ Of(p.queue[i], p.session)
    BY <1>30, <1>31 DEF Of
  <2>2. r.link = "proven" => \A i \in DOMAIN r.queue : Of(r.queue[i], r.session) => r.queue[i][1] # "error"
    BY <1>2, <1>30, <2>1 DEF Linked
  <2>3. r.link = "failed" => \A i \in DOMAIN r.queue : ~(Of(r.queue[i], r.session) /\ Exhausts(r.queue[i]))
    BY <1>1, <1>4, <1>10, <1>30, <2>1
  <2>4. r.live /\ r.link # "off" /\ r.host # 0
    BY <1>2, <1>4, <1>6, <1>9, <1>30 DEF Linked
  <2> QED
    BY <1>4, <1>9, <1>28, <1>30, <2>2, <2>3, <2>4 DEF Linked
<1>35. Read(r)
  BY <1>27, <1>28, <1>31 DEF Read, Waking
<1>36. Panel(r)
  BY <1>24, <1>25, <1>27, <1>28, PanelShown
<1>37. Screened(r)
  <2>1. ASSUME r.uiReady \/ \E j \in DOMAIN r.queue : Shows(r.queue[j], TRUE)
        PROVE  r.syncAttempts = 0
    <3>1. ASSUME NEW j \in DOMAIN r.queue, Shows(r.queue[j], TRUE)
          PROVE  j \in DOMAIN p.queue /\ Shows(p.queue[j], TRUE)
      BY <1>26, <3>1 DEF Announced, Shows
    <3> QED
      BY <1>4, <1>13, <1>14, <1>30, <2>1, <3>1
  <2> QED
    BY <1>28, <2>1 DEF Screened
<1>38. Wanted(r)
  BY <1>2, <1>27, <1>28, <1>30 DEF Wanted
<1>39. Inv(r)
  BY <1>2, <1>29, <1>30, <1>32, <1>33, <1>34, <1>35, <1>36, <1>37, <1>38 DEF Inv
<1> QED
  BY <1>3, <1>39 DEF p

\* An error of the current session's worker is taken from the queue: nothing that
\* waits behind it is a reading or an answer.
LEMMA ErrorPopped ==
    ASSUME NEW a, Inv(a), a.queue # <<>>, Head(a.queue)[1] = "error",
           Of(Head(a.queue), a.session)
    PROVE  LET p == Pop(a)
           IN  /\ Inv(p) /\ p.live /\ Same(a, p, {"queue"}) /\ Head(a.queue)[2] \in Codes
               /\ \A i \in DOMAIN p.queue : p.queue[i][1] # "report"
               /\ Waking(p) => ~p.uiReady
               /\ Exhausts(Head(a.queue)) =>
                     /\ Unproven(p) /\ p.generation \notin p.wakeTimers
                     /\ p.link \in {"silent", "failed"}
                     /\ \A i \in DOMAIN p.queue :
                           ~(Of(p.queue[i], p.session) /\ Exhausts(p.queue[i]))
<1> DEFINE p == Pop(a)
           q == a.queue
           e == Head(q)
<1>1. /\ Sound(p) /\ Same(a, p, {"queue"}) /\ 1 \in DOMAIN q /\ e = q[1] /\ e \in Events
      /\ \A i \in DOMAIN p.queue :
            i \in Nat \ {0} /\ i + 1 \in DOMAIN q /\ p.queue[i] = q[i + 1]
      /\ \A i \in DOMAIN q : i \in Nat \ {0} /\ (i = 1 \/ (i > 1 /\ i - 1 \in DOMAIN p.queue))
  BY PopRecord DEF Inv
<1>2. /\ Sorted(p) /\ Linked(p) /\ Read(p) /\ Wanted(p) /\ ~p.unsafe /\ Panel(p)
      /\ Screened(p) /\ Telling(p)
      /\ \A i \in DOMAIN p.queue : p.queue[i][1] # "ready" => Of(p.queue[i], a.session)
  BY PopKeeps
<1>3. Inv(p)
  BY <1>1, <1>2 DEF Inv
<1>4. e[1] = "error" /\ Of(e, a.session) /\ e[2] \in Codes
  <2>1. e[1] = "error" /\ Of(e, a.session)
    BY DEF e
  <2> QED
    BY <1>1, <2>1, EventFields
<1> HIDE DEF p, e
<1>5. /\ a.session = p.session /\ a.live = p.live /\ a.ready = p.ready /\ a.complete = p.complete
      /\ a.link = p.link /\ a.generation = p.generation /\ a.wakeTimers = p.wakeTimers
      /\ a.uiReady = p.uiReady /\ a.retried = p.retried /\ a.wakes = p.wakes
  BY <1>1 DEF Same, Fields, Flags
<1>6. a.live
  BY <1>1, <1>4 DEF Inv, Sorted, Of
<1>7. \A i \in DOMAIN p.queue : p.queue[i][1] # "report"
  <2>1. \A i \in DOMAIN p.queue : 1 < i + 1
    BY <1>1
  <2>2. \A i \in DOMAIN p.queue : Of(q[i + 1], a.session) => q[i + 1][1] = "error"
    BY <1>1, <1>4, <2>1 DEF Inv, Telling
  <2> QED
    BY <1>1, <1>2, <2>2
<1>8. Waking(p) => ~p.uiReady
  <2> SUFFICES ASSUME Waking(p) PROVE ~a.uiReady
    BY <1>5
  <2>1. Waking(a) /\ ~a.complete
    BY <1>5 DEF Waking
  <2>2. ~a.ready
    BY <2>1 DEF Inv, Read
  <2>3. Corrected(a, 1)
    BY <1>1, <1>4, <1>6, <2>1, <2>2 DEF Inv, Screened
  <2>4. \A k \in DOMAIN q : ~(k < 1)
    BY <1>1
  <2> QED
    BY <2>3, <2>4 DEF Corrected
<1>9. ASSUME Exhausts(e)
      PROVE  /\ Unproven(p) /\ p.generation \notin p.wakeTimers
             /\ p.link \in {"silent", "failed"}
             /\ \A i \in DOMAIN p.queue :
                   ~(Of(p.queue[i], p.session) /\ Exhausts(p.queue[i]))
  <2>1. a.link \in {"silent", "failed"}
    <3>1. ~NoneOf(a)
      BY <1>1, <1>4 DEF NoneOf
    <3>2. a.link # "proven"
      BY <1>1, <1>4 DEF Inv, Linked
    <3> QED
      BY <1>6, <3>1, <3>2 DEF Inv, Linked, Sound, Links
  <2>2. /\ Unproven(a) /\ a.generation \notin a.wakeTimers
        /\ \A j \in DOMAIN q : Of(q[j], a.session) /\ Exhausts(q[j]) => 1 = j
    BY <1>1, <1>4, <1>9, <2>1 DEF Inv, Linked
  <2>3. Unproven(p)
    BY <1>1, <1>5, <2>2 DEF Unproven
  <2>4. \A i \in DOMAIN p.queue : i + 1 # 1
    BY <1>1
  <2>5. ASSUME NEW i \in DOMAIN p.queue, Of(p.queue[i], p.session), Exhausts(p.queue[i])
        PROVE  FALSE
    BY <1>1, <1>5, <2>2, <2>4, <2>5
  <2> QED
    BY <1>5, <2>1, <2>2, <2>3, <2>5
<1> QED
  BY <1>1, <1>3, <1>4, <1>5, <1>6, <1>7, <1>8, <1>9 DEF p, e

\* The session is lost.
LEMMA LossHandled ==
    ASSUME LifecycleAssumption, NEW a, Inv(a), a.live,
           \A i \in DOMAIN a.queue : a.queue[i][1] # "report",
           NEW code \in Codes, code # "CommandPlaneUnavailable"
    PROVE  LET r == onPortError(a, code)
           IN  /\ Inv(r)
               /\ code = "Disconnected" /\ a.uiReady /\ a.connected =>
                     r.reconnectTimer /\ r.reconnecting
<1> DEFINE x == [a EXCEPT !.generation = @ + 1, !.bootstrapPending = FALSE]
           b == shutdownConnection(x, FALSE, a.complete)
           c == [b EXCEPT !.host = 0,
                          !.stage = IF code = "Disconnected" THEN "Disconnected" ELSE "Failed"]
           r == onPortError(a, code)
<1>1. r = onBackendError(c, code)
  BY DEF onPortError
<1>2. Sound(a) /\ Basic(a)
  BY InvBasic DEF Inv
<1>3. /\ DOMAIN x = Fields /\ Same(a, x, {"generation", "bootstrapPending"})
      /\ x.generation = a.generation + 1 /\ x.bootstrapPending = FALSE
  BY <1>2 DEF Sound, Same, Fields, Flags
<1> HIDE DEF x
<1>4. /\ a.generation \in Nat /\ a.wakeTimers \subseteq 0 .. a.generation
      /\ a.complete \in BOOLEAN /\ a.queue \in Seq(Events)
  BY <1>2 DEF Sound, Flags
<1>5. x.wakeTimers = a.wakeTimers /\ x.complete = a.complete
  BY <1>3 DEF Same, Fields, Flags
<1>6. x.generation \in Nat /\ x.wakeTimers \subseteq 0 .. x.generation
  BY <1>3, <1>4, <1>5
<1>7. Sound(x)
  BY <1>2, <1>3, <1>6, SoundWith DEF Flags
<1>8. Basic(x) /\ x.live = a.live /\ x.queue = a.queue
  <2>1. {"generation", "bootstrapPending"} \cap Essence = {}
    BY DEF Essence
  <2> QED
    BY <1>2, <1>3, <1>7, <2>1, BasicKept
<1>9. /\ Quiet(b) /\ Announced(a.queue, b.queue, FALSE) /\ Same(x, b, Closing) /\ ~b.ready
  BY <1>4, <1>5, <1>8, ShutdownEnds
<1> HIDE DEF b
<1>10. DOMAIN c = Fields /\ Same(b, c, {"host", "stage"}) /\ c.host = 0
  BY <1>9 DEF Quiet, Basic, Sound, Same, Fields
<1> HIDE DEF c
<1>11. Sound(c)
  BY <1>9, <1>10, SoundWith DEF Quiet, Basic, Flags
<1>12. Quiet(c) /\ c.queue = b.queue
  BY <1>9, <1>10, <1>11, BasicKept DEF Quiet, Essence
<1>13. Told(c, r, code)
  BY <1>1, <1>11, ErrorTold
<1> HIDE DEF r
<1>14. Quiet(r) /\ Announced(c.queue, r.queue, FALSE)
  BY <1>12, <1>13, ToldQuiet
<1>15. /\ c.uiReady = a.uiReady /\ c.userDisconnected = a.userDisconnected
       /\ c.pending = a.pending /\ c.connected = a.connected /\ c.wish = a.wish
       /\ c.generation = x.generation /\ c.wakeTimers = a.wakeTimers
       /\ c.bootstrapPending = x.bootstrapPending /\ c.ready = b.ready
       /\ c.retried = a.retried /\ c.wakes = a.wakes /\ c.complete = a.complete
       /\ c.syncTimers = a.syncTimers
  BY <1>3, <1>9, <1>10 DEF Same, Fields, Flags, Closing, Aside
<1>16. /\ r.pending = c.pending /\ r.wish = c.wish /\ r.host = c.host
       /\ r.generation = c.generation /\ r.wakeTimers = c.wakeTimers
       /\ r.bootstrapPending = c.bootstrapPending /\ r.ready = c.ready
       /\ r.retried = c.retried /\ r.wakes = c.wakes /\ r.complete = c.complete
       /\ r.syncTimers = c.syncTimers
  BY <1>13 DEF Told, Same, Fields, Flags, Window
<1>17. a.wish = "connect" /\ ~a.userDisconnected /\ a.pending # 0
  BY DEF Inv, Wanted
<1>18. Wanted(r)
  <2>1. ~r.userDisconnected
    <3>1. c.connected \in BOOLEAN
      BY <1>11 DEF Sound, Flags
    <3> QED
      BY <1>13, <1>15, <1>17, <3>1 DEF Told
  <2>2. r.host \notin r.syncTimers
    BY <1>10, <1>14, <1>16 DEF Quiet, Basic, Sound, LifecycleAssumption
  <2>3. ~r.live /\ r.bootstrapPending = FALSE
    BY <1>3, <1>14, <1>15, <1>16 DEF Quiet
  <2> QED
    BY <1>15, <1>16, <1>17, <2>1, <2>2, <2>3 DEF Wanted
<1>19. \A i \in DOMAIN r.queue : r.queue[i][1] # "report"
  <2>1. Announced(a.queue, r.queue, FALSE)
    BY <1>4, <1>9, <1>12, <1>14, AnnouncedTwice
  <2> QED
    BY <2>1 DEF Announced, Shows
<1>20. r.generation \notin r.wakeTimers
  BY <1>3, <1>4, <1>15, <1>16
<1>21. r.bootstrapPending = FALSE /\ ~r.ready
  BY <1>3, <1>9, <1>15, <1>16
<1>22. Inv(r)
  BY <1>14, <1>18, <1>19, <1>20, <1>21, QuietInv
<1>23. code = "Disconnected" /\ a.uiReady /\ a.connected => r.reconnectTimer /\ r.reconnecting
  BY <1>13, <1>15, <1>17 DEF Told
<1> QED
  BY <1>22, <1>23 DEF r

\* The radio's command plane did not answer: another session, a command that
\* wakes the radio, or the end.
LEMMA ExhaustionHandled ==
    ASSUME LifecycleAssumption, NEW a, Inv(a), a.live,
           \A i \in DOMAIN a.queue : a.queue[i][1] # "report",
           Waking(a) => ~a.uiReady, Unproven(a), a.generation \notin a.wakeTimers,
           a.link \in {"silent", "failed"},
           \A i \in DOMAIN a.queue : ~(Of(a.queue[i], a.session) /\ Exhausts(a.queue[i]))
    PROVE  Inv(onPortError(a, "CommandPlaneUnavailable"))
<1> DEFINE r == onPortError(a, "CommandPlaneUnavailable")
           again == [a EXCEPT !.retried = TRUE]
           wake == [a EXCEPT !.wakes = @ + 1, !.stage = "WaitingForRadio",
                             !.wakeTimers = @ \cup {a.generation}]
           b == shutdownConnection(a, TRUE, FALSE)
           c == [b EXCEPT !.stage = "Failed", !.wish = "stopped"]
<1>1. Sound(a) /\ Basic(a)
  BY InvBasic DEF Inv
<1>2. /\ a.complete = FALSE /\ a.wakes \in 0 .. 2 /\ a.retried \in BOOLEAN
      /\ a.generation \in Nat /\ a.wakeTimers \subseteq 0 .. a.generation
      /\ a.queue \in Seq(Events)
  BY <1>1 DEF Unproven, Sound, Flags, kMaxWakeAttempts
<1>3. r = IF ~a.retried /\ a.wakes = 0 THEN reconnectBootstrapSession(again)
          ELSE IF a.wakes < kMaxWakeAttempts THEN wake
          ELSE onBackendError(c, "CommandPlaneUnavailable")
  BY <1>2 DEF onPortError, handleCommandPlaneUnavailable, wakeExhausted
<1>4. a.wish = "connect" /\ ~a.userDisconnected /\ a.pending # 0 /\ a.host # 0
  BY DEF Inv, Wanted, Linked
<1>5. Retrying(a) => ~a.reconnectTimer /\ a.syncTimers = {}
  BY <1>2 DEF Inv, Wanted
<1>6. CASE ~a.retried /\ a.wakes = 0
  <2>1. DOMAIN again = Fields /\ Same(a, again, {"retried"}) /\ again.retried = TRUE
    BY <1>1 DEF Sound, Same, Fields, Flags
  <2>2. r = reconnectBootstrapSession(again)
    BY <1>3, <1>6
  <2> HIDE DEF again, r
  <2>3. Sound(again)
    BY <1>1, <2>1, SoundWith DEF Flags
  <2>4. Basic(again) /\ again.live = a.live /\ again.queue = a.queue
    <3>1. {"retried"} \cap Essence = {}
      BY DEF Essence
    <3> QED
      BY <1>1, <2>1, <2>3, <3>1, BasicKept
  <2>5. /\ again.complete = a.complete /\ again.host = a.host /\ again.wish = a.wish
        /\ again.userDisconnected = a.userDisconnected /\ again.pending = a.pending
        /\ again.generation = a.generation /\ again.wakeTimers = a.wakeTimers
        /\ again.wakes = a.wakes
    BY <2>1 DEF Same, Fields, Flags
  <2>6. ~Retrying(again)
    BY <1>6, <2>5 DEF Retrying
  <2>7. Inv(r)
    BY <1>2, <1>4, <2>2, <2>4, <2>5, <2>6, BootstrapKeeps
  <2> QED
    BY <2>7 DEF r
<1>7. CASE ~(~a.retried /\ a.wakes = 0) /\ a.wakes < kMaxWakeAttempts
  <2>1. r = wake
    BY <1>3, <1>7
  <2>2. /\ DOMAIN wake = Fields /\ Same(a, wake, {"wakes", "stage", "wakeTimers"})
        /\ wake.wakes = a.wakes + 1 /\ wake.wakeTimers = a.wakeTimers \cup {a.generation}
    BY <1>1 DEF Sound, Same, Fields
  <2> HIDE DEF wake, r
  <2>3. /\ wake.queue = a.queue /\ wake.session = a.session /\ wake.live = a.live
        /\ wake.uiReady = a.uiReady /\ wake.connected = a.connected
        /\ wake.modelReady = a.modelReady /\ wake.ready = a.ready
        /\ wake.link = a.link /\ wake.watchdog = a.watchdog /\ wake.idents = a.idents
        /\ wake.unsafe = a.unsafe
    BY <2>2 DEF Same, Fields, Flags
  <2>4. /\ wake.complete = a.complete /\ wake.generation = a.generation
        /\ wake.bootstrapPending = a.bootstrapPending /\ wake.host = a.host
        /\ wake.reported = a.reported /\ wake.reconnectTimer = a.reconnectTimer
        /\ wake.syncAttempts = a.syncAttempts /\ wake.retried = a.retried
        /\ wake.syncTimers = a.syncTimers /\ wake.reconnecting = a.reconnecting
        /\ wake.wish = a.wish /\ wake.pending = a.pending
        /\ wake.userDisconnected = a.userDisconnected
    BY <2>2 DEF Same, Fields, Flags
  <2>5. Sound(wake)
    <3>1. wake.wakeTimers \subseteq 0 .. wake.generation
      BY <1>2, <2>2, <2>4
    <3>2. wake.wakes \in 0 .. kMaxWakeAttempts
      BY <1>2, <1>7, <2>2 DEF kMaxWakeAttempts
    <3> QED
      BY <1>1, <2>2, <3>1, <3>2, SoundWith DEF Flags
  <2>6. Waking(a)
    BY <1>2, <1>7 DEF Waking
  <2>7. Sorted(wake) /\ Telling(wake)
    BY <2>3, <2>4 DEF Inv, Sorted, Telling
  <2>8. Linked(wake)
    <3>1. Unproven(wake)
      BY <2>3, <2>4 DEF Unproven
    <3>2. \A i \in DOMAIN wake.queue :
             ~(Of(wake.queue[i], wake.session) /\ Exhausts(wake.queue[i]))
      BY <2>3
    <3>3. /\ wake.live <=> wake.link # "off"
          /\ wake.live => wake.host # 0
          /\ wake.bootstrapPending => ~wake.live /\ ~wake.complete
          /\ wake.watchdog => wake.live /\ wake.complete
      BY <2>3, <2>4 DEF Inv, Linked
    <3>4. wake.link \in {"silent", "failed"}
      BY <2>3
    <3> QED
      BY <3>1, <3>2, <3>3, <3>4 DEF Linked
  <2>9. Read(wake)
    <3>1. ~wake.ready
      BY <2>3, <2>6 DEF Inv, Read
    <3> QED
      BY <1>2, <2>3, <2>4, <3>1 DEF Read, Proven
  <2>10. Panel(wake) /\ Screened(wake)
    <3>1. Panel(wake)
      BY <2>3, PanelKept DEF Inv
    <3> QED
      BY <2>3, <2>4, <3>1, Zenon DEF Inv, Screened, Corrected, Proven
  <2>11. Wanted(wake)
    <3>1. Retrying(wake) => Retrying(a)
      BY <1>2, <2>2, <2>4 DEF Retrying
    <3> QED
      BY <2>3, <2>4, <3>1 DEF Inv, Wanted
  <2>12. Inv(wake)
    BY <2>3, <2>5, <2>7, <2>8, <2>9, <2>10, <2>11 DEF Inv
  <2> QED
    BY <2>1, <2>12 DEF r
<1>8. CASE a.wakes = 2
  <2>1. r = onBackendError(c, "CommandPlaneUnavailable")
    BY <1>3, <1>8 DEF kMaxWakeAttempts
  <2>2. ~Pursues(a)
    BY <1>2, <1>8 DEF Pursues, Waking
  <2>3. /\ Quiet(b) /\ Announced(a.queue, b.queue, FALSE)
        /\ Same(a, b, Closing \cup Window) /\ ~b.ready /\ ~b.connected
        /\ ~b.reconnecting /\ ~b.userDisconnected /\ b.reconnectTimer = a.reconnectTimer
    BY <1>1, <1>2, <2>2, ShutdownTells
  <2> HIDE DEF b
  <2>4. DOMAIN c = Fields /\ Same(b, c, {"stage", "wish"}) /\ c.wish = "stopped"
    BY <2>3 DEF Quiet, Basic, Sound, Same, Fields
  <2> HIDE DEF c, r
  <2>5. Sound(c)
    BY <2>3, <2>4, SoundWith DEF Quiet, Basic, Flags
  <2>6. Quiet(c) /\ c.queue = b.queue
    BY <2>3, <2>4, <2>5, BasicKept DEF Quiet, Essence
  <2>7. Told(c, r, "CommandPlaneUnavailable")
    BY <2>1, <2>5, ErrorTold DEF Codes
  <2>8. Quiet(r) /\ Announced(c.queue, r.queue, FALSE)
    BY <2>6, <2>7, ToldQuiet
  <2>9. /\ c.connected = b.connected /\ c.reconnecting = b.reconnecting
        /\ c.reconnectTimer = b.reconnectTimer /\ c.ready = b.ready
        /\ c.bootstrapPending = a.bootstrapPending /\ c.generation = a.generation
        /\ c.wakeTimers = a.wakeTimers /\ c.syncTimers = a.syncTimers
        /\ c.complete = a.complete
    BY <2>3, <2>4 DEF Same, Fields, Flags, Closing, Aside, Window
  <2>10. /\ r.bootstrapPending = c.bootstrapPending /\ r.generation = c.generation
         /\ r.wakeTimers = c.wakeTimers /\ r.syncTimers = c.syncTimers /\ r.ready = c.ready
         /\ r.complete = c.complete /\ r.wish = c.wish
    BY <2>7 DEF Told, Same, Fields, Flags, Window
  <2>11. ~r.reconnecting
    BY <2>3, <2>7, <2>9 DEF Told, isAutomaticReconnectError
  <2>12. ~a.bootstrapPending
    BY DEF Inv, Linked
  <2>13. a.syncTimers = {}
    BY <1>5, <1>8 DEF Retrying
  <2>14. Wanted(r)
    BY <2>4, <2>8, <2>9, <2>10, <2>11, <2>12, <2>13 DEF Wanted, Quiet
  <2>15. \A i \in DOMAIN r.queue : r.queue[i][1] # "report"
    <3>1. Announced(a.queue, r.queue, FALSE)
      BY <1>2, <2>3, <2>6, <2>8, AnnouncedTwice
    <3> QED
      BY <3>1 DEF Announced, Shows
  <2>16. ~r.ready /\ ~r.bootstrapPending /\ r.generation \notin r.wakeTimers
    BY <2>3, <2>9, <2>10, <2>12
  <2>17. Inv(r)
    BY <2>8, <2>14, <2>15, <2>16, QuietInv
  <2> QED
    BY <2>17 DEF r
<1> QED
  BY <1>2, <1>6, <1>7, <1>8 DEF kMaxWakeAttempts

\* An event is handled; the loss of a session that the panel showed is pursued.
LEMMA HandleEventKeeps ==
    ASSUME LifecycleAssumption, Inv(app), HandleEvent
    PROVE  /\ Inv(app)'
           /\ Loses => app'.reconnectTimer /\ app'.reconnecting
<1> DEFINE e == Head(app.queue)
           p == Pop(app)
<1>1. app.queue # <<>> /\ app' = handled(p, e)
  BY DEF HandleEvent, Pop
<1>2. /\ Sound(p) /\ Same(app, p, {"queue"}) /\ e \in Events
  BY <1>1, PopRecord DEF Inv
<1>3. e[1] \in {"ready", "report", "lanReady", "error"} /\ e[3] \in Nat
  BY <1>2, EventFields
<1>4. p.session = app.session
  BY <1>2 DEF Same, Fields
<1>5. ASSUME Loses PROVE e[1] = "error" /\ e[2] = "Disconnected" /\ e[3] = app.session
  BY <1>5 DEF Loses
<1>6. CASE e[1] = "ready"
  <2>1. app' = onRadioReadyChanged(p, e[2])
    BY <1>1, <1>6 DEF handled
  <2> QED
    BY <1>1, <1>5, <1>6, <2>1, ReadyHandled
<1>7. CASE e[1] = "report"
  <2>1. app' = identityReported(p, e[2], e[3])
    BY <1>1, <1>7 DEF handled
  <2> QED
    BY <1>1, <1>5, <1>7, <2>1, ReportHandled
<1>8. CASE e[1] = "lanReady" /\ Of(e, app.session)
  <2>1. app' = onLanReady(p)
    BY <1>1, <1>4, <1>8 DEF handled, Of
  <2> QED
    BY <1>1, <1>5, <1>8, <2>1, AnswerHandled
<1>9. CASE e[1] = "error" /\ Of(e, app.session)
  <2>1. app' = onPortError(p, e[2])
    BY <1>1, <1>4, <1>9 DEF handled, Of
  <2>2. /\ Inv(p) /\ p.live /\ e[2] \in Codes
        /\ \A i \in DOMAIN p.queue : p.queue[i][1] # "report"
        /\ Waking(p) => ~p.uiReady
        /\ Exhausts(e) =>
              /\ Unproven(p) /\ p.generation \notin p.wakeTimers
              /\ p.link \in {"silent", "failed"}
              /\ \A i \in DOMAIN p.queue :
                    ~(Of(p.queue[i], p.session) /\ Exhausts(p.queue[i]))
    BY <1>1, <1>9, ErrorPopped
  <2>3. p.uiReady = app.uiReady /\ p.connected = app.connected
    BY <1>2 DEF Same, Fields, Flags
  <2> HIDE DEF p, e
  <2>4. CASE e[2] = "CommandPlaneUnavailable"
    <3>1. Exhausts(e)
      BY <1>9, <2>4 DEF Exhausts
    <3> QED
      BY <1>5, <2>1, <2>2, <2>4, <3>1, ExhaustionHandled
  <2>5. CASE e[2] # "CommandPlaneUnavailable"
    <3>1. /\ Inv(app')
          /\ e[2] = "Disconnected" /\ p.uiReady /\ p.connected =>
                app'.reconnectTimer /\ app'.reconnecting
      BY <2>1, <2>2, <2>5, LossHandled
    <3> QED
      BY <1>5, <2>3, <3>1 DEF Loses
  <2> QED
    BY <2>4, <2>5
<1>10. CASE e[1] \in {"lanReady", "error"} /\ ~Of(e, app.session)
  <2>1. app' = p
    BY <1>1, <1>4, <1>10 DEF handled, Of
  <2>2. Inv(p)
    BY <1>1, <1>2, <1>10, PopKeeps DEF Inv
  <2> QED
    BY <1>5, <1>10, <2>1, <2>2 DEF Of
<1> QED
  BY <1>3, <1>6, <1>7, <1>8, <1>9, <1>10 DEF Of

-----------------------------------------------------------------------------
(* The session's worker.                                                   *)

LEMMA LeastExists ==
    ASSUME NEW S \in SUBSET Nat, S # {} PROVE \E x \in S : \A y \in S : x <= y
<1> DEFINE R == {p \in Nat \X Nat : p[1] < p[2]}
<1>1. IsWellFoundedOn(R, Nat)
  BY NatLessThanWellFounded, Zenon DEF OpToRel
<1> HIDE DEF R
<1>2. \E x \in S : \A y \in S : ~(<<y, x>> \in R)
  BY <1>1, WFMin, Zenon
<1>3. \A x, y \in S : ~(<<y, x>> \in R) => x <= y
  BY DEF R
<1> QED
  BY <1>2, <1>3, Zenon

\* The newest announcement that waits.
LEMMA NewestReady ==
    ASSUME NEW q \in Seq(Events), NEW m \in DOMAIN q, q[m][1] = "ready"
    PROVE  \E k \in DOMAIN q : q[k][1] = "ready" /\ \A j \in DOMAIN q : j > k => q[j][1] # "ready"
<1> DEFINE S == {n \in 0 .. Len(q) - 1 : q[Len(q) - n][1] = "ready"}
<1>1. DOMAIN q = 1 .. Len(q) /\ Len(q) \in Nat
  BY QueueDomain
<1>2. Len(q) - m \in S
  BY <1>1
<1>3. S \in SUBSET Nat /\ S # {}
  BY <1>1, <1>2
<1>4. PICK n \in S : \A y \in S : n <= y
  BY <1>3, LeastExists
<1>5. Len(q) - n \in DOMAIN q /\ q[Len(q) - n][1] = "ready"
  BY <1>1, <1>4
<1>6. \A j \in DOMAIN q : j > Len(q) - n => q[j][1] # "ready"
  <2> SUFFICES ASSUME NEW j \in DOMAIN q, j > Len(q) - n, q[j][1] = "ready" PROVE FALSE
    OBVIOUS
  <2>1. Len(q) - j \in S /\ Len(q) - j < n
    <3>1. Len(q) - j \in 0 .. Len(q) - 1 /\ Len(q) - (Len(q) - j) = j
      BY <1>1
    <3>2. n \in Nat
      BY <1>3, <1>4
    <3> QED
      BY <1>1, <3>1, <3>2
  <2> QED
    BY <1>3, <1>4, <2>1
<1> QED
  BY <1>5, <1>6

\* What a worker says last while the radio is not ready, the window hears after it
\* has been corrected.
LEMMA LastCorrected ==
    ASSUME NEW a, NEW b, Sound(a), Panel(a), ~a.ready, NEW e \in Events, e[1] # "ready",
           b.queue = Append(a.queue, e), b.uiReady = a.uiReady
    PROVE  Corrected(b, Len(a.queue) + 1)
<1> DEFINE q == a.queue
           r == b.queue
           n == Len(q) + 1
<1>1. /\ q \in Seq(Events) /\ Len(q) \in Nat /\ DOMAIN q = 1 .. Len(q) /\ DOMAIN r = 1 .. n
      /\ \A i \in 1 .. Len(q) : r[i] = q[i]
      /\ r[n] = e /\ n = Len(q) + 1
  BY Appended DEF Sound
<1>2. a.modelReady = FALSE
  BY DEF Panel, Sound, Flags
<1> HIDE DEF q, r, n
<1>3. \A j \in DOMAIN r : ~(j > n)
  BY <1>1
<1>4. ASSUME \E m \in DOMAIN q : q[m][1] = "ready" PROVE Corrected(b, n)
  <2>1. PICK k \in DOMAIN q : q[k][1] = "ready" /\ \A j \in DOMAIN q : j > k => q[j][1] # "ready"
    BY <1>1, <1>4, NewestReady
  <2>2. q[k] \in Events
    BY <1>1, ElementOfSeq
  <2>3. q[k][2] = FALSE
    <3>1. q[k][2] \in BOOLEAN
      BY <2>1, <2>2, EventFields
    <3>2. q[k][2] <=> a.modelReady
      BY <2>1 DEF Panel, q
    <3> QED
      BY <1>2, <3>1, <3>2
  <2>4. k \in DOMAIN r /\ k < n /\ r[k] = q[k]
    BY <1>1
  <2>5. \A j \in DOMAIN r : k < j /\ j < n => j \in DOMAIN q /\ r[j] = q[j]
    BY <1>1
  <2>6. Shows(r[k], FALSE)
    BY <2>1, <2>3, <2>4 DEF Shows
  <2>7. \A j \in DOMAIN r : k < j /\ j < n => ~Shows(r[j], TRUE)
    BY <2>1, <2>5 DEF Shows
  <2> QED
    BY <1>3, <2>4, <2>6, <2>7 DEF Corrected, r
<1>5. ASSUME \A m \in DOMAIN q : q[m][1] # "ready" PROVE Corrected(b, n)
  <2>1. ~a.uiReady
    BY <1>2, <1>5 DEF Panel, q
  <2>2. \A j \in DOMAIN r : j < n => j \in DOMAIN q /\ r[j] = q[j]
    BY <1>1
  <2>3. \A j \in DOMAIN r : j < n => ~Shows(r[j], TRUE)
    BY <1>5, <2>2 DEF Shows
  <2> QED
    BY <1>3, <2>1, <2>3 DEF Corrected, r
<1> QED
  BY <1>4, <1>5 DEF n, q

\* The worker tells something; what it has come to and told stays in order.
LEMMA WorkerTells ==
    ASSUME NEW a, Inv(a), a.live, NEW e \in Events, Of(e, a.session), NEW b, Sound(b),
           Same(a, b, {"queue", "link", "asked"}), b.queue = Append(a.queue, e),
           e[1] = "lanReady" => ~a.complete, Telling(b), Linked(b)
    PROVE  Inv(b) /\ Extends(a.queue, b.queue)
<1> DEFINE q == a.queue
           r == b.queue
           n == Len(q) + 1
<1>1. /\ q \in Seq(Events) /\ Len(q) \in Nat /\ DOMAIN q = 1 .. Len(q) /\ DOMAIN r = 1 .. n
      /\ \A i \in 1 .. Len(q) : r[i] = q[i]
      /\ r[n] = e
  BY Appended DEF Inv, Sound
<1>2. Extends(q, r)
  BY <1>1, AppendExtends
<1>3. /\ b.session = a.session /\ b.live = a.live /\ b.uiReady = a.uiReady
      /\ b.connected = a.connected /\ b.modelReady = a.modelReady /\ b.ready = a.ready
      /\ b.watchdog = a.watchdog /\ b.idents = a.idents /\ b.unsafe = a.unsafe
  BY DEF Same, Fields, Flags
<1>4. /\ b.complete = a.complete /\ b.generation = a.generation /\ b.wakeTimers = a.wakeTimers
      /\ b.bootstrapPending = a.bootstrapPending /\ b.host = a.host /\ b.reported = a.reported
      /\ b.reconnectTimer = a.reconnectTimer /\ b.syncAttempts = a.syncAttempts
      /\ b.retried = a.retried /\ b.wakes = a.wakes /\ b.syncTimers = a.syncTimers
      /\ b.reconnecting = a.reconnecting /\ b.wish = a.wish /\ b.pending = a.pending
      /\ b.userDisconnected = a.userDisconnected
  BY DEF Same, Fields, Flags
<1>5. /\ n \in DOMAIN r /\ n \notin DOMAIN q
      /\ \A i \in DOMAIN q : i \in DOMAIN r /\ r[i] = q[i] /\ i < n
      /\ \A i \in DOMAIN r : i \in Nat /\ (i = n \/ i \in DOMAIN q) /\ ~(i > n)
  BY <1>1
<1> HIDE DEF q, r
<1>6. Sorted(b)
  <2>1. a.session \in Nat /\ \A i \in DOMAIN q : q[i][3] \in Nat
    <3>1. \A i \in DOMAIN q : q[i] \in Events
      BY <1>1, ElementOfSeq
    <3> QED
      BY <3>1, EventFields DEF Inv, Sound
  <2>2. \A i \in DOMAIN r : r[i][1] # "ready" =>
           r[i][3] <= b.session /\ (r[i][3] = b.session => b.live)
    <3>1. \A i \in DOMAIN q : q[i][1] # "ready" => q[i][3] <= a.session
      BY DEF Inv, Sorted, q
    <3> QED
      BY <1>1, <1>3, <1>5, <2>1, <3>1 DEF Of
  <2>3. \A i, j \in DOMAIN r :
           i < j /\ r[i][1] # "ready" /\ r[j][1] # "ready" => r[i][3] <= r[j][3]
    <3> SUFFICES ASSUME NEW i \in DOMAIN r, NEW j \in DOMAIN r, i < j,
                        r[i][1] # "ready", r[j][1] # "ready"
                 PROVE  r[i][3] <= r[j][3]
      OBVIOUS
    <3>1. i # n
      BY <1>1
    <3>2. i \in DOMAIN q /\ r[i] = q[i]
      BY <1>5, <3>1
    <3>3. CASE j = n
      BY <1>1, <2>2, <1>3, <3>3 DEF Of
    <3>4. CASE j # n
      BY <1>5, <3>2, <3>4 DEF Inv, Sorted, q
    <3> QED
      BY <3>3, <3>4
  <2> QED
    BY <2>2, <2>3, Zenon DEF Sorted, r
<1>7. \A i \in DOMAIN r : r[i][1] = "report" /\ i = n => Of(r[i], a.session)
  BY <1>1
<1>8. Read(b)
  <2>1. Proven(b) =>
          /\ b.idents = b.reported /\ ~b.reconnectTimer
          /\ \A i \in DOMAIN r : /\ r[i][1] = "report" => Of(r[i], b.session)
                                 /\ r[i][1] = "lanReady" => ~Of(r[i], b.session)
    <3> SUFFICES ASSUME Proven(b)
                 PROVE  /\ b.idents = b.reported /\ ~b.reconnectTimer
                        /\ \A i \in DOMAIN r : /\ r[i][1] = "report" => Of(r[i], b.session)
                                               /\ r[i][1] = "lanReady" => ~Of(r[i], b.session)
      OBVIOUS
    <3>1. /\ a.idents = a.reported /\ ~a.reconnectTimer
          /\ \A i \in DOMAIN q : /\ q[i][1] = "report" => Of(q[i], a.session)
                                 /\ q[i][1] = "lanReady" => ~Of(q[i], a.session)
      BY <1>3, <1>4 DEF Inv, Read, Proven, q
    <3>2. e[1] # "lanReady"
      BY <1>4 DEF Proven
    <3> QED
      BY <1>1, <1>3, <1>4, <1>5, <3>1, <3>2
  <2>2. b.ready => b.idents = Identity /\ b.syncAttempts = 0
    BY <1>3, <1>4 DEF Inv, Read
  <2>3. Waking(b) => ~b.ready /\ \A i \in DOMAIN r : r[i][1] = "report" => Of(r[i], b.session)
    <3>1. Waking(b) => ~a.ready /\ \A i \in DOMAIN q : q[i][1] = "report" => Of(q[i], a.session)
      BY <1>4 DEF Inv, Read, Waking, q
    <3> QED
      BY <1>1, <1>3, <1>5, <3>1
  <2> QED
    BY <2>1, <2>2, <2>3 DEF Read, r
<1>9. e[1] # "ready"
  BY DEF Of
<1>10. Panel(b)
  <2>1. /\ a.uiReady => a.connected
        /\ a.modelReady => a.ready
        /\ a.connected /\ a.ready => a.modelReady
        /\ (\A i \in DOMAIN q : q[i][1] # "ready") => (a.uiReady <=> a.connected /\ a.modelReady)
        /\ \A i \in DOMAIN q :
              q[i][1] = "ready" /\ (\A j \in DOMAIN q : j > i => q[j][1] # "ready")
                  => (q[i][2] <=> a.modelReady)
    BY DEF Inv, Panel, q
  <2>2. ASSUME \A i \in DOMAIN r : r[i][1] # "ready" PROVE a.uiReady <=> a.connected /\ a.modelReady
    BY <1>5, <2>1, <2>2
  <2>3. ASSUME NEW i \in DOMAIN r, r[i][1] = "ready",
               \A j \in DOMAIN r : j > i => r[j][1] # "ready"
        PROVE  r[i][2] <=> a.modelReady
    <3>1. i \in DOMAIN q /\ r[i] = q[i]
      BY <1>1, <1>5, <1>9, <2>3
    <3> QED
      BY <1>5, <2>1, <2>3, <3>1
  <2> QED
    BY <1>3, <2>1, <2>2, <2>3 DEF Panel, r
<1>11. Screened(b)
  <2>1. ASSUME b.live, ~b.complete, ~b.ready, NEW i \in DOMAIN r, Of(r[i], b.session)
        PROVE  Corrected(b, i)
    <3>1. CASE i = n
      BY <1>3, <1>9, <2>1, <3>1, LastCorrected DEF Inv, n, q
    <3>2. CASE i # n
      <4>1. i \in DOMAIN q /\ r[i] = q[i] /\ i < n
        BY <1>5, <3>2
      <4>2. Corrected(a, i)
        BY <1>3, <1>4, <2>1, <4>1 DEF Inv, Screened, q
      <4>3. \A j \in DOMAIN r : Shows(r[j], TRUE) => j \in DOMAIN q /\ r[j] = q[j]
        BY <1>1, <1>5, <1>9 DEF Shows
      <4>4. \A j \in DOMAIN q : j \in DOMAIN r /\ r[j] = q[j]
        BY <1>5
      <4>5. \A j \in DOMAIN r : j > i => ~Shows(r[j], TRUE)
        BY <4>2, <4>3 DEF Corrected, q
      <4>6. ASSUME b.uiReady \/ \E j \in DOMAIN r : j < i /\ Shows(r[j], TRUE)
            PROVE  \E k \in DOMAIN r : /\ k < i /\ Shows(r[k], FALSE)
                                       /\ \A j \in DOMAIN r : k < j /\ j < i => ~Shows(r[j], TRUE)
        <5>1. a.uiReady \/ \E j \in DOMAIN q : j < i /\ Shows(q[j], TRUE)
          BY <1>3, <4>3, <4>6
        <5>2. PICK k \in DOMAIN q : /\ k < i /\ Shows(q[k], FALSE)
                                    /\ \A j \in DOMAIN q : k < j /\ j < i => ~Shows(q[j], TRUE)
          BY <4>2, <5>1 DEF Corrected, q
        <5> QED
          BY <4>3, <4>4, <5>2
      <4> QED
        BY <4>5, <4>6, Zenon DEF Corrected, r
    <3> QED
      BY <3>1, <3>2
  <2>2. ASSUME Proven(b), ~b.ready, b.uiReady \/ \E j \in DOMAIN r : Shows(r[j], TRUE)
        PROVE  b.syncAttempts = 0
    <3>1. a.uiReady \/ \E j \in DOMAIN q : Shows(q[j], TRUE)
      BY <1>1, <1>3, <1>5, <1>9, <2>2 DEF Shows
    <3> QED
      BY <1>3, <1>4, <2>2, <3>1 DEF Inv, Screened, Proven, q
  <2> QED
    BY <2>1, <2>2 DEF Screened, r
<1>12. Wanted(b)
  BY <1>3, <1>4 DEF Inv, Wanted, Retrying
<1>13. ~b.unsafe
  BY <1>3 DEF Inv
<1>14. Inv(b)
  BY <1>6, <1>8, <1>10, <1>11, <1>12, <1>13, Zenon DEF Inv
<1> QED
  BY <1>2, <1>14 DEF q, r

\* The record after a worker has signalled.
LEMMA Signalled ==
    ASSUME NEW a, NEW x, Sound(a), Sound(x), Same(a, x, {"link", "asked"}), NEW kind, NEW arg,
           <<kind, arg, a.session>> \in Events, kind # "ready"
    PROVE  LET b == Signal(x, kind, arg)
               e == <<kind, arg, a.session>>
               n == Len(a.queue) + 1
           IN  /\ Sound(b) /\ Same(a, b, {"queue", "link", "asked"})
               /\ b.queue = Append(a.queue, e) /\ b.link = x.link /\ Of(e, a.session)
               /\ n \in DOMAIN b.queue /\ b.queue[n] = e
               /\ \A i \in DOMAIN a.queue :
                     i \in DOMAIN b.queue /\ b.queue[i] = a.queue[i] /\ i < n
               /\ \A i \in DOMAIN b.queue : i = n \/ i \in DOMAIN a.queue
               /\ \A i, j \in DOMAIN b.queue : i < j => i \in DOMAIN a.queue
<1> DEFINE b == Signal(x, kind, arg)
           e == <<kind, arg, a.session>>
           n == Len(a.queue) + 1
<1>1. x.session = a.session /\ x.queue = a.queue
  BY DEF Same, Fields
<1>2. DOMAIN b = Fields /\ Same(x, b, {"queue"}) /\ b.queue = Append(a.queue, e)
  BY <1>1 DEF Signal, Post, Sound, Same, Fields
<1>3. Of(e, a.session)
  BY DEF Of
<1>4. e \in Events
  OBVIOUS
<1> HIDE DEF b, e
<1>5. /\ b.queue \in Seq(Events) /\ Len(a.queue) \in Nat /\ DOMAIN a.queue = 1 .. Len(a.queue)
      /\ DOMAIN b.queue = 1 .. n
      /\ \A i \in 1 .. Len(a.queue) : b.queue[i] = a.queue[i]
      /\ b.queue[n] = e
  BY <1>2, <1>4, Appended DEF Sound
<1>6. Sound(b)
  BY <1>2, <1>5, SoundWith DEF Flags
<1>7. Same(a, b, {"queue", "link", "asked"}) /\ b.link = x.link
  BY <1>2 DEF Same, Fields
<1>8. \A i \in DOMAIN a.queue : i \in DOMAIN b.queue /\ b.queue[i] = a.queue[i] /\ i < n
  BY <1>5
<1>9. /\ n \in DOMAIN b.queue
      /\ \A i \in DOMAIN b.queue : i = n \/ i \in DOMAIN a.queue
      /\ \A i, j \in DOMAIN b.queue : i < j => i \in DOMAIN a.queue
  BY <1>5
<1> QED
  BY <1>2, <1>3, <1>5, <1>6, <1>7, <1>8, <1>9 DEF b, e

\* What a signal leaves.
LEMMA SignalLeaves ==
    ASSUME NEW a, NEW b, Same(a, b, {"queue", "link", "asked"})
    PROVE  /\ b.session = a.session /\ b.live = a.live /\ b.host = a.host
           /\ b.complete = a.complete /\ b.generation = a.generation
           /\ b.wakeTimers = a.wakeTimers /\ b.bootstrapPending = a.bootstrapPending
           /\ b.watchdog = a.watchdog
BY DEF Same, Fields, Flags

LEMMA StreamsOpenKeeps == ASSUME Inv(app), StreamsOpen PROVE Kept
<1> DEFINE b == [app EXCEPT !.link = "probing"]
<1>1. app.link = "login" /\ app' = b /\ Sound(app)
  BY DEF StreamsOpen, Works, Inv
<1>2. DOMAIN b = Fields /\ Same(app, b, {"link"}) /\ b.link = "probing"
  BY <1>1 DEF Sound, Same, Fields
<1> HIDE DEF b
<1>3. Sound(b)
  BY <1>1, <1>2, SoundWith DEF Flags, Links
<1>4. /\ b.queue = app.queue /\ b.session = app.session /\ b.live = app.live
      /\ b.uiReady = app.uiReady /\ b.connected = app.connected
      /\ b.modelReady = app.modelReady /\ b.ready = app.ready
      /\ b.watchdog = app.watchdog /\ b.idents = app.idents /\ b.unsafe = app.unsafe
  BY <1>2 DEF Same, Fields, Flags
<1>5. /\ b.complete = app.complete /\ b.generation = app.generation
      /\ b.wakeTimers = app.wakeTimers /\ b.wakes = app.wakes /\ b.retried = app.retried
      /\ b.bootstrapPending = app.bootstrapPending /\ b.host = app.host
      /\ b.reported = app.reported /\ b.reconnectTimer = app.reconnectTimer
      /\ b.syncAttempts = app.syncAttempts /\ b.syncTimers = app.syncTimers
      /\ b.reconnecting = app.reconnecting /\ b.wish = app.wish /\ b.pending = app.pending
      /\ b.userDisconnected = app.userDisconnected
  BY <1>2 DEF Same, Fields, Flags
<1>6. Sorted(b) /\ Telling(b)
  BY <1>1, <1>2, <1>4, <1>5 DEF Inv, Sorted, Telling
<1>7. Linked(b)
  BY <1>1, <1>2, <1>4, <1>5 DEF Inv, Linked, Unproven, NoneOf
<1>8. Read(b) /\ Panel(b)
  <2>1. Read(b)
    BY <1>4, <1>5 DEF Inv, Read, Proven, Waking
  <2> QED
    BY <1>4, <2>1, PanelKept DEF Inv
<1>9. Screened(b)
  BY <1>4, <1>5, Zenon DEF Inv, Screened, Corrected, Proven
<1>10. Wanted(b)
  BY <1>4, <1>5 DEF Inv, Wanted, Retrying
<1> QED
  BY <1>1, <1>3, <1>4, <1>6, <1>7, <1>8, <1>9, <1>10 DEF Inv, Kept, Extends

LEMMA LoseAnswerKeeps == ASSUME Inv(app), LoseAnswer PROVE Kept
<1>1. PICK k \in app.asked : app' = [app EXCEPT !.asked = @ \ {k}]
  BY DEF LoseAnswer, Works
<1> DEFINE b == [app EXCEPT !.asked = @ \ {k}]
<1>2. Sound(app)
  BY DEF Inv
<1>3. DOMAIN b = Fields /\ Same(app, b, {"asked"}) /\ b.asked \subseteq Identity
  BY <1>2 DEF Sound, Same, Fields
<1>4. app' = b
  BY <1>1
<1> HIDE DEF b
<1>5. Sound(b)
  BY <1>2, <1>3, SoundWith DEF Flags
<1>6. Same(app, b, Aside \cup {"bootTimers", "credential"})
  BY <1>3 DEF Same, Aside
<1> QED
  BY <1>4, <1>5, <1>6, InvKept DEF Kept, Extends

LEMMA IdentityReplyKeeps == ASSUME Inv(app), ~LateReply, IdentityReply PROVE Kept
<1> DEFINE x == [app EXCEPT !.link = "proven"]
           b == Signal(x, "lanReady", 0)
           e == <<"lanReady", 0, app.session>>
           n == Len(app.queue) + 1
           q == app.queue
           r == b.queue
<1>1. app.link = "probing" /\ app' = b /\ Sound(app)
  BY DEF IdentityReply, Works, Inv
<1>2. DOMAIN x = Fields /\ Same(app, x, {"link"}) /\ x.link = "proven"
  BY <1>1 DEF Sound, Same, Fields
<1> HIDE DEF x
<1>3. Sound(x) /\ Same(app, x, {"link", "asked"})
  <2>1. Sound(x)
    BY <1>1, <1>2, SoundWith DEF Flags, Links
  <2> QED
    BY <1>2, <2>1 DEF Same
<1>4. e \in Events
  BY <1>1 DEF Sound, Events
<1>5. /\ Sound(b) /\ Same(app, b, {"queue", "link", "asked"})
      /\ r = Append(q, e) /\ b.link = x.link /\ Of(e, app.session)
      /\ n \in DOMAIN r /\ r[n] = e
      /\ \A i \in DOMAIN q : i \in DOMAIN r /\ r[i] = q[i] /\ i < n
      /\ \A i \in DOMAIN r : i = n \/ i \in DOMAIN q
      /\ \A i, j \in DOMAIN r : i < j => i \in DOMAIN q
  BY <1>1, <1>3, <1>4, Signalled
<1>6. e[1] = "lanReady"
  OBVIOUS
<1> HIDE DEF b, e, n, q, r
<1>7. /\ b.session = app.session /\ b.live = app.live /\ b.host = app.host
      /\ b.complete = app.complete /\ b.generation = app.generation
      /\ b.wakeTimers = app.wakeTimers /\ b.bootstrapPending = app.bootstrapPending
      /\ b.watchdog = app.watchdog
  BY <1>5, SignalLeaves
<1>8. /\ app.live /\ ~app.complete /\ app.host # 0 /\ ~app.bootstrapPending
      /\ app.generation \notin app.wakeTimers /\ ~app.watchdog
      /\ \A i \in DOMAIN q : ~Of(q[i], app.session)
  BY <1>1 DEF Inv, Linked, NoneOf, q
<1>9. \A i \in DOMAIN r : Of(r[i], app.session) => i = n
  BY <1>5, <1>8
<1>10. Telling(b)
  <2>1. ASSUME NEW i \in DOMAIN r, NEW j \in DOMAIN r, i < j, Of(r[i], app.session) PROVE FALSE
    BY <1>5, <1>8, <2>1
  <2>2. \A i \in DOMAIN r : Of(r[i], app.session) => r[i][1] = "lanReady"
    BY <1>5, <1>6, <1>9
  <2> QED
    BY <1>5, <1>6, <1>7, <2>1, <2>2 DEF Telling, r
<1>11. Linked(b)
  BY <1>2, <1>5, <1>6, <1>7, <1>8, <1>9 DEF Linked, r
<1> QED
  BY <1>1, <1>4, <1>5, <1>8, <1>10, <1>11, WorkerTells DEF Kept, r, q

LEMMA ProbeTimeoutKeeps == ASSUME Inv(app), ProbeTimeout PROVE Kept
<1> DEFINE x == [app EXCEPT !.link = "silent"]
           b == Signal(x, "error", "CommandPlaneUnavailable")
           e == <<"error", "CommandPlaneUnavailable", app.session>>
           n == Len(app.queue) + 1
           q == app.queue
           r == b.queue
<1>1. app.link = "probing" /\ app' = b /\ Sound(app)
  BY DEF ProbeTimeout, Works, Inv
<1>2. DOMAIN x = Fields /\ Same(app, x, {"link"}) /\ x.link = "silent"
  BY <1>1 DEF Sound, Same, Fields
<1> HIDE DEF x
<1>3. Sound(x) /\ Same(app, x, {"link", "asked"})
  <2>1. Sound(x)
    BY <1>1, <1>2, SoundWith DEF Flags, Links
  <2> QED
    BY <1>2, <2>1 DEF Same
<1>4. e \in Events
  BY <1>1 DEF Sound, Events, Codes
<1>5. /\ Sound(b) /\ Same(app, b, {"queue", "link", "asked"})
      /\ r = Append(q, e) /\ b.link = x.link /\ Of(e, app.session)
      /\ n \in DOMAIN r /\ r[n] = e
      /\ \A i \in DOMAIN q : i \in DOMAIN r /\ r[i] = q[i] /\ i < n
      /\ \A i \in DOMAIN r : i = n \/ i \in DOMAIN q
      /\ \A i, j \in DOMAIN r : i < j => i \in DOMAIN q
  BY <1>1, <1>3, <1>4, Signalled
<1>6. e[1] = "error"
  OBVIOUS
<1> HIDE DEF b, e, n, q, r
<1>7. /\ b.session = app.session /\ b.live = app.live /\ b.host = app.host
      /\ b.complete = app.complete /\ b.generation = app.generation
      /\ b.wakeTimers = app.wakeTimers /\ b.bootstrapPending = app.bootstrapPending
      /\ b.watchdog = app.watchdog
  BY <1>5, SignalLeaves
<1>8. /\ app.live /\ ~app.complete /\ app.host # 0 /\ ~app.bootstrapPending
      /\ app.generation \notin app.wakeTimers /\ ~app.watchdog
      /\ \A i \in DOMAIN q : ~Of(q[i], app.session)
  BY <1>1 DEF Inv, Linked, NoneOf, q
<1>9. \A i \in DOMAIN r : Of(r[i], app.session) => i = n
  BY <1>5, <1>8
<1>10. Telling(b)
  <2>1. ASSUME NEW i \in DOMAIN r, NEW j \in DOMAIN r, i < j, Of(r[i], app.session) PROVE FALSE
    BY <1>5, <1>8, <2>1
  <2>2. \A i \in DOMAIN r : Of(r[i], app.session) => r[i][1] = "error"
    BY <1>5, <1>6, <1>9
  <2> QED
    BY <1>2, <1>5, <1>7, <2>1, <2>2 DEF Telling, r
<1>11. Linked(b)
  <2>1. Unproven(b)
    BY <1>5, <1>6, <1>7, <1>8, <1>9 DEF Unproven, r
  <2> QED
    BY <1>2, <1>5, <1>7, <1>8, <1>9, <2>1 DEF Linked, r
<1> QED
  BY <1>1, <1>4, <1>5, <1>6, <1>8, <1>10, <1>11, WorkerTells DEF Kept, r, q

LEMMA LinkFailsKeeps == ASSUME Inv(app), LinkFails PROVE Kept
<1>1. PICK code \in {"ConnectionFailed", "AuthFailure", "Disconnected"} :
         /\ app.link \in {"login", "probing", "silent", "proven"}
         /\ app' = Signal([app EXCEPT !.link = "failed"], "error", code)
  BY DEF LinkFails, Works
<1> DEFINE x == [app EXCEPT !.link = "failed"]
           b == Signal(x, "error", code)
           e == <<"error", code, app.session>>
           n == Len(app.queue) + 1
           q == app.queue
           r == b.queue
<1>2. app' = b /\ Sound(app)
  BY <1>1 DEF Inv
<1>3. DOMAIN x = Fields /\ Same(app, x, {"link"}) /\ x.link = "failed"
  BY <1>2 DEF Sound, Same, Fields
<1> HIDE DEF x
<1>4. Sound(x) /\ Same(app, x, {"link", "asked"})
  <2>1. Sound(x)
    BY <1>2, <1>3, SoundWith DEF Flags, Links
  <2> QED
    BY <1>3, <2>1 DEF Same
<1>5. e \in Events
  BY <1>2 DEF Sound, Events, Codes
<1>6. /\ Sound(b) /\ Same(app, b, {"queue", "link", "asked"})
      /\ r = Append(q, e) /\ b.link = x.link /\ Of(e, app.session)
      /\ n \in DOMAIN r /\ r[n] = e
      /\ \A i \in DOMAIN q : i \in DOMAIN r /\ r[i] = q[i] /\ i < n
      /\ \A i \in DOMAIN r : i = n \/ i \in DOMAIN q
      /\ \A i, j \in DOMAIN r : i < j => i \in DOMAIN q
  BY <1>2, <1>4, <1>5, Signalled
<1>7. e[1] = "error" /\ ~Exhausts(e)
  BY DEF Exhausts
<1> HIDE DEF b, e, n, q, r
<1>8. /\ b.session = app.session /\ b.live = app.live /\ b.host = app.host
      /\ b.complete = app.complete /\ b.generation = app.generation
      /\ b.wakeTimers = app.wakeTimers /\ b.bootstrapPending = app.bootstrapPending
      /\ b.watchdog = app.watchdog
  BY <1>6, SignalLeaves
<1>9. app.live /\ app.host # 0 /\ ~app.bootstrapPending
  BY <1>1 DEF Inv, Linked
<1>10. Telling(b)
  <2>1. ASSUME NEW i \in DOMAIN r, NEW j \in DOMAIN r, i < j,
               Of(r[i], app.session), Of(r[j], app.session)
        PROVE  r[j][1] # "lanReady" /\ (r[i][1] = "error" => r[j][1] = "error")
    BY <1>6, <1>7, <2>1 DEF Inv, Telling, q
  <2>2. ASSUME ~app.complete, NEW j \in DOMAIN r, r[j][1] = "report", Of(r[j], app.session)
        PROVE  \E i \in DOMAIN r : i < j /\ r[i][1] = "lanReady" /\ Of(r[i], app.session)
    <3>1. j \in DOMAIN q /\ q[j] = r[j]
      BY <1>6, <1>7, <2>2
    <3>2. PICK i \in DOMAIN q : i < j /\ q[i][1] = "lanReady" /\ Of(q[i], app.session)
      BY <2>2, <3>1 DEF Inv, Telling, q
    <3> QED
      BY <1>6, <3>2
  <2> QED
    BY <1>3, <1>6, <1>8, <2>1, <2>2 DEF Telling, r
<1>11. Linked(b)
  <2>1. Unproven(app) => Unproven(b)
    <3> SUFFICES ASSUME Unproven(app),  NEW i \in DOMAIN r, Of(r[i], app.session)
                 PROVE  r[i][1] = "error" /\ ~app.complete
      BY <1>8 DEF Unproven, r
    <3> QED
      BY <1>6, <1>7 DEF Unproven, q
  <2>2. ASSUME NEW i \in DOMAIN r, Of(r[i], app.session), Exhausts(r[i])
        PROVE  i \in DOMAIN q /\ Of(q[i], app.session) /\ Exhausts(q[i])
    BY <1>6, <1>7, <2>2
  <2>3. ASSUME NEW i \in DOMAIN q, Of(q[i], app.session), Exhausts(q[i])
        PROVE  /\ Unproven(app) /\ app.generation \notin app.wakeTimers
               /\ \A j \in DOMAIN q : Of(q[j], app.session) /\ Exhausts(q[j]) => i = j
    <3>1. app.link \notin {"login", "probing"}
      BY <2>3 DEF Inv, Linked, NoneOf, q
    <3>2. app.link # "proven"
      BY <2>3 DEF Inv, Linked, Exhausts, q
    <3> QED
      BY <1>1, <2>3, <3>1, <3>2 DEF Inv, Linked, q
  <2>4. app.generation \in app.wakeTimers => Unproven(app)
    BY DEF Inv, Linked
  <2>5. app.watchdog => app.complete
    BY DEF Inv, Linked
  <2>6. \A i \in DOMAIN r : Of(r[i], app.session) /\ Exhausts(r[i]) =>
              /\ Unproven(b) /\ app.generation \notin app.wakeTimers
              /\ \A j \in DOMAIN r : Of(r[j], app.session) /\ Exhausts(r[j]) => i = j
    BY <2>1, <2>2, <2>3
  <2> QED
    BY <1>3, <1>6, <1>8, <1>9, <2>1, <2>4, <2>5, <2>6 DEF Linked, r
<1> QED
  BY <1>2, <1>5, <1>6, <1>7, <1>9, <1>10, <1>11, WorkerTells DEF Kept, r, q

LEMMA AnswerKeeps == ASSUME Inv(app), Answer PROVE Kept
<1>1. PICK k \in app.asked :
         /\ app.link = "proven"
         /\ app' = Signal([app EXCEPT !.asked = @ \ {k}], "report", k)
  BY DEF Answer, Works
<1> DEFINE x == [app EXCEPT !.asked = @ \ {k}]
           b == Signal(x, "report", k)
           e == <<"report", k, app.session>>
           n == Len(app.queue) + 1
           q == app.queue
           r == b.queue
<1>2. app' = b /\ Sound(app) /\ k \in Identity
  BY <1>1 DEF Inv, Sound
<1>3. DOMAIN x = Fields /\ Same(app, x, {"asked"}) /\ x.asked \subseteq Identity
  BY <1>2 DEF Sound, Same, Fields
<1> HIDE DEF x
<1>4. Sound(x) /\ Same(app, x, {"link", "asked"}) /\ x.link = "proven"
  <2>1. Sound(x)
    BY <1>2, <1>3, SoundWith DEF Flags
  <2> QED
    BY <1>1, <1>3, <2>1 DEF Same, Fields
<1>5. e \in Events
  BY <1>2 DEF Sound, Events
<1>6. /\ Sound(b) /\ Same(app, b, {"queue", "link", "asked"})
      /\ r = Append(q, e) /\ b.link = x.link /\ Of(e, app.session)
      /\ n \in DOMAIN r /\ r[n] = e
      /\ \A i \in DOMAIN q : i \in DOMAIN r /\ r[i] = q[i] /\ i < n
      /\ \A i \in DOMAIN r : i = n \/ i \in DOMAIN q
      /\ \A i, j \in DOMAIN r : i < j => i \in DOMAIN q
  BY <1>2, <1>4, <1>5, Signalled
<1>7. e[1] = "report"
  OBVIOUS
<1> HIDE DEF b, e, n, q, r
<1>8. /\ b.session = app.session /\ b.live = app.live /\ b.host = app.host
      /\ b.complete = app.complete /\ b.generation = app.generation
      /\ b.wakeTimers = app.wakeTimers /\ b.bootstrapPending = app.bootstrapPending
      /\ b.watchdog = app.watchdog
  BY <1>6, SignalLeaves
<1>9. /\ app.live /\ app.host # 0 /\ ~app.bootstrapPending
      /\ app.generation \notin app.wakeTimers /\ (app.watchdog => app.complete)
      /\ \A i \in DOMAIN q : Of(q[i], app.session) => q[i][1] # "error"
  BY <1>1 DEF Inv, Linked, q
<1>10. Telling(b)
  <2>1. ASSUME NEW i \in DOMAIN r, NEW j \in DOMAIN r, i < j,
               Of(r[i], app.session), Of(r[j], app.session)
        PROVE  r[j][1] # "lanReady" /\ r[i][1] # "error"
    BY <1>6, <1>7, <1>9, <2>1 DEF Inv, Telling, q
  <2>2. ASSUME ~app.complete
        PROVE  /\ \E i \in DOMAIN r : r[i][1] = "lanReady" /\ Of(r[i], app.session)
               /\ \A j \in DOMAIN r : r[j][1] = "report" /\ Of(r[j], app.session) =>
                     \E i \in DOMAIN r : i < j /\ r[i][1] = "lanReady" /\ Of(r[i], app.session)
    <3>1. /\ \E i \in DOMAIN q : q[i][1] = "lanReady" /\ Of(q[i], app.session)
          /\ \A j \in DOMAIN q : q[j][1] = "report" /\ Of(q[j], app.session) =>
                     \E i \in DOMAIN q : i < j /\ q[i][1] = "lanReady" /\ Of(q[i], app.session)
      BY <1>1, <2>2 DEF Inv, Telling, q
    <3> QED
      BY <1>6, <3>1
  <2> QED
    BY <1>6, <1>8, <2>1, <2>2 DEF Telling, r
<1>11. Linked(b)
  <2>1. \A i \in DOMAIN r : Of(r[i], app.session) => r[i][1] # "error"
    BY <1>6, <1>7, <1>9
  <2> QED
    BY <1>4, <1>6, <1>8, <1>9, <2>1 DEF Linked, r
<1> QED
  BY <1>2, <1>5, <1>6, <1>7, <1>9, <1>10, <1>11, WorkerTells DEF Kept, r, q

-----------------------------------------------------------------------------
(* The theorems.                                                           *)

Counted == connects \in 0 .. MaxConnects /\ faults \in 0 .. MaxFaults /\ silences \in 0 .. MaxSilences
IInv == Inv(app) /\ Counted

LEMMA InitHolds == ASSUME LifecycleAssumption, Init PROVE IInv
<1>1. Counted
  BY DEF Init, LifecycleAssumption, Counted
<1>2. /\ app.host = 0 /\ app.session = 0 /\ app.live = FALSE /\ app.generation = 0
      /\ app.bootstrapPending = FALSE /\ app.retried = FALSE /\ app.wakes = 0
      /\ app.complete = FALSE /\ app.syncAttempts = 0 /\ app.syncPending = FALSE
      /\ app.idents = {} /\ app.ready = FALSE /\ app.requested = FALSE
      /\ app.postRequested = FALSE /\ app.delay = FALSE /\ app.retry = FALSE
      /\ app.snapshot = FALSE /\ app.watchdog = FALSE
  BY DEF Init
<1>3. /\ app.wakeTimers = {} /\ app.bootTimers = {} /\ app.syncTimers = {}
      /\ app.link = "off" /\ app.asked = {} /\ app.connected = FALSE
      /\ app.modelReady = FALSE /\ app.pending = 0 /\ app.userDisconnected = FALSE
      /\ app.reconnecting = FALSE /\ app.reconnectTimer = FALSE /\ app.uiReady = FALSE
      /\ app.credential = FALSE /\ app.queue = <<>> /\ app.reported = {}
      /\ app.wish = "none" /\ app.unsafe = FALSE
  BY DEF Init
<1>4. DOMAIN app = Fields
  BY DEF Init, Fields, Flags
<1>5. Sound(app)
  <2>1. \A f \in Flags : app[f] \in BOOLEAN
    BY <1>2, <1>3 DEF Flags
  <2>2. app.queue \in Seq(Events)
    BY <1>3
  <2>3. app.wakes \in 0 .. kMaxWakeAttempts /\ app.syncAttempts \in 0 .. kMaxSyncReconnectAttempts
    BY <1>2 DEF kMaxWakeAttempts, kMaxSyncReconnectAttempts
  <2> QED
    BY <1>2, <1>3, <1>4, <2>1, <2>2, <2>3 DEF Sound, Links
<1>6. DOMAIN app.queue = {}
  BY <1>3
<1>7. Sorted(app) /\ Telling(app) /\ Linked(app)
  BY <1>2, <1>3, <1>6 DEF Sorted, Telling, Linked
<1>8. Read(app) /\ Panel(app) /\ Screened(app)
  BY <1>2, <1>3, <1>6 DEF Read, Panel, Screened, Proven, Waking
<1>9. Wanted(app)
  BY <1>2, <1>3 DEF Wanted
<1> QED
  BY <1>1, <1>3, <1>5, <1>7, <1>8, <1>9 DEF IInv, Inv

\* Every step but the handling of an event leaves the oldest event where it is.
LEMMA OtherStepsKeep ==
    ASSUME LifecycleAssumption, ~LateReply, Inv(app), Next, ~HandleEvent PROVE Kept
<1>1. CASE (\E h \in Hosts : OperatorConnect(h)) \/ OperatorDisconnect
  BY <1>1, OperatorConnectKeeps, OperatorDisconnectKeeps
<1>2. CASE ReconnectTimer \/ InitialDelay \/ RetryTimer \/ SnapshotDelay
  BY <1>2, ReconnectTimerKeeps, InitialDelayKeeps, RetryTimerKeeps, SnapshotDelayKeeps
<1>3. CASE WatchdogTimer \/ WakeTimer \/ BootTimer \/ SyncTimer
  BY <1>3, WatchdogTimerKeeps, WakeTimerKeeps, BootTimerKeeps, SyncTimerKeeps
<1>4. CASE StreamsOpen \/ IdentityReply \/ ProbeTimeout
  BY <1>4, StreamsOpenKeeps, IdentityReplyKeeps, ProbeTimeoutKeeps
<1>5. CASE LinkFails \/ Answer \/ LoseAnswer
  BY <1>5, LinkFailsKeeps, AnswerKeeps, LoseAnswerKeeps
<1> QED
  BY <1>1, <1>2, <1>3, <1>4, <1>5, Zenon DEF Next

LEMMA CountersKept == ASSUME LifecycleAssumption, Counted, Next PROVE Counted'
<1>1. CASE \E h \in Hosts : OperatorConnect(h)
  BY <1>1 DEF OperatorConnect, Counted, LifecycleAssumption
<1>2. CASE OperatorDisconnect \/ HandleEvent
  BY <1>2 DEF OperatorDisconnect, HandleEvent, Counted
<1>3. CASE ReconnectTimer \/ InitialDelay \/ RetryTimer \/ SnapshotDelay \/ WatchdogTimer
  BY <1>3 DEF ReconnectTimer, InitialDelay, RetryTimer, SnapshotDelay, WatchdogTimer, Fires, Counted
<1>4. CASE WakeTimer \/ BootTimer \/ SyncTimer
  BY <1>4 DEF WakeTimer, BootTimer, SyncTimer, Fires, Counted
<1>5. CASE StreamsOpen \/ IdentityReply \/ Answer
  BY <1>5 DEF StreamsOpen, IdentityReply, Answer, Works, Counted
<1>6. CASE ProbeTimeout \/ LinkFails \/ LoseAnswer
  BY <1>6 DEF ProbeTimeout, LinkFails, LoseAnswer, Works, Counted, LifecycleAssumption
<1> QED
  BY <1>1, <1>2, <1>3, <1>4, <1>5, <1>6, Zenon DEF Next

LEMMA StepHolds == ASSUME LifecycleAssumption, ~LateReply, IInv, [Next]_vars PROVE IInv'
<1>1. CASE UNCHANGED vars
  BY <1>1 DEF vars, IInv, Counted
<1>2. CASE Next
  <2>1. Inv(app)'
    BY <1>2, HandleEventKeeps, OtherStepsKeep DEF IInv, Kept
  <2> QED
    BY <1>2, <2>1, CountersKept DEF IInv
<1> QED
  BY <1>1, <1>2

\* Where no session is up, only a connection that is wanted begins one.
LEMMA StartsAreWanted ==
    ASSUME LifecycleAssumption, Inv(app), Inv(app)', Next PROVE StartsWanted
<1> SUFFICES ASSUME app'.live, app'.session > app.session, connects' = connects, ~app.live
             PROVE  app.wish = "connect"
  BY DEF StartsWanted, SessionStarts, Inv, Wanted
<1>1. /\ DOMAIN app = Fields /\ app.session \in Nat /\ DOMAIN app' = Fields
      /\ app.link = "off" /\ ~app.watchdog /\ app.generation \notin app.wakeTimers
  BY DEF Inv, Sound, Linked
<1>2. "session" \in Fields /\ "live" \in Fields /\ "wish" \in Fields
  BY DEF Fields, Flags
<1>3. CASE \E h \in Hosts : OperatorConnect(h)
  <2>1. connects' = connects + 1
    BY <1>3 DEF OperatorConnect
  <2> QED
    BY <2>1
<1>4. CASE OperatorDisconnect
  BY <1>4 DEF OperatorDisconnect
<1>5. CASE HandleEvent
  <2> DEFINE e == Head(app.queue)
             p == Pop(app)
  <2>1. app.queue # <<>> /\ app' = handled(p, e)
    BY <1>5 DEF HandleEvent, Pop
  <2>2. /\ Sound(app) /\ e \in Events /\ 1 \in DOMAIN app.queue /\ e = app.queue[1]
        /\ Same(app, p, {"queue"})
    BY <2>1, PopRecord DEF Inv
  <2>3. e[1] \in {"ready", "report", "lanReady", "error"}
    BY <2>2, EventFields
  <2>4. p.session = app.session /\ p.live = app.live /\ DOMAIN p = Fields
    BY <2>2 DEF Same, Fields, Flags
  <2>5. e[1] # "ready" => e[3] # app.session
    BY <2>2 DEF Inv, Sorted
  <2>6. CASE e[1] = "ready"
    <3>1. app' = onRadioReadyChanged(p, e[2])
      BY <2>1, <2>6 DEF handled
    <3> HIDE DEF p, e
    <3>2. app'.session = p.session
      BY <2>4, <3>1 DEF onRadioReadyChanged, Fields
    <3> QED
      BY <1>1, <2>4, <3>2
  <2>7. CASE e[1] = "report"
    <3>1. app' = identityReported(p, e[2], e[3])
      BY <2>1, <2>7 DEF handled
    <3> QED
      BY <2>1, <2>7, <3>1, ReportHandled
  <2>8. CASE e[1] \in {"lanReady", "error"}
    <3>1. app' = p
      BY <2>1, <2>4, <2>5, <2>8 DEF handled
    <3> QED
      BY <2>4, <3>1
  <2> QED
    BY <2>3, <2>6, <2>7, <2>8
<1>6. CASE ReconnectTimer
  <2> DEFINE a == [app EXCEPT !.reconnectTimer = FALSE]
  <2>1. app.reconnectTimer /\ app' = IF a.reconnecting THEN onConnectToProfile(a, a.pending) ELSE a
    BY <1>6 DEF ReconnectTimer, Fires
  <2>2. a.reconnecting = app.reconnecting /\ a.live = app.live
    BY <1>1 DEF Fields, Flags
  <2> HIDE DEF a
  <2> QED
    BY <2>1, <2>2 DEF Inv, Wanted
<1>7. CASE InitialDelay
  <2>1. app.delay /\ app' = LET a == requestInitialRadioState([app EXCEPT !.delay = FALSE])
                            IN  [a EXCEPT !.retry = ~a.ready]
    BY <1>7 DEF InitialDelay, Fires
  <2> QED
    BY <1>1, <2>1 DEF requestInitialRadioState, Fields, Flags
<1>8. CASE RetryTimer \/ SnapshotDelay
  BY <1>1, <1>8 DEF RetryTimer, SnapshotDelay, Fires, requestInitialRadioState, Fields, Flags
<1>9. CASE WatchdogTimer
  BY <1>1, <1>9 DEF WatchdogTimer, Fires
<1>10. CASE WakeTimer
  <2>1. PICK g \in app.wakeTimers :
           app' = LET a == [app EXCEPT !.wakeTimers = @ \ {g}]
                  IN  IF g = a.generation THEN reconnectBootstrapSession(a) ELSE a
    BY <1>10 DEF WakeTimer, Fires
  <2> DEFINE a == [app EXCEPT !.wakeTimers = @ \ {g}]
  <2>2. app' = IF g = a.generation THEN reconnectBootstrapSession(a) ELSE a
    BY <2>1
  <2>3. a.generation = app.generation /\ a.live = app.live
    BY <1>1 DEF Fields, Flags
  <2> HIDE DEF a
  <2> QED
    BY <1>1, <2>2, <2>3
<1>11. CASE BootTimer
  <2>1. PICK t \in app.bootTimers :
           app' = LET a == [app EXCEPT !.bootTimers = @ \ {t}]
                  IN  IF t[1] = a.generation /\ a.bootstrapPending
                      THEN connectToRadio(a, t[2]) ELSE a
    BY <1>11 DEF BootTimer, Fires
  <2> DEFINE a == [app EXCEPT !.bootTimers = @ \ {t}]
  <2>2. app' = IF t[1] = a.generation /\ a.bootstrapPending THEN connectToRadio(a, t[2]) ELSE a
    BY <2>1
  <2>3. a.bootstrapPending = app.bootstrapPending /\ a.live = app.live
    BY <1>1 DEF Fields, Flags
  <2> HIDE DEF a
  <2> QED
    BY <2>2, <2>3 DEF Inv, Wanted
<1>12. CASE SyncTimer
  <2>1. PICK h \in app.syncTimers :
           app' = LET a == [app EXCEPT !.syncTimers = @ \ {h}]
                  IN  IF a.host # h THEN [a EXCEPT !.syncPending = FALSE] ELSE connectToRadio(a, h)
    BY <1>12 DEF SyncTimer, Fires
  <2> DEFINE a == [app EXCEPT !.syncTimers = @ \ {h}]
             b == [a EXCEPT !.syncPending = FALSE]
  <2>2. app' = IF a.host # h THEN b ELSE connectToRadio(a, h)
    BY <2>1
  <2>3. a.host = app.host /\ b.live = app.live
    BY <1>1 DEF Fields, Flags
  <2> HIDE DEF a, b
  <2> QED
    BY <2>2, <2>3 DEF Inv, Wanted
<1>13. CASE StreamsOpen \/ IdentityReply \/ ProbeTimeout \/ LinkFails \/ Answer \/ LoseAnswer
  BY <1>1, <1>13 DEF StreamsOpen, IdentityReply, ProbeTimeout, LinkFails, Answer, LoseAnswer, Works
<1> QED
  BY <1>3, <1>4, <1>5, <1>6, <1>7, <1>8, <1>9, <1>10, <1>11, <1>12, <1>13, Zenon DEF Next

LEMMA LossIsPursued ==
    ASSUME LifecycleAssumption, ~LateReply, Inv(app), Next PROVE Pursued
<1>1. CASE HandleEvent
  BY <1>1, HandleEventKeeps DEF Pursued
<1>2. CASE ~HandleEvent
  <2>1. Extends(app.queue, app'.queue)
    BY <1>2, OtherStepsKeep DEF Kept
  <2> QED
    BY <2>1 DEF Extends, Pursued, Loses
<1> QED
  BY <1>1, <1>2

LEMMA ReadyTrue == ASSUME Inv(app) PROVE ReadyFromThisSession /\ PanelMatchesRadio /\ ProvenClosedSafely
<1>1. ReadyFromThisSession
  BY DEF Inv, Read, Proven, ReadyFromThisSession
<1>2. PanelMatchesRadio
  <2> SUFFICES ASSUME app.queue = <<>> PROVE app.uiReady <=> app.connected /\ app.ready
    BY DEF PanelMatchesRadio
  <2>1. app.uiReady <=> app.connected /\ app.modelReady
    <3>1. DOMAIN app.queue = {}
      OBVIOUS
    <3> QED
      BY <3>1 DEF Inv, Panel
  <2> QED
    BY <2>1 DEF Inv, Panel
<1> QED
  BY <1>1, <1>2 DEF Inv, ProvenClosedSafely

LEMMA ActionsHold ==
    ASSUME LifecycleAssumption, ~LateReply, IInv, [Next]_vars
    PROVE  [StartsWanted /\ Pursued]_vars
<1>1. CASE UNCHANGED vars
  BY <1>1
<1>2. CASE Next
  <2>1. Inv(app)'
    BY <1>2, StepHolds DEF IInv
  <2> QED
    BY <1>2, <2>1, StartsAreWanted, LossIsPursued DEF IInv
<1> QED
  BY <1>1, <1>2

\* The record of the main thread and the counters keep their types.
THEOREM Typed == ASSUME LifecycleAssumption, ~LateReply PROVE Spec => []TypeOK
<1>1. Init => IInv
  BY InitHolds
<1>2. IInv /\ [Next]_vars => IInv'
  BY StepHolds
<1>3. IInv => TypeOK
  <2> SUFFICES ASSUME IInv PROVE TypeOK
    OBVIOUS
  <2>1. Sound(app) /\ (app.live <=> app.link # "off") /\ app.live \in BOOLEAN
    BY DEF IInv, Inv, Linked, Sound, Flags
  <2>2. app.wakeTimers \subseteq Nat
    BY <2>1 DEF Sound
  <2> QED
    BY <2>1, <2>2 DEF IInv, Counted, Sound, Links, TypeOK
<1> QED
  BY <1>1, <1>2, <1>3, PTL DEF Spec

\* Whatever is lost and whenever: once a session's command plane has answered the
\* backend calls it ready only on readings of both receivers made in that session,
\* although a reading carries no session (RadioBackend.cpp, handleRadioValueReport).
THEOREM ReadyIsOfSession == ASSUME LifecycleAssumption, ~LateReply PROVE Spec => []ReadyFromThisSession
<1>1. Init => IInv
  BY InitHolds
<1>2. IInv /\ [Next]_vars => IInv'
  BY StepHolds
<1>3. IInv => ReadyFromThisSession
  BY ReadyTrue DEF IInv
<1> QED
  BY <1>1, <1>2, <1>3, PTL DEF Spec

\* When the events have been handled, the window enables its controls exactly for
\* a connected and ready radio, although it hears of both by queued calls.
THEOREM PanelIsTrue == ASSUME LifecycleAssumption, ~LateReply PROVE Spec => []PanelMatchesRadio
<1>1. Init => IInv
  BY InitHolds
<1>2. IInv /\ [Next]_vars => IInv'
  BY StepHolds
<1>3. IInv => PanelMatchesRadio
  BY ReadyTrue DEF IInv
<1> QED
  BY <1>1, <1>2, <1>3, PTL DEF Spec

\* No session whose command plane has answered is closed without the commands that
\* unkey the transmitter, by whatever of the session's ends (RadioBackend.cpp,
\* shutdownConnection).
THEOREM ClosedSafely == ASSUME LifecycleAssumption, ~LateReply PROVE Spec => []ProvenClosedSafely
<1>1. Init => IInv
  BY InitHolds
<1>2. IInv /\ [Next]_vars => IInv'
  BY StepHolds
<1>3. IInv => ProvenClosedSafely
  BY ReadyTrue DEF IInv
<1> QED
  BY <1>1, <1>2, <1>3, PTL DEF Spec

\* Of the four timers and the events that can start a session, none does after the
\* operator disconnected or the attempts are spent; and a lost session that had
\* reached the panel is followed by an attempt to reconnect (MainWindow.cpp).
THEOREM SessionsWanted ==
    ASSUME LifecycleAssumption, ~LateReply PROVE Spec => [][StartsWanted /\ Pursued]_vars
<1>1. Init => IInv
  BY InitHolds
<1>2. IInv /\ [Next]_vars => IInv'
  BY StepHolds
<1>3. IInv /\ [Next]_vars => [StartsWanted /\ Pursued]_vars
  BY ActionsHold
<1> QED
  BY <1>1, <1>2, <1>3, PTL DEF Spec
=============================================================================
