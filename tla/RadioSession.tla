---------------------------- MODULE RadioSession ----------------------------
(***************************************************************************)
(* The IC-9700 control session (UdpHandler): login, stream ownership, the  *)
(* crash journal, recovery of a crashed predecessor, and ordered shutdown. *)
(*                                                                         *)
(* Several SDR9700 processes may share one host, one journal file and one  *)
(* radio.  Datagrams are reordered freely, and up to MaxFaults of them are *)
(* lost or duplicated beyond what the tracked transport repairs.  A reply  *)
(* for a closed socket is lost.                                            *)
(*                                                                         *)
(* A login is known to the radio by the pair <<tokRequest, token>>.  Both  *)
(* numbers stand for the login that created them, so the radio recognises  *)
(* an identity only when its two halves agree.  The radio itself is        *)
(* external: it is modelled by what UdpHandler.cpp expects of it.          *)
(***************************************************************************)
EXTENDS Integers, Sequences, FiniteSets

CONSTANTS
    Procs,           \* processes on this host; a crashed one never returns
    NoProc,          \* none of them
    RemovalAttempts, \* kDisconnectMaxAttempts, RetainedSessionRemovalPolicy::kMaxAttempts
    ReclaimLimit,    \* kMaxStaleSessionReclaimAttempts
    MaxConnects,     \* bound: handlers created
    MaxRenewals,     \* bound: expiries of the token timer
    MaxFaults,       \* bound: datagrams lost or duplicated, sessions ended by the radio
    MaxForeign,      \* bound: times another station takes the radio
    Concurrent,      \* a process may connect while another one is connected
    Prompt,          \* bound: RadioBackend::onPortError closes a handler that
                     \* reported an error before its next datagram or timer
    RadioMay         \* "forget" a token, "deny" a login, "reissue" an old token

SessionAssumption ==
    /\ NoProc \notin Procs
    /\ RemovalAttempts \in Nat \ {0} /\ ReclaimLimit \in Nat
    /\ MaxConnects \in Nat /\ MaxRenewals \in Nat
    /\ MaxFaults \in Nat /\ MaxForeign \in Nat
    /\ Concurrent \in BOOLEAN /\ Prompt \in BOOLEAN
    /\ RadioMay \subseteq {"forget", "deny", "reissue"}

VARIABLES
    h,          \* each process's UdpHandler
    journal,    \* the crash journal: a set of at most one record
    net,        \* datagrams on their way
    names,      \* names[n]: the process whose login got the n-th identity
    tokens,     \* identities the radio has authenticated and not retired
    session,    \* identity that holds the radio's streams, 0 if none
    foreign,    \* another station holds the streams
    granted,    \* identities ever granted the streams
    connects, renewals, faults, takes   \* counters for the bounds

radio  == <<tokens, session, foreign, granted>>
bounds == <<connects, renewals, faults, takes>>
vars   == <<h, journal, net, names, radio, bounds>>

Kinds   == {"login", "renewal", "removal", "stream"}
NoId    == <<0, 0>>
Id(n)   == <<n, n>>
Request == [seq : Nat, id : Nat \X Nat, pending : BOOLEAN]

\* A datagram between the radio and the handler of process p.
Msg(kind, p, seq, id) == [kind |-> kind, p |-> p, seq |-> seq, id |-> id]

NoRequest == [seq |-> 0, id |-> NoId, pending |-> FALSE]

\* A UdpHandler as its constructor and init() leave it.
Handler(phase) ==
    [phase |-> phase, seq |-> 1, id |-> NoId,
     login |-> NoRequest, renewal |-> NoRequest,
     removal |-> NoRequest, stream |-> NoRequest,
     authed |-> FALSE, gotAuth |-> FALSE, ticking |-> FALSE,
     owned |-> FALSE, opened |-> FALSE, media |-> FALSE,
     radios |-> FALSE, ports |-> FALSE,
     reclaim |-> FALSE, reclaims |-> 0, resetTried |-> FALSE, relogin |-> FALSE,
     pred |-> NoProc, retired |-> FALSE, attempts |-> 0,
     ack |-> FALSE, disc |-> FALSE, reported |-> FALSE]

Init ==
    /\ h = [p \in Procs |-> Handler("off")]
    /\ journal = {} /\ net = {} /\ names = <<>>
    /\ tokens = {} /\ session = 0 /\ foreign = FALSE /\ granted = {}
    /\ connects = 0 /\ renewals = 0 /\ faults = 0 /\ takes = 0

-----------------------------------------------------------------------------
(* Steps of one handler s of process p, as functions of its record.  What  *)
(* is sent is read off the requests a step begins.                         *)

Begun(s, id) == [seq |-> s.seq, id |-> id, pending |-> TRUE]
Cleared(s, kinds) == [f \in DOMAIN s |->
                          IF f \in kinds THEN [s[f] EXCEPT !.pending = FALSE] ELSE s[f]]

\* tokRequest is drawn at random; the token stays what it was.
sendLogin(s) ==
    LET id == <<Len(names) + 1, s.id[2]>>
    IN  [s EXCEPT !.id = id, !.login = Begun(s, id), !.seq = @ + 1]

sendRenewal(s) == [s EXCEPT !.renewal = Begun(s, s.id), !.seq = @ + 1]
sendRemoval(s) == [s EXCEPT !.removal = Begun(s, s.id), !.seq = @ + 1]

sendRequestStream(s) == [s EXCEPT !.stream = Begun(s, s.id), !.seq = @ + 1]

closeStreams(s) == [s EXCEPT !.opened = FALSE, !.media = FALSE]

\* The two local ports can always be reserved.
setCurrentRadio(s) ==
    LET c == [closeStreams(s) EXCEPT !.ports = TRUE]
    IN  IF c.gotAuth THEN sendRequestStream(c) ELSE c

selectIfKnown(s) == IF s.radios THEN setCurrentRadio(s) ELSE s

\* Bug for the mutation test: authentication counts as ownership.
AuthenticatedIsEnough(s) == s.owned \/ s.gotAuth

\* RadioSessionOwnership::permitsRadioTeardown.
permitsRadioTeardown(s) == s.owned

\* Bug for the mutation test: the owner's process is not looked at.
AnyRecord == journal

\* RadioSessionRecoveryStore::loadForRadio / loadRecoverable: the recorded
\* process is gone.
Recoverable == {j \in journal : h[j.owner].phase = "dead"}

\* removeOwned.
JournalWithout(p) == {j \in journal : j.owner # p}

\* Bug for the mutation test: the new login does not wait for the removal.
RemovalAndLogin(s, j) ==
    sendLogin([sendRemoval([s EXCEPT !.id = j.id]) EXCEPT !.pred = j.owner, !.attempts = 1])

\* The predecessor's identity is taken over to remove it.
beginPredecessorTokenRemoval(s, j) ==
    [sendRemoval([s EXCEPT !.id = j.id]) EXCEPT
        !.retired = @ \/ j.full, !.pred = j.owner, !.attempts = 1,
        !.ack = FALSE, !.disc = FALSE]

\* Departures of the predecessor's transports, unless already replayed.
Departures(s, j) ==
    IF j.full /\ ~s.retired THEN {Msg("depart", NoProc, 0, j.id)} ELSE {}

\* Bug for the mutation test: no login follows the removal.
RemovalOnly(s) ==
    [Cleared(s, Kinds) EXCEPT !.id = <<s.id[1], 0>>, !.gotAuth = FALSE, !.pred = NoProc]

\* The removal is confirmed: everything pending is dropped, then a new login.
completePredecessorTokenRemoval(s) ==
    LET c == [closeStreams(Cleared(s, Kinds)) EXCEPT
                 !.id = <<s.id[1], 0>>, !.gotAuth = FALSE, !.authed = FALSE,
                 !.pred = NoProc, !.retired = FALSE]
    IN  sendLogin(selectIfKnown(c))

-----------------------------------------------------------------------------
(* Steps of the system.                                                    *)

Fresh(p, s) == {k \in Kinds : s[k].pending /\ s[k].seq # h[p][k].seq}

\* The handler of p becomes s and sends the requests it began; "rest" is
\* what else is on its way.
Become(p, s, rest) ==
    /\ h' = [h EXCEPT ![p] = s]
    /\ net' = rest \cup {Msg(k, p, s[k].seq, s[k].id) : k \in Fresh(p, s)}
    /\ names' = IF "login" \in Fresh(p, s) THEN Append(names, p) ELSE names

\* The same on receipt of m, which the network may deliver again.  Bound: only
\* an answer to a request, since the radio repeats its status by itself.
Receive(m, s) ==
    \/ /\ Become(m.p, s, net \ {m})
       /\ UNCHANGED faults
    \/ /\ faults < MaxFaults /\ m.seq # 0
       /\ faults' = faults + 1
       /\ Become(m.p, s, net)

Open(p) == p # NoProc /\ h[p].phase \notin {"off", "dead"}

\* The network once the socket of p is closed: answers to it are lost, now
\* and later, because they name an association that is gone.
Requests == Kinds \cup {"depart"}
Replies  == {"welcome", "denied", "renewed", "refused", "removed", "grant", "rejected",
             "advert", "free", "foreign", "busy", "ended"}
Orphaned(p) ==
    {m \in net : m.p # p}
        \cup {[m EXCEPT !.p = NoProc] : m \in {o \in net : o.p = p /\ o.kind \in Requests}}

-----------------------------------------------------------------------------
(* Which replies are acted on (RadioSessionCorrelation).                   *)

Answers(m, r) == r.pending /\ m.seq = r.seq

\* Bug for the mutation test: shutdown does not narrow what is acted on.
AlwaysListening(s) == TRUE

\* Once shutdown has begun only teardown replies stay actionable.
Listening(s) == s.phase # "settling" /\ s.phase # "removing"

Relevant(m) ==
    LET s == h[m.p] IN
    CASE m.kind = "welcome" -> Answers(m, s.login) /\ m.id[1] = s.login.id[1]
      [] m.kind = "denied" ->
            Listening(s) /\ Answers(m, s.login) /\ m.id[1] = s.login.id[1]
      [] m.kind \in {"renewed", "refused"} -> Listening(s) /\ Answers(m, s.renewal)
      [] m.kind = "removed" -> Answers(m, s.removal)
      [] m.kind \in {"grant", "rejected"} ->
            Listening(s) /\ Answers(m, s.stream) /\ m.id = s.stream.id
      [] m.kind = "advert" ->
            Listening(s) /\ m.seq = s.stream.seq /\ m.id = s.stream.id
      [] m.kind = "ended" -> m.id = s.id
      [] m.kind \in {"free", "foreign", "busy"} -> Listening(s)
      [] OTHER -> FALSE

\* Nothing but the close that the reported error asks for can come next.
Closing(p) == Prompt /\ h[p].reported /\ Listening(h[p])

Arrives(m, kind) == m.kind = kind /\ Open(m.p) /\ Relevant(m) /\ ~Closing(m.p)

\* Everything else is stale or unrelated.
Ignored(m) ==
    /\ m.kind \notin Requests /\ ~(Open(m.p) /\ Relevant(m))
    /\ net' = net \ {m}
    /\ UNCHANGED <<h, journal, names, radio, bounds>>

-----------------------------------------------------------------------------
(* Connecting.                                                             *)

\* UdpHandler::UdpHandler and init().  Bound: the radio has seen the requests
\* of every closed socket, or they are lost, before the next one opens, and
\* two processes do not negotiate at once unless one of them starts over.
Connect(p) ==
    /\ h[p].phase = "off" /\ connects < MaxConnects
    /\ \A m \in net : m.p # NoProc
    /\ \A q \in Procs : Open(q) => Concurrent /\ (h[q].opened \/ h[q].reported)
    /\ connects' = connects + 1
    /\ LET full == {j \in Recoverable : j.full}
           s == Handler("discover")
       IN  Become(p, [s EXCEPT !.retired = full # {}],
                  net \cup UNION {Departures(s, j) : j \in full})
    /\ UNCHANGED <<journal, radio, renewals, faults, takes>>

\* The transport's 0x06 "I am ready": retire a crashed predecessor's token
\* before the first login.
TransportReady(p) ==
    /\ h[p].phase = "discover"
    /\ LET s == [h[p] EXCEPT !.phase = "up"]
       IN  \/ /\ Recoverable = {}
              /\ Become(p, sendLogin(s), net)
           \/ \E j \in Recoverable :
                 Become(p, beginPredecessorTokenRemoval(
                               [s EXCEPT !.reclaim = TRUE, !.reclaims = 1], j),
                        net \cup Departures(s, j))
    /\ UNCHANGED <<journal, radio, bounds>>

\* Bug for the mutation test: every attempt is a new request.
ResentAnew(s) == sendRemoval(s)

\* One correlated removal, built once and resent.
Resent(s) == s

\* UdpHandler::sendPredecessorTokenRemovalAttempt on its 500 ms timer.
PredecessorRetry(p) ==
    /\ h[p].phase = "up" /\ h[p].pred # NoProc
    /\ \/ /\ h[p].attempts < RemovalAttempts
          /\ LET s == Resent([h[p] EXCEPT !.attempts = @ + 1])
             IN  Become(p, s, net \cup {Msg("removal", p, s.removal.seq, s.removal.id)})
       \/ /\ h[p].attempts = RemovalAttempts
          /\ Become(p, [h[p] EXCEPT !.pred = NoProc, !.attempts = 0,
                                    !.reported = TRUE], net)
    /\ UNCHANGED <<journal, radio, bounds>>

\* The login response; the capabilities follow it at once.
LoginResponse(m) ==
    /\ Arrives(m, "welcome")
    /\ LET s == [Cleared(h[m.p], {"login"}) EXCEPT !.radios = @ \/ Listening(h[m.p])]
           answered == [s EXCEPT !.id[2] = m.id[2]]
       IN  Receive(m,
             IF ~Listening(s) THEN answered
             ELSE IF s.authed \/ s.id[1] # m.id[1] THEN s
             ELSE [sendRenewal(answered) EXCEPT !.authed = TRUE])
    /\ UNCHANGED <<journal, radio, connects, renewals, takes>>

LoginDenied(m) ==
    /\ Arrives(m, "denied")
    /\ Receive(m, [Cleared(h[m.p], {"login"}) EXCEPT !.reported = TRUE])
    /\ UNCHANGED <<journal, radio, connects, renewals, takes>>

-----------------------------------------------------------------------------
(* Authentication and streams.                                             *)

\* Streams are requested once both authentication and the ports are there.
RequestWhenReady(s) ==
    IF ~s.opened /\ ~s.stream.pending /\ s.ports THEN sendRequestStream(s) ELSE s

\* The journal after a renewal, keeping the transport identities.
RenewedJournal(p, id) ==
    {[owner |-> p, id |-> id, full |-> \E j \in journal : j.owner = p /\ j.full]}

\* A renewal is accepted, or answered at all for the first time.
TokenRenewed(m) ==
    /\ \/ Arrives(m, "renewed")
       \/ Arrives(m, "refused") /\ ~h[m.p].gotAuth
    /\ LET s == [Cleared(h[m.p], {"renewal"}) EXCEPT
                    !.id = m.id, !.ticking = TRUE, !.gotAuth = TRUE]
       IN  /\ journal' = IF permitsRadioTeardown(s) THEN RenewedJournal(m.p, m.id)
                                                     ELSE journal
           /\ Receive(m, RequestWhenReady(s))
    /\ UNCHANGED <<radio, connects, renewals, takes>>

\* A later renewal is refused: log in again.
TokenRefused(m) ==
    /\ Arrives(m, "refused") /\ h[m.p].gotAuth
    /\ Receive(m, sendLogin([closeStreams(Cleared(h[m.p], {"renewal"})) EXCEPT
                                !.id = m.id, !.gotAuth = FALSE, !.authed = FALSE]))
    /\ UNCHANGED <<journal, radio, connects, renewals, takes>>

\* RadioSessionOwnership::acquire.
Acquired(s) == [s EXCEPT !.owned = TRUE]

\* Bug for the mutation test: the grant is not journaled.
GrantNotSaved(p, id) == journal

\* Bug for the mutation test: the record joins an older one.
GrantAppended(p, id) == journal \cup {[owner |-> p, id |-> id, full |-> FALSE]}

\* The token-only record written at the ownership boundary.
GrantJournal(p, id) == {[owner |-> p, id |-> id, full |-> FALSE]}

\* STATUS: the streams are granted.
StreamGranted(m) ==
    /\ Arrives(m, "grant")
    /\ LET s == Acquired(Cleared(h[m.p], {"stream"}))
       IN  /\ journal' = GrantJournal(m.p, s.id)
           /\ Receive(m, [s EXCEPT !.reclaims = 0, !.reclaim = FALSE, !.opened = TRUE,
                                   !.resetTried = FALSE, !.ports = FALSE])
    /\ UNCHANGED <<radio, connects, renewals, takes>>

\* STATUS: the streams are denied.  During a recovery the reissued token is
\* retired once and the login repeated 50 ms later.
StreamRejected(m) ==
    /\ Arrives(m, "rejected")
    /\ LET s == Cleared(h[m.p], {"stream"})
       IN  Receive(m,
             IF s.reclaim /\ ~s.resetTried
             THEN [closeStreams(Cleared(sendRemoval(s), Kinds \ {"removal"})) EXCEPT
                      !.resetTried = TRUE, !.ticking = FALSE, !.relogin = TRUE,
                      !.gotAuth = FALSE, !.authed = FALSE]
             ELSE [s EXCEPT !.reported = TRUE])
    /\ UNCHANGED <<journal, radio, connects, renewals, takes>>

\* The 50 ms single shot of StreamRejected.
LoginAgain(p) ==
    /\ h[p].phase = "up" /\ h[p].relogin
    /\ Become(p, sendLogin(selectIfKnown([h[p] EXCEPT !.relogin = FALSE])), net)
    /\ UNCHANGED <<journal, radio, bounds>>

\* CONNINFO in its grant form: the identity it names is taken over.
GrantAdvertised(m) ==
    /\ Arrives(m, "advert")
    /\ Receive(m, [h[m.p] EXCEPT !.id = m.id])
    /\ UNCHANGED <<journal, radio, connects, renewals, takes>>

\* UdpHandler::startMediaStreamsWhenReady: both media transports are up.
MediaReady(p) ==
    /\ h[p].phase = "up" /\ h[p].opened /\ ~h[p].media
    /\ journal' = {[owner |-> p, id |-> h[p].id, full |-> TRUE]}
    /\ Become(p, [h[p] EXCEPT !.media = TRUE], net)
    /\ UNCHANGED <<radio, bounds>>

\* tokenTimer.
RenewalDue(p) ==
    /\ h[p].phase = "up" /\ h[p].ticking /\ renewals < MaxRenewals
    /\ renewals' = renewals + 1
    /\ Become(p, sendRenewal(h[p]), net)
    /\ UNCHANGED <<journal, radio, connects, faults, takes>>

-----------------------------------------------------------------------------
(* Availability and recovery.                                              *)

\* A status advertisement that the handler acts on.
Noticed(m, kind) == Arrives(m, kind) /\ ~h[m.p].opened /\ h[m.p].radios

\* A status refresh while the streams are open, or before the capabilities.
InfoIgnored(m) ==
    /\ \E kind \in {"free", "foreign", "busy"} : Arrives(m, kind) /\ ~Noticed(m, kind)
    /\ Receive(m, h[m.p])
    /\ UNCHANGED <<journal, radio, connects, renewals, takes>>

RadioAvailable(m) ==
    /\ Noticed(m, "free")
    /\ Receive(m, setCurrentRadio(h[m.p]))
    /\ UNCHANGED <<journal, radio, connects, renewals, takes>>

\* Busy by this process: the grant of the pending request, or a session an
\* earlier connection left behind.
BusyBySelf(m) ==
    /\ Noticed(m, "busy") /\ names[m.id[1]] = m.p
    /\ LET s == h[m.p]
       IN  Receive(m, IF s.gotAuth /\ s.stream.pending THEN s
                      ELSE [s EXCEPT !.reported = TRUE])
    /\ UNCHANGED <<journal, radio, connects, renewals, takes>>

BusyByForeign(m) ==
    /\ Noticed(m, "foreign")
    /\ Receive(m, [h[m.p] EXCEPT !.reported = TRUE])
    /\ UNCHANGED <<journal, radio, connects, renewals, takes>>

\* UdpHandler::requestRetainedSessionRecovery: busy by another SDR9700
\* process of this host.
BusyBySibling(m) ==
    /\ Noticed(m, "busy") /\ names[m.id[1]] # m.p
    /\ LET s == h[m.p]
           known == {j \in Recoverable : j.owner = names[m.id[1]]}
       IN  \/ /\ s.reclaim
              /\ Receive(m, s)
           \/ /\ ~s.reclaim /\ (s.reclaims >= ReclaimLimit \/ known = {})
              /\ Receive(m, [s EXCEPT !.reported = TRUE])
           \/ /\ ~s.reclaim /\ s.reclaims < ReclaimLimit
              /\ \E j \in known :
                    LET r == beginPredecessorTokenRemoval(
                                [s EXCEPT !.reclaim = TRUE, !.ticking = FALSE,
                                          !.reclaims = @ + 1], j)
                    IN  /\ h' = [h EXCEPT ![m.p] = r]
                        /\ net' = (net \ {m}) \cup Departures(s, j)
                                   \cup {Msg("removal", m.p, r.removal.seq, r.removal.id)}
                        /\ UNCHANGED <<names, faults>>
    /\ UNCHANGED <<journal, radio, connects, renewals, takes>>

\* TOKEN: a removal is acknowledged, during recovery or shutdown.
RemovalAcknowledged(m) ==
    /\ Arrives(m, "removed")
    /\ LET s == [Cleared(h[m.p], {"removal"}) EXCEPT !.ack = TRUE]
       IN  IF s.pred # NoProc
           THEN /\ journal' = JournalWithout(s.pred)
                /\ Receive(m, completePredecessorTokenRemoval(s))
           ELSE UNCHANGED journal /\ Receive(m, s)
    /\ UNCHANGED <<radio, connects, renewals, takes>>

\* STATUS with disc=1: the radio ended the session of the current identity.
SessionEnded(m) ==
    /\ Arrives(m, "ended")
    /\ LET s == [h[m.p] EXCEPT !.disc = TRUE]
       IN  IF s.pred # NoProc
           THEN /\ journal' = JournalWithout(s.pred)
                /\ Receive(m, completePredecessorTokenRemoval(s))
           ELSE /\ UNCHANGED journal
                /\ Receive(m, IF Listening(s)
                              THEN [closeStreams(s) EXCEPT
                                      !.owned = FALSE, !.reported = @ \/ ~s.reclaim]
                              ELSE closeStreams(s))
    /\ UNCHANGED <<radio, connects, renewals, takes>>

-----------------------------------------------------------------------------
(* Shutdown and crash.                                                     *)

\* The socket is closed and the handler deleted.
Closed(p) ==
    /\ h' = [h EXCEPT ![p] = Handler("off")]
    /\ UNCHANGED names

\* UdpHandler::shutdown() up to the settle wait; without an owned session
\* nothing is sent.
Shutdown(p) ==
    /\ h[p].phase \in {"discover", "up"}
    /\ \/ /\ ~permitsRadioTeardown(h[p])
          /\ Closed(p)
          /\ net' = Orphaned(p)
       \/ /\ permitsRadioTeardown(h[p])
          /\ Become(p, [h[p] EXCEPT !.phase = "settling", !.ticking = FALSE,
                                    !.ack = FALSE, !.disc = FALSE],
                    IF h[p].opened THEN net \cup {Msg("depart", NoProc, 0, h[p].id)} ELSE net)
    /\ UNCHANGED <<journal, radio, bounds>>

\* Bug for the mutation test: the loop goes on until the radio answers.
UnboundedAttempts(s) == FALSE

\* The removal loop of releaseAuthenticationToken has used up its attempts.
AttemptsSpent(s) == s.attempts = RemovalAttempts

\* The 500 ms settle wait ends; an earlier disc=1 is forgotten.
SettleEnds(p) ==
    /\ h[p].phase = "settling"
    /\ h' = [h EXCEPT ![p].phase = "removing", ![p].attempts = 0, ![p].disc = FALSE]
    /\ UNCHANGED <<journal, net, names, radio, bounds>>

\* One turn of the removal loop: every attempt is a new request.
RemovalAttempt(p) ==
    /\ h[p].phase = "removing" /\ ~h[p].ack /\ ~h[p].disc
    /\ h[p].attempts < RemovalAttempts
    /\ Become(p, sendRemoval([h[p] EXCEPT !.attempts = @ + 1]), net)
    /\ UNCHANGED <<journal, radio, bounds>>

\* Bug for the mutation test: the journal goes with the session.
RemovedAlways(s, p) == JournalWithout(p)

\* The record is removed only if the radio confirmed the end of the session.
ReleasedJournal(s, p) == IF s.ack \/ s.disc THEN JournalWithout(p) ELSE journal

\* The rest of releaseAuthenticationToken and shutdown(), control departure
\* included.
ShutdownCompletes(p) ==
    /\ h[p].phase = "removing"
    /\ h[p].ack \/ h[p].disc \/ AttemptsSpent(h[p])
    /\ journal' = ReleasedJournal(h[p], p)
    /\ net' = Orphaned(p) \cup {Msg("depart", NoProc, 0, h[p].id)}
    /\ Closed(p)
    /\ UNCHANGED <<radio, bounds>>

\* The process dies, or exits.
Crash(p) ==
    /\ h[p].phase # "dead"
    /\ h' = [h EXCEPT ![p] = Handler("dead")]
    /\ net' = Orphaned(p)
    /\ UNCHANGED <<journal, names, radio, bounds>>

-----------------------------------------------------------------------------
(* The radio and the network (external).                                   *)

Sent(m, kind) == m.kind = kind /\ m.kind \in Requests

\* The radio takes m and answers the process that sent it.
Answer(m, replies) ==
    /\ net' = (net \ {m}) \cup (IF Open(m.p) THEN replies ELSE {})
    /\ UNCHANGED <<h, journal, names, bounds>>

Authentic(m) == m.id[1] = m.id[2] /\ m.id[1] \in tokens

RadioLogin(m) ==
    /\ Sent(m, "login")
    /\ \/ /\ tokens' = tokens \cup {m.id[1]}
          /\ Answer(m, {Msg("welcome", m.p, m.seq, Id(m.id[1]))})
       \/ /\ "deny" \in RadioMay
          /\ Answer(m, {Msg("denied", m.p, m.seq, m.id)})
          /\ UNCHANGED tokens
    /\ UNCHANGED <<session, foreign, granted>>

RadioRenews(m) ==
    /\ Sent(m, "renewal")
    /\ \/ Authentic(m) /\ Answer(m, {Msg("renewed", m.p, m.seq, m.id)})
       \/ ~Authentic(m) /\ Answer(m, {Msg("refused", m.p, m.seq, m.id)})
       \/ /\ "reissue" \in RadioMay /\ Open(m.p) /\ ~h[m.p].gotAuth
          /\ \E n \in tokens :
                /\ ~Open(names[n]) \/ names[n] = m.p
                /\ Answer(m, {Msg("refused", m.p, m.seq, Id(n))})
    /\ UNCHANGED radio

RadioRemoves(m) ==
    /\ Sent(m, "removal")
    /\ tokens' = IF Authentic(m) THEN tokens \ {m.id[1]} ELSE tokens
    /\ session' = IF Authentic(m) /\ session = m.id[1] THEN 0 ELSE session
    /\ Answer(m, {Msg("removed", m.p, m.seq, m.id)})
    /\ UNCHANGED <<foreign, granted>>

RadioGrants(m) ==
    /\ Sent(m, "stream") /\ Authentic(m) /\ ~foreign /\ session \in {0, m.id[1]}
    /\ session' = m.id[1] /\ granted' = granted \cup {m.id[1]}
    /\ Answer(m, {Msg("grant", m.p, m.seq, m.id), Msg("advert", m.p, m.seq, m.id)})
    /\ UNCHANGED <<tokens, foreign>>

RadioRejects(m) ==
    /\ Sent(m, "stream") /\ ~(Authentic(m) /\ ~foreign /\ session \in {0, m.id[1]})
    /\ Answer(m, {Msg("rejected", m.p, m.seq, m.id)})
    /\ UNCHANGED radio

\* A departure may or may not end the streams at once.
RadioSeesDeparture(m) ==
    /\ Sent(m, "depart")
    /\ Answer(m, {})
    /\ session' \in {session, IF m.id = Id(session) THEN 0 ELSE session}
    /\ UNCHANGED <<tokens, foreign, granted>>

\* The status of the radio, advertised to every authenticated client.  Bounds:
\* one advertisement at a time, none overtakes a stream request or its
\* rejection, and with concurrent clients only to one without open or requested
\* streams, once the requests of closed sockets are seen or lost.
RadioAdvertises(p) ==
    /\ Open(p) /\ \E n \in tokens : names[n] = p
    /\ Concurrent => /\ Listening(h[p]) /\ ~h[p].opened /\ ~h[p].stream.pending
                     /\ \A m \in net : m.p # NoProc
    /\ \A m \in net : /\ m.kind \notin {"free", "foreign", "busy"}
                      /\ m.p = p => m.kind \notin {"stream", "rejected"}
    /\ net' = net \cup {Msg(IF foreign THEN "foreign" ELSE IF session = 0 THEN "free" ELSE "busy",
                            p, 0, Id(session))}
    /\ UNCHANGED <<h, journal, names, radio, bounds>>

\* The radio ends the session and says so.  Bound: not while the session is
\* still being negotiated.
RadioEnds ==
    /\ session # 0 /\ faults < MaxFaults
    /\ \A q \in Procs : Open(q) => ~h[q].stream.pending
    /\ \A m \in net : m.kind # "stream"
    /\ faults' = faults + 1
    /\ session' = 0
    /\ net' = IF Open(names[session])
               THEN net \cup {Msg("ended", names[session], 0, Id(session))} ELSE net
    /\ UNCHANGED <<h, journal, names, tokens, foreign, granted, connects, renewals, takes>>

\* The radio forgets an authentication, and its session with it.
RadioForgets ==
    /\ "forget" \in RadioMay /\ faults < MaxFaults
    /\ faults' = faults + 1
    /\ \E n \in tokens : /\ tokens' = tokens \ {n}
                          /\ session' = IF session = n THEN 0 ELSE session
    /\ UNCHANGED <<h, journal, net, names, foreign, granted, connects, renewals, takes>>

ForeignTakes ==
    /\ session = 0 /\ ~foreign /\ takes < MaxForeign
    /\ foreign' = TRUE /\ takes' = takes + 1
    /\ UNCHANGED <<h, journal, net, names, tokens, session, granted, connects, renewals, faults>>

ForeignLeaves ==
    /\ foreign /\ foreign' = FALSE
    /\ UNCHANGED <<h, journal, net, names, tokens, session, granted, bounds>>

Lose(m) ==
    /\ faults < MaxFaults /\ faults' = faults + 1
    /\ net' = net \ {m}
    /\ UNCHANGED <<h, journal, names, radio, connects, renewals, takes>>

-----------------------------------------------------------------------------
Timers(p) ==
    \/ TransportReady(p) \/ PredecessorRetry(p) \/ LoginAgain(p) \/ MediaReady(p)
    \/ RenewalDue(p)
Teardown(p) == SettleEnds(p) \/ RemovalAttempt(p) \/ ShutdownCompletes(p)
Arrival(m) ==
    \/ LoginResponse(m) \/ LoginDenied(m) \/ TokenRenewed(m) \/ TokenRefused(m)
    \/ StreamGranted(m) \/ StreamRejected(m) \/ GrantAdvertised(m)
    \/ InfoIgnored(m) \/ RadioAvailable(m) \/ BusyBySelf(m) \/ BusyByForeign(m)
    \/ BusyBySibling(m) \/ RemovalAcknowledged(m) \/ SessionEnded(m) \/ Ignored(m)
AtRadio(m) ==
    \/ RadioLogin(m) \/ RadioRenews(m) \/ RadioRemoves(m) \/ RadioGrants(m)
    \/ RadioRejects(m) \/ RadioSeesDeparture(m)
Environment == RadioEnds \/ RadioForgets \/ ForeignTakes \/ ForeignLeaves

Next ==
    \/ \E p \in Procs : \/ Connect(p) \/ Shutdown(p) \/ Crash(p) \/ Teardown(p)
                        \/ Timers(p) /\ ~Closing(p)
                        \/ RadioAdvertises(p)
    \/ \E m \in net : Arrival(m) \/ AtRadio(m) \/ Lose(m)
    \/ Environment

Spec == Init /\ [][Next]_vars

\* Every timer that runs expires, the network delivers requests, answers and
\* statuses in the end, in any order, and the radio keeps answering and
\* advertising.  Nobody has to connect, shut down, crash or lose anything.
Statuses == {"free", "foreign", "busy"}
ReplyArrives(p, kinds) == \E m \in net : m.p = p /\ m.kind \in kinds /\ Arrival(m)
RequestArrives(p)      == \E m \in net : m.p = p /\ AtRadio(m)

\* What the owning thread of a handler does by itself.
Thread(p) == TransportReady(p) \/ PredecessorRetry(p) \/ LoginAgain(p) \/ Teardown(p)

FairSpec ==
    /\ Spec
    /\ \A p \in Procs :
          /\ WF_vars(Thread(p)) /\ WF_vars(RadioAdvertises(p))
          /\ WF_vars(ReplyArrives(p, Replies \ Statuses)) /\ WF_vars(ReplyArrives(p, Statuses))
    /\ WF_vars(\E p \in Procs \cup {NoProc} : RequestArrives(p))
    /\ WF_vars(ForeignLeaves)

-----------------------------------------------------------------------------
(* Properties.                                                             *)

\* The fields of a handler, of the journal and of a datagram have their
\* types, and a reply or request names a login that was sent.
Identity == (0..Len(names)) \X (0..Len(names))
HandlerOK(s) ==
    /\ s.phase \in {"off", "discover", "up", "settling", "removing", "dead"}
    /\ s.seq \in Nat \ {0} /\ s.id \in Identity
    /\ \A k \in Kinds : s[k] \in Request /\ s[k].id \in Identity /\ s[k].seq < s.seq
    /\ \A b \in {"authed", "gotAuth", "ticking", "owned", "opened", "media", "radios",
                  "ports", "reclaim", "resetTried", "relogin", "retired", "ack", "disc",
                  "reported"} : s[b] \in BOOLEAN
    /\ s.reclaims \in 0..(ReclaimLimit + 1) /\ s.attempts \in 0..RemovalAttempts
    /\ s.pred \in Procs \cup {NoProc}
TypeOK ==
    /\ names \in Seq(Procs)
    /\ \A p \in Procs : HandlerOK(h[p])
    /\ Cardinality(journal) <= 1
    /\ \A j \in journal : j \in [owner : Procs, id : Identity, full : BOOLEAN]
    /\ \A m \in net : /\ m.kind \in Requests \cup Replies
                      /\ m.p \in Procs \cup {NoProc} /\ m.id \in Identity
    /\ tokens \subseteq 1..Len(names) /\ session \in tokens \cup {0}
    /\ granted \subseteq 1..Len(names) /\ foreign \in BOOLEAN
    /\ connects \in 0..MaxConnects /\ renewals \in 0..MaxRenewals
    /\ faults \in 0..MaxFaults /\ takes \in 0..MaxForeign

\* A live process that owns the radio's session has it in the journal, so
\* that a crash at any moment leaves a record that can retire it.
JournalCoversSession ==
    \A p \in Procs :
        h[p].phase = "up" /\ h[p].owned /\ session # 0 /\ h[p].id = Id(session)
            => \E j \in journal : j.owner = p /\ j.id = Id(session)

\* The journal record of a session is given up only when the radio has ended
\* that session.
RecordKept  == \A j \in journal : journal' = {} => j.id # Id(session)
JournalKept == [][RecordKept]_vars

\* Shutdown never restarts anything: no login, renewal or stream request
\* leaves a handler that is closing, and its streams stay closed.
StaysClosed ==
    \A p \in Procs : {h[p].phase, h'[p].phase} \subseteq {"settling", "removing"} =>
        /\ Fresh(p, h'[p]) \subseteq {"removal"}
        /\ h'[p].opened => h[p].opened
ClosingStaysClosed == [][StaysClosed]_vars

\* Teardown at shutdown names only an identity that was granted the streams.
TeardownOnlyOfGranted ==
    \A p \in Procs :
        h[p].phase = "removing" /\ h[p].attempts > 0
            => h[p].id[1] = h[p].id[2] /\ h[p].id[1] \in granted

\* No process removes the identity under which another live process owns the
\* session.
LiveSessionsUntouched ==
    \A m \in net : m.kind = "removal" /\ Open(m.p) =>
        \A q \in Procs \ {m.p} : Open(q) /\ h[q].owned => h[q].id # m.id

\* No login overlaps the removal of a predecessor's token, except after the
\* reset that a rejected stream request makes meanwhile (a "free" status sends
\* that request without waiting for the removal).
LoginAfterRemoval ==
    \A p \in Procs : h[p].phase = "up" /\ h[p].pred # NoProc /\ ~h[p].resetTried
        => ~h[p].login.pending

\* A connection attempt ends: with the streams open, with an error reported,
\* or because somebody closed it.  A lost datagram excuses it.
Waits(p) == h[p].phase \in {"discover", "up"} /\ ~h[p].opened /\ ~h[p].reported
NobodyWaits == faults > 0 \/ \A p \in Procs : ~Waits(p)
NegotiationCompletes == []<>NobodyWaits

\* A shutdown, which runs on the handler's own thread, never waits for an
\* answer of the radio: whatever was lost or forgotten, it has a next step.
ShutdownNeverWaits ==
    \A p \in Procs : h[p].phase \in {"settling", "removing"} => ENABLED Teardown(p)

\* However late, the radio's answer to a predecessor's removal counts, with the
\* same exception.
RecoveryAckCounts ==
    \A m \in net :
        /\ m.kind = "removed" /\ Open(m.p) /\ h[m.p].pred # NoProc /\ ~h[m.p].resetTried
        /\ m.id = h[m.p].removal.id
        => m.seq = h[m.p].removal.seq

=============================================================================
