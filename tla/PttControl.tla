----------------------------- MODULE PttControl -----------------------------
(***************************************************************************)
(* Push-to-talk: who keys the radio, who unkeys it, and who notices.       *)
(*                                                                         *)
(* Four actors share the job and none of them sees the others' state:      *)
(*   - the GUI thread (RadioBackend) keeps the PttConfirmationPolicy       *)
(*     flags and four single-shot timers;                                  *)
(*   - the radio-worker thread (Commander) runs the lambdas RadioBackend   *)
(*     posts to it and decides when a status read may go out;              *)
(*   - the radio, behind a UDP link that can lose a frame;                 *)
(*   - the value pipeline, which hands a status reply back to the GUI      *)
(*     thread some time after the radio produced it.                       *)
(*                                                                         *)
(* Commands reach the radio in order.  The radio reports its physical      *)
(* transmit state, which follows the last key or unkey command only after  *)
(* a while (RadioBackend.cpp: "The IC-9700 can answer the first status     *)
(* read before its unkey command has taken effect").                       *)
(***************************************************************************)
EXTENDS Integers, Sequences, FiniteSets

CONSTANTS
    SwrLimit,        \* consecutive high SWR readings that stop a transmission
    MaxPresses,      \* bound: presses of the PTT button
    MaxSessions,     \* bound: connections made
    MaxFaults,       \* bound: frames lost or answered after their read expired
    MaxInFlight,     \* bound: length of every queue between two actors
    Unhurried        \* TRUE: presses and the 1 s and 180 s timeouts happen only
                     \* while no status read or command is outstanding

ASSUME PttAssumption ==
    /\ SwrLimit \in Nat \ {0}
    /\ MaxPresses \in Nat /\ MaxSessions \in Nat /\ MaxFaults \in Nat
    /\ MaxInFlight \in Nat \ {0}
    /\ Unhurried \in BOOLEAN

VARIABLES
    conn,        \* the session: "down", "up", or "closing" (GUI thread blocked)
    desired, confirmed, offPending,     \* PttConfirmationPolicy
    timers,      \* the running timers: release tail, on/off confirmation, maximum
    swrHigh,     \* TransmitSafetyPolicy::m_highReadingCount
    shown,       \* transmit state last published to the GUI (RadioModel::m_transmitting)
    released,    \* the operator's last accepted request was a release
    inherited,   \* a status of an ended session was applied to the flags
    safety,      \* sendSafetyCommands of the closing, kept by its lambda; TRUE before
    posted,      \* lambdas posted to the radio-worker thread
    queuedRead,  \* the readback of a set waits in the CachingQueue
    live,        \* a status read is pending (m_pendingReplies)
    draining,    \* the reply family is blocked after a reply or an expiry
    deferred,    \* a read waits in m_deferredReplyReads
    wire,        \* frames on their way to the radio
    replies,     \* status replies on their way back
    events,      \* pttChanged events queued to the GUI thread
    keyed,       \* the last key/unkey command the radio executed
    tx,          \* the radio is physically transmitting
    presses, sessions, faults           \* counters for the bounds

policy == <<desired, confirmed, offPending>>
view   == <<shown, inherited>>
worker == <<queuedRead, live, draining, deferred>>
link   == <<wire, replies, events, keyed, tx>>
bounds == <<presses, sessions, faults>>
gui    == <<policy, timers, swrHigh, released, view>>
vars   == <<conn, safety, gui, posted, worker, link, bounds>>

Timers == {"tail", "on", "off", "max"}
Posts  == {"on", "off", "read", "close"}
Frames == {"on", "off", "read"}

Room(q) == Len(q) < MaxInFlight

safetyActive == confirmed \/ desired \/ offPending

Init ==
    /\ conn = "down" /\ safety = TRUE
    /\ desired = FALSE /\ confirmed = FALSE /\ offPending = FALSE
    /\ timers = {} /\ swrHigh = 0 /\ released = FALSE
    /\ shown = FALSE /\ inherited = FALSE
    /\ posted = <<>> /\ wire = <<>> /\ replies = <<>> /\ events = <<>>
    /\ queuedRead = FALSE /\ live = FALSE /\ draining = FALSE /\ deferred = FALSE
    /\ keyed = FALSE /\ tx = FALSE
    /\ presses = 0 /\ sessions = 0 /\ faults = 0

-----------------------------------------------------------------------------
(* The GUI thread: requests and timers.                                    *)

\* A status read, or a command it may overtake, is somewhere on its way.
ReadOutstanding ==
    \/ posted # <<>> \/ wire # <<>> \/ replies # <<>> \/ events # <<>>
    \/ queuedRead \/ live \/ draining \/ deferred \/ tx # keyed

\* RadioBackend::setPtt(true) with every gate open: audio ready, no pending
\* dual-watch transition, transmit configuration confirmed and in band.
PressPtt ==
    /\ conn = "up" /\ presses < MaxPresses
    /\ Unhurried => ~ReadOutstanding
    /\ presses' = presses + 1
    /\ released' = FALSE
    /\ desired' = TRUE /\ offPending' = FALSE
    /\ \/ /\ ~desired \/ offPending
          /\ Room(posted)
          /\ posted' = Append(posted, "on")
          /\ timers' = (timers \ {"tail", "off"}) \cup {"on", "max"}
          /\ swrHigh' = IF "max" \in timers THEN swrHigh ELSE 0
       \/ /\ desired /\ ~offPending
          /\ timers' = timers \ {"tail", "off"}
          /\ UNCHANGED <<posted, swrHigh>>
    /\ UNCHANGED <<conn, safety, confirmed, view, worker, link, sessions, faults>>

\* Bug for the mutation test: the unkey is not sent.
UnkeyDropped(q) == q

\* The lambda posted by sendPttOffNow.
Unkey(q) == Append(q, "off")

\* RadioBackend::sendPttOffNow, the one way out of every transmission.
\* "fired" is the timer, if any, whose expiry called it.
sendPttOffNow(fired) ==
    /\ Room(posted)
    /\ posted' = Unkey(posted)
    /\ desired' = FALSE /\ offPending' = TRUE
    /\ timers' = (timers \ ({"tail", "on"} \cup fired)) \cup {"off"}
    /\ UNCHANGED <<conn, safety, confirmed, view, worker, link, bounds>>

\* Bug for the mutation test: the release does not start its tail timer.
ReleaseWithoutTail == timers

\* The timers once a release is accepted during a transmission.
ReleaseTail == timers \cup {"tail"}

\* RadioBackend::setPtt(false): keep the radio keyed for the release tail, or
\* send the unkey at once when nothing is known to be transmitting.
ReleasePtt ==
    /\ conn = "up"
    /\ released' = TRUE
    /\ UNCHANGED swrHigh
    /\ \/ /\ "tail" \notin timers /\ ~confirmed /\ ~desired
          /\ sendPttOffNow({})
       \/ /\ "tail" \in timers \/ confirmed \/ desired
          /\ timers' = ReleaseTail
          /\ UNCHANGED <<conn, safety, policy, view, posted, worker, link, bounds>>

TailExpires ==
    /\ conn = "up" /\ "tail" \in timers
    /\ sendPttOffNow({"tail"})
    /\ UNCHANGED <<swrHigh, released>>

\* The radio did not confirm transmit in time: stop the attempt.
OnExpires ==
    /\ conn = "up" /\ "on" \in timers
    /\ Unhurried => ~ReadOutstanding
    /\ UNCHANGED <<swrHigh, released>>
    /\ \/ desired /\ ~confirmed /\ sendPttOffNow({"on"})
       \/ /\ ~desired \/ confirmed
          /\ timers' = timers \ {"on"}
          /\ UNCHANGED <<conn, safety, policy, view, posted, worker, link, bounds>>

\* Bug for the mutation test: the single-shot timer is not restarted.
NotRestarted == timers \ {"off"}

\* The timers after a confirmation read: fast, then slow, but always again.
Restarted == timers \cup {"off"}

\* Ask again whether the unkey took effect; the timer restarts itself.
OffExpires ==
    /\ conn = "up" /\ "off" \in timers
    /\ \/ /\ offPending /\ Room(posted)
          /\ posted' = Append(posted, "read")
          /\ timers' = Restarted
       \/ /\ ~offPending
          /\ timers' = timers \ {"off"}
          /\ UNCHANGED posted
    /\ UNCHANGED <<conn, safety, policy, swrHigh, released, view, worker, link, bounds>>

\* RadioBackend::forcePttOffForSafety, called by the maximum-duration timer.
MaxExpires ==
    /\ conn # "closing" /\ "max" \in timers
    /\ Unhurried => ~ReadOutstanding
    /\ UNCHANGED released
    /\ \/ /\ conn = "up" /\ safetyActive
          /\ sendPttOffNow({"max"})
          /\ UNCHANGED swrHigh
       \/ /\ conn = "down" \/ ~safetyActive
          /\ timers' = timers \ {"max"} /\ swrHigh' = 0
          /\ UNCHANGED <<conn, safety, policy, view, posted, worker, link, bounds>>

\* Bug for the mutation test: == instead of >=, a count may pass the limit.
CutoffExactly == swrHigh + 1 = SwrLimit

\* TransmitSafetyPolicy::observe for a high reading while transmitting.
CutoffReached == swrHigh + 1 >= SwrLimit

\* RadioBackend::handleTransmitSwr.  The count stops at SwrLimit, where every
\* further high reading does the same again.
SwrReading(high) ==
    /\ conn = "up"
    /\ UNCHANGED released
    /\ \/ /\ high /\ safetyActive /\ CutoffReached
          /\ swrHigh' = SwrLimit
          /\ sendPttOffNow({})
       \/ /\ ~high \/ ~safetyActive \/ ~CutoffReached
          /\ swrHigh' = IF high /\ safetyActive THEN swrHigh + 1 ELSE 0
          /\ UNCHANGED <<conn, safety, policy, timers, view, posted, worker, link, bounds>>

\* Bug for the mutation test: a confirmed transmission arms no limit.
StatusTimersUnarmed(on) ==
    IF on THEN timers \ {"on"}
    ELSE timers \ ({"tail", "off", "max"} \cup (IF desired THEN {} ELSE {"on"}))

\* The timers after a status reply that is not held back by an unkey: a "TX"
\* arms the limit; an "RX" ends every timer but a running confirmation.
StatusTimers(on) ==
    IF on THEN (timers \ {"on"}) \cup {"max"}
    ELSE timers \ ({"tail", "off", "max"} \cup (IF desired THEN {} ELSE {"on"}))

\* Bug for the mutation test: the return to receive is never published.
PublishedOnOnly(on) == on \/ shown

\* PttConfirmationPolicy::shouldPublishReadback and the emit it guards.
Published(on) == IF on # confirmed THEN on ELSE shown

\* The pttChanged handler: a status reply reaches the GUI thread.  It checks
\* neither the session nor which request the reply answers.
StatusDelivered ==
    /\ conn # "closing" /\ events # <<>>
    /\ events' = Tail(events)
    /\ LET on == Head(events) IN
       /\ confirmed' = on
       /\ inherited' = (on /\ (inherited \/ conn = "down"))
       /\ IF on /\ offPending
          THEN /\ shown' = TRUE
               /\ UNCHANGED <<offPending, timers, swrHigh>>
          ELSE /\ shown' = Published(on)
               /\ offPending' = FALSE
               /\ timers' = StatusTimers(on)
               /\ swrHigh' = IF on /\ "max" \in timers THEN swrHigh ELSE 0
    /\ UNCHANGED <<conn, safety, desired, released, posted, worker, wire, replies,
                   keyed, tx, bounds>>

-----------------------------------------------------------------------------
(* The session.                                                            *)

\* A session reaches the point where PTT is allowed; its start-up work has
\* posted one status read.
Connect ==
    /\ conn = "down" /\ sessions < MaxSessions
    /\ posted = <<>> /\ wire = <<>>
    /\ conn' = "up" /\ sessions' = sessions + 1
    /\ posted' = <<"read">>
    /\ safety' = TRUE
    /\ UNCHANGED <<gui, worker, link, presses, faults>>

\* RadioBackend::shutdownConnection: lambdas already posted become no-ops, the
\* flags and timers are reset, and the GUI thread waits for the last lambda.
\* What it publishes after that wait, with nothing of its own in between, is
\* published here: RadioModel shows "receive" on the signal disconnected only.
shutdownConnection(emitDisconnectedSignal, sendSafetyCommands) ==
    /\ conn' = "closing"
    /\ safety' = sendSafetyCommands
    /\ posted' = <<"close">>
    /\ desired' = FALSE /\ confirmed' = FALSE /\ offPending' = FALSE
    /\ timers' = {} /\ swrHigh' = 0 /\ released' = FALSE
    /\ shown' = (shown /\ ~emitDisconnectedSignal)
    /\ inherited' = FALSE
    /\ UNCHANGED <<worker, link, bounds>>

\* The operator disconnects or the synchronisation times out (with the signal),
\* the operator connects anew, quits, or the transport fails (without).  Each
\* sends the safety commands once the radio has identified itself, which it has
\* in every session that is up.
Disconnect ==
    /\ conn = "up"
    /\ \E signal \in BOOLEAN : shutdownConnection(signal, TRUE)

\* Ten seconds after a standby wake its callback replaces the session, without
\* safety commands and without a test whether the session became usable.  Which
\* sessions were reached over a wake is not kept: any may be one whose identity
\* reply came late.
WakeDelayEnds == conn = "up" /\ shutdownConnection(FALSE, FALSE)

\* Bug for the mutation test: the session closes without its unkey.
SafetySkipped(q) == q

\* The transmit part of sendDisconnectSafetyCommands.
SafetyCommands(q) == Append(q, "off")

\* The close lambda: sendDisconnectSafetyCommands if this closing sends them,
\* then closeComm; the unkey goes out last, and the reads die with the session.
CloseRuns ==
    /\ conn = "closing" /\ posted = <<"close">>
    /\ conn' = "down" /\ posted' = <<>>
    /\ wire' = IF safety THEN SafetyCommands(wire) ELSE wire
    /\ replies' = <<>>
    /\ queuedRead' = FALSE /\ live' = FALSE /\ draining' = FALSE /\ deferred' = FALSE
    /\ UNCHANGED <<safety, gui, events, keyed, tx, bounds>>

-----------------------------------------------------------------------------
(* The radio-worker thread.                                                *)

Blocked == live \/ draining

\* Commander::receiveCommand(funcTransceiverStatus) without a value: one read
\* of the family at a time, later ones are coalesced into a deferred one.
RequestStatus(sent) ==
    IF Blocked
    THEN /\ deferred' = TRUE
         /\ wire' = sent /\ UNCHANGED live
    ELSE /\ live' = TRUE
         /\ wire' = Append(sent, "read") /\ UNCHANGED deferred

CommanderRuns ==
    /\ posted # <<>> /\ Head(posted) # "close" /\ Room(wire)
    /\ posted' = Tail(posted)
    /\ \/ /\ Head(posted) = "on"
          /\ wire' = Append(wire, "on")
          /\ queuedRead' = TRUE
          /\ UNCHANGED <<live, deferred>>
       \/ /\ Head(posted) = "off"
          /\ wire' = Append(wire, "off")
          /\ UNCHANGED <<queuedRead, live, deferred>>
       \/ /\ Head(posted) = "read"
          /\ RequestStatus(wire)
          /\ UNCHANGED queuedRead
    /\ UNCHANGED <<conn, safety, gui, draining, replies, events, keyed, tx, bounds>>

\* The CachingQueue hands the readback of the key-up to the Commander.
ReadbackRuns ==
    /\ queuedRead /\ Room(wire)
    /\ queuedRead' = FALSE
    /\ RequestStatus(wire)
    /\ UNCHANGED <<conn, safety, gui, posted, draining, replies, events, keyed, tx, bounds>>

\* Commander::dispatchDeferredReplyReads
DeferredReadRuns ==
    /\ deferred /\ ~Blocked /\ Room(wire)
    /\ deferred' = FALSE /\ live' = TRUE
    /\ wire' = Append(wire, "read")
    /\ UNCHANGED <<conn, safety, gui, posted, queuedRead, draining, replies, events,
                   keyed, tx, bounds>>

\* Commander::parseCommand: a reply settles the pending read; one that nobody
\* waits for is discarded while the family drains and believed afterwards.
ReplyArrives ==
    /\ replies # <<>> /\ Room(events)
    /\ replies' = Tail(replies)
    /\ live' = FALSE /\ draining' = (draining \/ live)
    /\ events' = IF conn = "up" /\ (live \/ ~draining)
                 THEN Append(events, Head(replies)) ELSE events
    /\ UNCHANGED <<conn, safety, gui, posted, queuedRead, deferred, wire, keyed, tx, bounds>>

\* Commander::discardExpiredPendingReplies.  Expiry with the answer still on
\* its way is one of the MaxFaults.
ReadExpires ==
    /\ live
    /\ LET late == replies # <<>> \/ \E i \in 1 .. Len(wire) : wire[i] = "read" IN
       /\ late => faults < MaxFaults
       /\ faults' = faults + (IF late THEN 1 ELSE 0)
    /\ live' = FALSE /\ draining' = TRUE
    /\ UNCHANGED <<conn, safety, gui, posted, queuedRead, deferred, link, presses, sessions>>

DrainEnds ==
    /\ draining /\ draining' = FALSE
    /\ UNCHANGED <<conn, safety, gui, posted, queuedRead, live, deferred, link, bounds>>

-----------------------------------------------------------------------------
(* The link and the radio.                                                 *)

RadioReceives ==
    /\ wire # <<>>
    /\ Head(wire) = "read" => Room(replies)
    /\ wire' = Tail(wire)
    /\ keyed' = CASE Head(wire) = "on" -> TRUE
                  [] Head(wire) = "off" -> FALSE
                  [] OTHER -> keyed
    /\ replies' = IF Head(wire) = "read" /\ conn = "up"
                  THEN Append(replies, tx) ELSE replies
    /\ UNCHANGED <<conn, safety, gui, posted, worker, events, tx, bounds>>

RadioSettles ==
    /\ tx # keyed /\ tx' = keyed
    /\ UNCHANGED <<conn, safety, gui, posted, worker, wire, replies, events, keyed, bounds>>

\* A frame is lost beyond what the transport's retransmission can recover.
Lose ==
    /\ faults < MaxFaults
    /\ faults' = faults + 1
    /\ \/ wire # <<>> /\ wire' = Tail(wire) /\ UNCHANGED replies
       \/ replies # <<>> /\ replies' = Tail(replies) /\ UNCHANGED wire
    /\ UNCHANGED <<conn, safety, gui, posted, worker, events, keyed, tx, presses, sessions>>

-----------------------------------------------------------------------------
Operator == PressPtt \/ ReleasePtt \/ Connect \/ Disconnect
Meters   == \E high \in BOOLEAN : SwrReading(high)
Clocks   == TailExpires \/ OnExpires \/ OffExpires \/ MaxExpires \/ WakeDelayEnds
Pipeline == StatusDelivered \/ CloseRuns \/ CommanderRuns \/ ReadbackRuns
            \/ DeferredReadRuns \/ ReplyArrives \/ ReadExpires \/ DrainEnds
            \/ RadioReceives \/ RadioSettles

Next == Operator \/ Meters \/ Clocks \/ Pipeline \/ Lose

Spec == Init /\ [][Next]_vars

\* The threads, the timers and the radio keep going; the operator, the meters
\* and the link's losses owe nothing.  Strong fairness where a full queue (an
\* artefact of MaxInFlight) may keep disabling a step.
Fairness ==
    /\ WF_vars(StatusDelivered) /\ WF_vars(CloseRuns) /\ WF_vars(ReplyArrives)
    /\ WF_vars(DrainEnds) /\ WF_vars(RadioReceives) /\ WF_vars(RadioSettles)
    /\ WF_vars(ReadExpires /\ UNCHANGED faults)
    /\ SF_vars(CommanderRuns) /\ SF_vars(ReadbackRuns) /\ SF_vars(DeferredReadRuns)
    /\ SF_vars(TailExpires) /\ SF_vars(OnExpires) /\ SF_vars(OffExpires)
    /\ SF_vars(MaxExpires)

FairSpec == Spec /\ Fairness

-----------------------------------------------------------------------------
(* Properties.                                                             *)

\* The flags are flags, ...
FlagsOK ==
    /\ desired \in BOOLEAN /\ confirmed \in BOOLEAN /\ offPending \in BOOLEAN
    /\ shown \in BOOLEAN /\ released \in BOOLEAN /\ inherited \in BOOLEAN
    /\ queuedRead \in BOOLEAN /\ live \in BOOLEAN
    /\ draining \in BOOLEAN /\ deferred \in BOOLEAN
    /\ keyed \in BOOLEAN /\ tx \in BOOLEAN /\ safety \in BOOLEAN

\* ... and every other variable has its type: the timers that exist, an SWR
\* count that never passes the cut-off, queues of the messages they carry.
StateOK ==
    /\ conn \in {"down", "up", "closing"}
    /\ timers \in SUBSET Timers /\ swrHigh \in 0 .. SwrLimit
    /\ posted \in Seq(Posts) /\ wire \in Seq(Frames)
    /\ replies \in Seq(BOOLEAN) /\ events \in Seq(BOOLEAN)
    /\ presses \in Nat /\ sessions \in Nat /\ faults \in Nat

\* The type invariant.
TypeOK == FlagsOK /\ StateOK

\* An unkey request is never forgotten: as long as the radio has not confirmed
\* it, the confirmation timer runs and will ask again, whatever presses,
\* replies and timeouts came in between.
UnkeyIsPursued == offPending => "off" \in timers

\* A transmission the radio has confirmed is always bounded: either the
\* maximum-duration timer runs or an unkey is already being pursued.  The
\* exception is a status reply of an ended session, applied after its reset.
TransmissionSupervised ==
    confirmed /\ ~inherited => "max" \in timers \/ offPending

\* Once a session is closed with the safety commands and its last frame is
\* through, the radio is not left keyed by anything that session or an earlier
\* one sent (no frame was lost).  Every closing of a usable session sends them
\* but one: the replacement at the end of a standby wake (WakeDelayEnds) sends
\* no unkey, and the radio may then stay keyed.
SessionEndUnkeys ==
    conn = "down" /\ safety /\ wire = <<>> /\ faults = 0 => ~keyed

\* After the operator lets go, a timer that ends in an unkey command runs for
\* as long as transmit is still wanted: the radio is kept keyed only "briefly".
ReleasePathArmed ==
    released /\ desired => {"tail", "on"} \cap timers # {}

\* The GUI does not keep showing a transmit state the radio is not in.  Stated
\* for the first session: a later one may begin with the "TX" that a closing
\* without the signal disconnected left shown, which no "RX" then takes back.
ViewTrue    == conn = "up" /\ sessions = 1 => shown = tx
ViewSettles == []<>ViewTrue

\* After the operator lets go, the radio stops transmitting, unless the operator
\* presses again; and closing a session with the safety commands ends the
\* transmission, whatever was on its way, unless another session begins.
Unkeyed  == released \/ (conn # "up" /\ safety) => ~tx
LetGoEnds == []<>Unkeyed

=============================================================================
