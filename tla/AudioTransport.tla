--------------------------- MODULE AudioTransport ---------------------------
(***************************************************************************)
(* The audio stream of a session: UdpAudio on the radio worker thread, the *)
(* capture worker on its own thread with its converter thread, and the     *)
(* playback worker's start policy.                                         *)
(*                                                                         *)
(* A microphone block passes three threads before it is sent.  Each change *)
(* of push-to-talk or DTMF begins a new epoch; blocks carry the epoch the  *)
(* capture worker knew when it recorded them.  A block is modelled by that *)
(* epoch, the worker that recorded it and, as history, the device and the  *)
(* number of changes UdpAudio had made at that moment.  Signals between    *)
(* threads are queues.                                                     *)
(***************************************************************************)
EXTENDS Integers, Sequences

CONSTANTS
    MaxEpoch,     \* bound: transitions of the encoding state
    MaxWorkers,   \* bound: capture workers, and playback workers, started
    MaxBlocks,    \* bound: signals waiting for UdpAudio
    Backlog       \* kMaxTxConversionBacklog and kMaxQueuedTxAudioFrames, 8

AudioAssumption == {MaxEpoch, MaxWorkers, MaxBlocks, Backlog} \subseteq Nat \ {0}

VARIABLES
    udp,       \* UdpAudio: see Init
    inbox,     \* signals of capture workers waiting for UdpAudio
    capture,   \* the capture worker's thread: see Idle
    sent       \* what the last step handed to sendAudioBuffer, <<>> for nothing

vars == <<udp, inbox, capture, sent>>

NoState == [epoch |-> 0, ptt |-> FALSE, dtmf |-> FALSE]

\* known: the encoding state the worker goes by; updates: states on their way
\* to it; backlog: recorded blocks; converting: the block in the converter;
\* device: "opening", then "open" or "failed".
Idle == [known |-> NoState, updates |-> <<>>, backlog |-> <<>>, converting |-> <<>>,
         device |-> "opening"]

\* state: m_txEncodingState, changes counting its changes; enabled: m_audioReady; device: txSetup.port, 0 for
\* none; queue: m_txAudioQueue; tones: DTMF blocks left (m_dtmfTimerActive while
\* playing); pump: txAudioTimer runs; worker: txaudio, 0 for none; playback:
\* rxaudio with RxAudioStartPolicy, tries counting the attempts on this device,
\* lost the initFailed signals on their way.
Init ==
    /\ udp = [state |-> NoState, changes |-> 0, enabled |-> FALSE, device |-> 1, queue |-> <<>>, tones |-> 0,
              playing |-> FALSE, pump |-> FALSE, worker |-> 0, started |-> 0,
              playback |-> [worker |-> FALSE, blocked |-> FALSE, tries |-> 0, lost |-> 0]]
    /\ inbox = <<>> /\ capture = Idle /\ sent = <<>>

encodingAuthorized(s) == s.ptt /\ ~s.dtmf

-----------------------------------------------------------------------------
(* Encoding state.                                                         *)

\* Bug for the mutation test: a change of state keeps its epoch.
transitionSameEpoch(s, ptt, dtmf) == [s EXCEPT !.ptt = ptt, !.dtmf = dtmf]

\* transitionTxEncodingState: any change begins an epoch.
transition(s, ptt, dtmf) ==
    IF s.ptt = ptt /\ s.dtmf = dtmf THEN s
    ELSE [epoch |-> s.epoch + 1, ptt |-> ptt, dtmf |-> dtmf]

\* updateTxEncodingState: blocks that wait are discarded, the worker is told.
updateTxEncodingState(u, ptt, dtmf) ==
    LET next == transition(u.state, ptt, dtmf)
    IN  IF next = u.state THEN u ELSE [u EXCEPT !.state = next, !.changes = @ + 1, !.queue = <<>>]

Announce(u) ==
    IF u.state # udp.state /\ u.worker = udp.worker /\ u.worker # 0
    THEN [capture EXCEPT !.updates = Append(@, u.state)] ELSE capture

-----------------------------------------------------------------------------
(* Capture workers.  A worker that replaces another starts with the state of *)
(* the moment; signals of the old one stay in the inbox.                     *)

shouldCaptureTxAudio(u) == u.enabled /\ u.device # 0

startTxAudio(u) ==
    IF shouldCaptureTxAudio(u) /\ u.worker = 0
    THEN [u EXCEPT !.started = @ + 1, !.worker = u.started + 1] ELSE u

stopTxAudio(u) == [u EXCEPT !.queue = <<>>, !.worker = 0]

\* UdpAudio moves to u: what this means for the capture thread.
Becomes(u) ==
    /\ u.changes <= MaxEpoch /\ u.started <= MaxWorkers
    /\ udp' = u
    /\ capture' = IF u.worker = 0 THEN Idle
                  ELSE IF u.worker # udp.worker THEN [Idle EXCEPT !.known = u.state]
                  ELSE Announce(u)

Keeps == sent' = <<>> /\ UNCHANGED inbox

setTxAudioDevice ==
    \E d \in 0 .. 2 \ {udp.device} :
        Becomes(startTxAudio(stopTxAudio([udp EXCEPT !.device = d]))) /\ Keeps

\* A worker failed to open its device; onTxAudioInitFailed does not ask which.
onTxAudioInitFailed ==
    /\ inbox # <<>> /\ Head(inbox).kind = "failed"
    /\ inbox' = Tail(inbox) /\ sent' = <<>> /\ Becomes([udp EXCEPT !.worker = 0])

\* AudioHandlerQtInput::updateTxEncodingState: a newer epoch clears the backlog.
WorkerUpdated ==
    LET next == Head(capture.updates)
        told == [capture EXCEPT !.updates = Tail(@)]
    IN  /\ capture.updates # <<>>
        /\ capture' = IF next.epoch > capture.known.epoch
                      THEN [told EXCEPT !.known = next, !.backlog = <<>>] ELSE told
        /\ sent' = <<>> /\ UNCHANGED <<udp, inbox>>

\* onReadyRead and queueForConversion: a block is recorded; one at a time is
\* converted, and the oldest is dropped when too many wait.
WorkerRecords ==
    LET block  == [epoch |-> capture.known.epoch, worker |-> udp.worker,
                   device |-> udp.device, during |-> udp.changes]
        joined == Append(capture.backlog, block)
        heard  == [capture EXCEPT !.device = "open"]
    IN  /\ udp.worker # 0 /\ capture.device # "failed"
        /\ capture' = IF heard.converting = <<>> THEN [heard EXCEPT !.converting = <<block>>]
                      ELSE [heard EXCEPT !.backlog = IF Len(joined) > Backlog
                                                     THEN Tail(joined) ELSE joined]
        /\ sent' = <<>> /\ UNCHANGED <<udp, inbox>>

\* onConverted and onConversionCycleFinished: the block goes to UdpAudio and
\* the next one is begun.
WorkerConverted ==
    /\ capture.converting # <<>> /\ Len(inbox) < MaxBlocks
    /\ inbox' = Append(inbox, [kind |-> "block", block |-> Head(capture.converting)])
    /\ capture' = IF capture.backlog = <<>> THEN [capture EXCEPT !.converting = <<>>]
                  ELSE [capture EXCEPT !.converting = <<Head(capture.backlog)>>,
                                       !.backlog = Tail(@)]
    /\ sent' = <<>> /\ UNCHANGED udp

\* AudioHandlerBase::init: the device does not open, the worker reports it.
WorkerFails ==
    /\ udp.worker # 0 /\ capture.device = "opening" /\ Len(inbox) < MaxBlocks
    /\ inbox' = Append(inbox, [kind |-> "failed"])
    /\ capture' = [capture EXCEPT !.device = "failed"]
    /\ sent' = <<>> /\ UNCHANGED udp

-----------------------------------------------------------------------------
(* UdpAudio: the way of a block to the radio.                              *)

\* Bug for the mutation test: a replaced worker's block is taken.
AcceptsFromAny(b) == encodingAuthorized(udp.state) /\ b.epoch = udp.state.epoch

\* receiveAudioData.
Accepts(b) ==
    /\ udp.worker # 0 /\ b.worker = udp.worker
    /\ encodingAuthorized(udp.state) /\ b.epoch = udp.state.epoch

receiveAudioData ==
    /\ inbox # <<>> /\ Head(inbox).kind = "block"
    /\ inbox' = Tail(inbox)
    /\ LET b == Head(inbox).block
           q == Append(udp.queue, b)
       IN  udp' = IF Accepts(b)
                  THEN [udp EXCEPT !.queue = IF Len(q) > Backlog THEN Tail(q) ELSE q]
                  ELSE udp
    /\ sent' = <<>> /\ UNCHANGED capture

\* takeMatchingTxAudioFrame: older blocks are dropped on the way.
Matching(q, epoch) ==
    LET hits == {i \in DOMAIN q : q[i].epoch = epoch}
    IN  IF hits = {} THEN <<>>
        ELSE SubSeq(q, CHOOSE i \in hits : \A j \in hits : i <= j, Len(q))

Silence == [epoch |-> udp.state.epoch, worker |-> 0, device |-> 0, during |-> udp.changes]

\* sendNextTxAudioFrame with one frame due: silence when no block fits.
\* Nothing while DTMF plays; the timer stops once push-to-talk is off.
sendNextTxAudioFrame ==
    LET fit == Matching(udp.queue, udp.state.epoch)
    IN  /\ udp.pump
        /\ IF ~udp.state.ptt
           THEN udp' = [udp EXCEPT !.pump = FALSE, !.queue = <<>>] /\ sent' = <<>>
           ELSE IF udp.playing THEN UNCHANGED udp /\ sent' = <<>>
           ELSE /\ sent' = IF fit = <<>> THEN <<Silence>> ELSE <<Head(fit)>>
                /\ udp' = [udp EXCEPT !.queue = IF fit = <<>> THEN <<>> ELSE Tail(fit)]
        /\ UNCHANGED <<inbox, capture>>

\* finishDtmf.
finishDtmf(u) ==
    LET quiet == [u EXCEPT !.playing = FALSE, !.tones = 0]
    IN  IF u.playing \/ u.state.dtmf THEN updateTxEncodingState(quiet, u.state.ptt, FALSE)
        ELSE quiet

\* setTxActive: a missing worker is started even if nothing changes.
setTxActive(active) ==
    LET told  == updateTxEncodingState(udp, active, active /\ udp.state.dtmf)
        ready == IF active /\ told.enabled THEN startTxAudio(told) ELSE told
        keyed == [ready EXCEPT !.queue = <<>>, !.pump = active]
    IN  /\ IF told.state = udp.state THEN Becomes(ready) /\ sent' = <<>>
           ELSE IF active
           THEN /\ Becomes(keyed)
                /\ sent' = IF udp.pump \/ udp.playing THEN <<>>
                           ELSE <<[Silence EXCEPT !.epoch = told.state.epoch,
                                                  !.during = told.changes]>>
           ELSE Becomes(finishDtmf(keyed)) /\ sent' = <<>>
        /\ UNCHANGED inbox

\* queueDtmfPcm: DTMF takes the stream; empty audio ends it.
queueDtmfPcm ==
    \E length \in {0, 2} :
        /\ Becomes(IF length = 0 THEN finishDtmf(udp)
                   ELSE [updateTxEncodingState(udp, udp.state.ptt, TRUE)
                            EXCEPT !.tones = length, !.playing = TRUE])
        /\ Keeps

\* sendNextDtmfFrame: the last frame, or the end of push-to-talk, ends it.
sendNextDtmfFrame ==
    /\ udp.playing
    /\ Becomes(IF udp.state.ptt /\ udp.tones > 1 THEN [udp EXCEPT !.tones = @ - 1]
               ELSE finishDtmf(udp))
    /\ Keeps

-----------------------------------------------------------------------------
(* Playback, and the audio of a whole session.                             *)

shouldStart(u) == u.enabled /\ ~u.playback.worker /\ ~u.playback.blocked

startAudio(u) ==
    IF shouldStart(u) THEN [u EXCEPT !.playback.worker = TRUE, !.playback.tries = @ + 1] ELSE u

enableAudio ==
    ~udp.enabled /\ Becomes(startTxAudio(startAudio([udp EXCEPT !.enabled = TRUE]))) /\ Keeps

\* dataReceived: an audio packet starts playback when it does not run.
RxPacket == shouldStart(udp) /\ Becomes(startAudio(udp)) /\ Keeps

RxWorkerFails ==
    /\ udp.playback.worker /\ udp.playback.lost = 0
    /\ Becomes([udp EXCEPT !.playback.lost = @ + 1]) /\ Keeps

\* Bug for the mutation test: failure does not block the next attempt.
RxFailedUnblocked(p) == [p EXCEPT !.worker = FALSE, !.lost = @ - 1]

RxFailed(p) == [p EXCEPT !.worker = FALSE, !.blocked = TRUE, !.lost = @ - 1]

onRxAudioInitFailed ==
    /\ udp.playback.lost > 0
    /\ Becomes([udp EXCEPT !.playback = RxFailed(@)]) /\ Keeps

\* setRxAudioDevice: the operator picks another output device, or the same
\* one again after a failure.
setRxAudioDevice ==
    \E changed \in BOOLEAN :
        /\ changed \/ udp.playback.blocked
        /\ Becomes(startAudio([udp EXCEPT !.playback.worker = @ /\ ~changed,
                                          !.playback.blocked = FALSE, !.playback.tries = 0]))
        /\ Keeps

stopLocalAudio ==
    /\ udp.enabled
    /\ Becomes([updateTxEncodingState(udp, FALSE, FALSE) EXCEPT !.enabled = FALSE, !.worker = 0,
                   !.playback = [@ EXCEPT !.worker = FALSE, !.blocked = FALSE, !.tries = 0]])
    /\ Keeps

Next ==
    \/ enableAudio \/ stopLocalAudio
    \/ \E active \in BOOLEAN : setTxActive(active)
    \/ queueDtmfPcm \/ sendNextDtmfFrame \/ sendNextTxAudioFrame \/ receiveAudioData
    \/ setTxAudioDevice \/ onTxAudioInitFailed
    \/ WorkerUpdated \/ WorkerRecords \/ WorkerConverted \/ WorkerFails
    \/ RxPacket \/ RxWorkerFails \/ onRxAudioInitFailed \/ setRxAudioDevice

Spec == Init /\ [][Next]_vars

-----------------------------------------------------------------------------
TypeOK ==
    /\ udp.state.epoch \in 0 .. udp.changes /\ Len(udp.queue) <= Backlog
    /\ udp.worker \in 0 .. udp.started /\ udp.started <= MaxWorkers
    /\ Len(inbox) <= MaxBlocks /\ Len(capture.backlog) <= Backlog /\ Len(sent) <= 1
    /\ udp.playing => udp.tones > 0

\* Nothing the microphone picked up before the operator pressed push-to-talk,
\* while DTMF had the stream, or on a device since replaced is ever sent: a
\* microphone block that goes out was recorded in the epoch it goes out in.
SentIsThisPress ==
    sent # <<>> =>
        /\ udp.state.ptt
        /\ sent[1].during = udp.changes
        /\ sent[1].worker # 0 => encodingAuthorized(udp.state) /\ sent[1].device = udp.device

\* UdpAudio::startAudio: a playback device that cannot be opened is tried once,
\* and not once per packet received.
PlaybackTriedOnce == udp.playback.tries <= 1
=============================================================================
