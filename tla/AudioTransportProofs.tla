------------------------ MODULE AudioTransportProofs ------------------------
(***************************************************************************)
(* Theorems about AudioTransport, for every bound: types, whose microphone *)
(* blocks are sent, and how often a playback device is tried.              *)
(***************************************************************************)
EXTENDS AudioTransport, SequenceTheorems, TLAPS

-----------------------------------------------------------------------------
(* Types.                                                                  *)

State    == [epoch : Nat, ptt : BOOLEAN, dtmf : BOOLEAN]
Block    == [epoch : Nat, worker : Nat, device : Nat, during : Nat]
Signal   == [kind : {"block"}, block : Block] \cup [kind : {"failed"}]
Playback == [worker : BOOLEAN, blocked : BOOLEAN, tries : Nat, lost : Nat]
Udp      == [state : State, changes : Nat, enabled : BOOLEAN, device : Nat, queue : Seq(Block),
             tones : Nat, playing : BOOLEAN, pump : BOOLEAN, worker : Nat, started : Nat,
             playback : Playback]
Capture  == [known : State, updates : Seq(State), backlog : Seq(Block),
             converting : {<<>>} \cup {<<b>> : b \in Block},
             device : {"opening", "open", "failed"}]

\* Everything UdpAudio knows, within its limits.
Fits(u) == u \in Udp /\ u.state.epoch = u.changes /\ u.worker <= u.started
           /\ Len(u.queue) <= Backlog /\ (u.playing => u.tones > 0)

\* The playback device is tried once: the attempt runs, or has failed.
TriedOnce(u) == u.playback.tries <= 1
                /\ (u.playback.tries = 1 => u.playback.worker \/ u.playback.blocked)

\* What a block says of the moment it was recorded is not later than now; those of
\* the worker that runs were recorded on its device.
Recorded(b, u) == /\ b.epoch <= b.during /\ b.during <= u.changes /\ b.worker <= u.started
                  /\ u.worker # 0 /\ b.worker = u.worker => b.device = u.device

\* What waits to be sent was recorded in this epoch on this device.
QueueOwn(u) ==
    \A i \in 1 .. Len(u.queue) :
        /\ u.queue[i].epoch = u.changes /\ u.queue[i].during = u.changes
        /\ u.queue[i].device = u.device /\ encodingAuthorized(u.state)

\* What UdpAudio may become: a worker that was started before is the same one on
\* the same device.
Follows(u) ==
    /\ udp.changes <= u.changes /\ udp.started <= u.started
    /\ u.worker # 0 /\ u.worker <= udp.started => u.worker = udp.worker /\ u.device = udp.device

Moves(u) == Fits(u) /\ TriedOnce(u) /\ QueueOwn(u) /\ Follows(u)

\* The capture worker knows no epoch that is yet to come.
CaptureOwn(c, u) ==
    /\ c \in Capture /\ Len(c.backlog) <= Backlog
    /\ c.known.epoch <= u.changes
    /\ \A i \in 1 .. Len(c.updates) : c.updates[i].epoch <= u.changes
    /\ \A i \in 1 .. Len(c.backlog) : Recorded(c.backlog[i], u)
    /\ \A i \in 1 .. Len(c.converting) : Recorded(c.converting[i], u)

InboxOwn(box, u) ==
    /\ box \in Seq(Signal) /\ Len(box) <= MaxBlocks
    /\ \A i \in 1 .. Len(box) : box[i].kind = "block" => Recorded(box[i].block, u)

SentOK == sent = <<>> \/ \E b \in Block : sent = <<b>>

IInv == /\ Moves(udp) /\ udp.started <= MaxWorkers /\ CaptureOwn(capture, udp)
        /\ InboxOwn(inbox, udp) /\ SentOK /\ SentIsThisPress

LEMMA TypesFollow == IInv => TypeOK
<1> SUFFICES ASSUME IInv PROVE TypeOK
  OBVIOUS
<1>1. /\ udp.state.epoch \in 0 .. udp.changes /\ Len(udp.queue) <= Backlog
      /\ udp.worker \in 0 .. udp.started /\ udp.started <= MaxWorkers
      /\ udp.playing => udp.tones > 0
  BY DEF IInv, Moves, Fits, Udp, State
<1>2. Len(inbox) <= MaxBlocks /\ Len(capture.backlog) <= Backlog
  BY DEF IInv, InboxOwn, CaptureOwn
<1>3. Len(sent) <= 1
  <2>1. CASE sent = <<>>
    BY <2>1
  <2>2. CASE \E b \in Block : sent = <<b>>
    BY <2>2
  <2> QED
    BY <2>1, <2>2 DEF IInv, SentOK
<1> QED
  BY <1>1, <1>2, <1>3 DEF TypeOK

LEMMA InitHolds == AudioAssumption /\ Init => IInv
<1> SUFFICES ASSUME AudioAssumption, Init PROVE IInv
  OBVIOUS
<1>1. udp.queue = <<>> /\ udp.changes = 0 /\ udp.started = 0 /\ udp.worker = 0
  BY DEF Init
<1>2. Fits(udp)
  BY DEF Init, Fits, Udp, State, Playback, NoState, AudioAssumption
<1>3. TriedOnce(udp) /\ QueueOwn(udp) /\ Follows(udp)
  BY DEF Init, TriedOnce, QueueOwn, Follows
<1>4. CaptureOwn(capture, udp)
  <2>1. capture \in Capture
    BY DEF Init, Idle, Capture, NoState, State
  <2> QED
    BY <2>1, <1>1 DEF Init, Idle, CaptureOwn, NoState, AudioAssumption
<1>5. InboxOwn(inbox, udp) /\ SentOK /\ SentIsThisPress
  BY DEF Init, InboxOwn, SentOK, SentIsThisPress, AudioAssumption
<1> QED
  BY <1>1, <1>2, <1>3, <1>4, <1>5 DEF IInv, Moves, AudioAssumption

-----------------------------------------------------------------------------
(* What UdpAudio does to itself.                                           *)

LEMMA EncodingMoves ==
    ASSUME AudioAssumption, Moves(udp), NEW u, Moves(u), NEW ptt \in BOOLEAN, NEW dtmf \in BOOLEAN
    PROVE  LET v == updateTxEncodingState(u, ptt, dtmf)
           IN  /\ Moves(v) /\ v.state.ptt = ptt /\ v.state.dtmf = dtmf
               /\ v.state # u.state => v.queue = <<>>
               /\ v.enabled = u.enabled /\ v.device = u.device /\ v.tones = u.tones
               /\ v.playing = u.playing /\ v.pump = u.pump /\ v.worker = u.worker
               /\ v.started = u.started /\ v.playback = u.playback
<1> DEFINE n == transition(u.state, ptt, dtmf)
           v == updateTxEncodingState(u, ptt, dtmf)
<1>1. u \in Udp /\ u.state \in State /\ udp \in Udp
  BY DEF Moves, Fits, Udp
<1>2. CASE u.state.ptt = ptt /\ u.state.dtmf = dtmf
  <2>1. v = u
    BY <1>2 DEF updateTxEncodingState, transition
  <2> QED
    BY <1>2, <2>1
<1>3. CASE ~(u.state.ptt = ptt /\ u.state.dtmf = dtmf)
  <2>1. n = [epoch |-> u.state.epoch + 1, ptt |-> ptt, dtmf |-> dtmf] /\ n \in State
    BY <1>1, <1>3 DEF transition, State
  <2>2. n # u.state
    BY <1>1, <1>3, <2>1 DEF State
  <2>3. v = [u EXCEPT !.state = n, !.changes = @ + 1, !.queue = <<>>]
    BY <2>2 DEF updateTxEncodingState
  <2>4. /\ v.state = n /\ v.changes = u.changes + 1 /\ v.queue = <<>>
        /\ v.enabled = u.enabled /\ v.device = u.device /\ v.tones = u.tones
        /\ v.playing = u.playing /\ v.pump = u.pump /\ v.worker = u.worker
        /\ v.started = u.started /\ v.playback = u.playback
    BY <1>1, <2>3 DEF Udp
  <2> HIDE DEF n
  <2>8. v \in Udp
    <3>1. u.changes + 1 \in Nat /\ <<>> \in Seq(Block)
      BY <1>1 DEF Udp
    <3> QED
      BY <1>1, <2>1, <2>3, <3>1 DEF Udp
  <2> HIDE DEF v
  <2>5. Fits(v)
    BY <2>1, <2>4, <2>8 DEF Moves, Fits, AudioAssumption
  <2>6. TriedOnce(v) /\ QueueOwn(v)
    <3>1. TriedOnce(v)
      BY <2>4 DEF Moves, TriedOnce
    <3>2. QueueOwn(v)
      BY <2>4 DEF QueueOwn
    <3> QED
      BY <3>1, <3>2
  <2>7. Follows(v)
    BY <1>1, <2>4 DEF Moves, Follows, Udp
  <2> QED
    BY <2>1, <2>4, <2>5, <2>6, <2>7 DEF Moves, v
<1> QED
  BY <1>2, <1>3

LEMMA StartMoves ==
    ASSUME Moves(udp), NEW u, Moves(u)
    PROVE  LET v == startTxAudio(u)
           IN  /\ Moves(v) /\ v.queue = u.queue /\ v.state = u.state /\ v.changes = u.changes
               /\ v.playing = u.playing
<1> DEFINE v == startTxAudio(u)
<1>1. u \in Udp /\ udp \in Udp
  BY DEF Moves, Fits
<1>2. CASE shouldCaptureTxAudio(u) /\ u.worker = 0
  <2>1. v = [u EXCEPT !.started = @ + 1, !.worker = u.started + 1]
    BY <1>2 DEF startTxAudio
  <2>2. /\ v.started = u.started + 1 /\ v.worker = u.started + 1
        /\ v.state = u.state /\ v.changes = u.changes /\ v.queue = u.queue
        /\ v.enabled = u.enabled /\ v.device = u.device /\ v.tones = u.tones
        /\ v.playing = u.playing /\ v.pump = u.pump /\ v.playback = u.playback
    BY <1>1, <2>1 DEF Udp
  <2>3. v \in Udp
    <3>1. u.started + 1 \in Nat
      BY <1>1 DEF Udp
    <3> QED
      BY <1>1, <2>1, <3>1 DEF Udp
  <2> HIDE DEF v
  <2>4. u.started \in Nat /\ udp.started \in Nat
    BY <1>1 DEF Udp
  <2>5. Fits(v) /\ TriedOnce(v)
    BY <2>2, <2>3, <2>4 DEF Moves, Fits, TriedOnce
  <2>6. QueueOwn(v)
    BY <2>2 DEF Moves, QueueOwn
  <2>7. Follows(v)
    BY <2>2, <2>4 DEF Moves, Follows
  <2> QED
    BY <2>2, <2>5, <2>6, <2>7 DEF Moves, v
<1>3. CASE ~(shouldCaptureTxAudio(u) /\ u.worker = 0)
  <2>1. v = u
    BY <1>3 DEF startTxAudio
  <2> QED
    BY <2>1
<1> QED
  BY <1>2, <1>3

\* Settings that say nothing of the blocks, and a queue that is emptied.
LEMMA Harmless ==
    ASSUME AudioAssumption, Moves(udp), NEW u, Moves(u), NEW v \in Udp,
           v.state = u.state, v.changes = u.changes, v.started = u.started,
           v.device = u.device \/ (v.queue = <<>> /\ v.worker = 0),
           v.queue \in {u.queue, <<>>}, v.worker \in {u.worker, 0},
           v.playing => v.tones > 0, TriedOnce(v)
    PROVE  Moves(v)
<1>1. u \in Udp /\ udp \in Udp
  BY DEF Moves, Fits
<1>2. Len(v.queue) <= Backlog
  <2>1. Len(u.queue) <= Backlog /\ 0 <= Backlog
    BY DEF Moves, Fits, AudioAssumption
  <2> QED
    BY <2>1
<1>3. Fits(v)
  <2>1. u.worker <= u.started /\ u.started \in Nat
    BY <1>1 DEF Moves, Fits, Udp
  <2> QED
    BY <1>2, <2>1 DEF Moves, Fits
<1>4. QueueOwn(v)
  <2>1. CASE v.queue = <<>>
    BY <2>1 DEF QueueOwn
  <2>2. CASE v.queue = u.queue /\ v.device = u.device
    BY <2>2 DEF Moves, QueueOwn
  <2> QED
    BY <2>1, <2>2
<1>5. Follows(v)
  BY DEF Moves, Follows
<1> QED
  BY <1>3, <1>4, <1>5 DEF Moves

LEMMA StopMoves ==
    ASSUME AudioAssumption, Moves(udp), NEW u, Moves(u), NEW d \in Nat
    PROVE  Moves(startTxAudio(stopTxAudio([u EXCEPT !.device = d])))
<1> DEFINE w == [u EXCEPT !.device = d]
           v == stopTxAudio(w)
<1>1. u \in Udp /\ w \in Udp
  BY DEF Moves, Fits, Udp
<1>2. /\ w.state = u.state /\ w.changes = u.changes /\ w.started = u.started
      /\ w.playing = u.playing /\ w.tones = u.tones /\ w.playback = u.playback
  BY <1>1 DEF Udp
<1> HIDE DEF w
<1>3. /\ v.state = w.state /\ v.changes = w.changes /\ v.started = w.started
      /\ v.queue = <<>> /\ v.worker = 0
      /\ v.playing = w.playing /\ v.tones = w.tones /\ v.playback = w.playback
  BY <1>1 DEF stopTxAudio, Udp
<1>4. v \in Udp
  <2>1. <<>> \in Seq(Block)
    OBVIOUS
  <2> QED
    BY <1>1, <2>1 DEF stopTxAudio, Udp
<1> HIDE DEF v
<1>5. TriedOnce(v) /\ (v.playing => v.tones > 0)
  BY <1>2, <1>3 DEF Moves, Fits, TriedOnce
<1>6. Moves(v)
  BY <1>2, <1>3, <1>4, <1>5, Harmless
<1> QED
  BY <1>6, StartMoves DEF v, w

LEMMA FinishMoves ==
    ASSUME AudioAssumption, Moves(udp), NEW u, Moves(u)
    PROVE  Moves(finishDtmf(u))
<1> DEFINE q == [u EXCEPT !.playing = FALSE, !.tones = 0]
<1>1. u \in Udp /\ q \in Udp
  BY DEF Moves, Fits, Udp
<1>2. /\ q.state = u.state /\ q.changes = u.changes /\ q.started = u.started
      /\ q.device = u.device /\ q.queue = u.queue /\ q.worker = u.worker
      /\ q.playback = u.playback /\ ~q.playing
  BY <1>1 DEF Udp
<1>3. finishDtmf(u) \in {q, updateTxEncodingState(q, u.state.ptt, FALSE)}
  BY DEF finishDtmf
<1> HIDE DEF q
<1>4. TriedOnce(q)
  BY <1>2 DEF Moves, TriedOnce
<1>5. Moves(q)
  BY <1>1, <1>2, <1>4, Harmless
<1>6. u.state.ptt \in BOOLEAN
  BY <1>1 DEF Udp, State
<1>7. Moves(updateTxEncodingState(q, u.state.ptt, FALSE))
  BY <1>5, <1>6, EncodingMoves
<1> QED
  BY <1>3, <1>5, <1>7

-----------------------------------------------------------------------------
(* What it means for the threads around it.                                *)

LEMMA RecordedKept ==
    ASSUME NEW u \in Udp, udp \in Udp, Follows(u), NEW b \in Block, Recorded(b, udp)
    PROVE  Recorded(b, u)
<1>1. /\ b.epoch \in Nat /\ b.during \in Nat /\ b.worker \in Nat
      /\ udp.changes \in Nat /\ u.changes \in Nat /\ udp.started \in Nat /\ u.started \in Nat
  BY DEF Block, Udp
<1>2. /\ b.epoch <= b.during /\ b.during <= udp.changes /\ b.worker <= udp.started
      /\ udp.changes <= u.changes /\ udp.started <= u.started
  BY DEF Recorded, Follows
<1>3. ASSUME u.worker # 0, b.worker = u.worker PROVE b.device = u.device
  BY <1>2, <1>3 DEF Recorded, Follows
<1> QED
  BY <1>1, <1>2, <1>3 DEF Recorded

LEMMA InboxKept ==
    ASSUME AudioAssumption, NEW u \in Udp, udp \in Udp, Follows(u), InboxOwn(inbox, udp)
    PROVE  InboxOwn(inbox, u) /\ (inbox # <<>> => InboxOwn(Tail(inbox), u))
<1>1. inbox \in Seq(Signal) /\ Len(inbox) \in Nat /\ Len(inbox) <= MaxBlocks
  BY LenProperties DEF InboxOwn
<1>2. ASSUME NEW i \in 1 .. Len(inbox), inbox[i].kind = "block"
      PROVE  Recorded(inbox[i].block, u)
  <2>1. inbox[i] \in Signal
    BY <1>1, ElementOfSeq
  <2>2. inbox[i].block \in Block
    BY <1>2, <2>1 DEF Signal
  <2> QED
    BY <1>2, <2>2, RecordedKept DEF InboxOwn
<1>3. InboxOwn(inbox, u)
  BY <1>1, <1>2 DEF InboxOwn
<1>4. ASSUME inbox # <<>> PROVE InboxOwn(Tail(inbox), u)
  <2>1. /\ Tail(inbox) \in Seq(Signal) /\ Len(Tail(inbox)) = Len(inbox) - 1
        /\ \A i \in 1 .. Len(Tail(inbox)) : Tail(inbox)[i] = inbox[i + 1]
    BY <1>1, <1>4, HeadTailProperties
  <2>2. ASSUME NEW i \in 1 .. Len(Tail(inbox)), Tail(inbox)[i].kind = "block"
        PROVE  Recorded(Tail(inbox)[i].block, u)
    <3>1. i + 1 \in 1 .. Len(inbox)
      BY <1>1, <2>1
    <3> QED
      BY <1>2, <2>1, <2>2, <3>1
  <2>3. Len(Tail(inbox)) <= MaxBlocks
    BY <1>1, <2>1 DEF AudioAssumption
  <2> QED
    BY <2>1, <2>2, <2>3 DEF InboxOwn
<1> QED
  BY <1>3, <1>4

LEMMA CaptureKept ==
    ASSUME NEW u \in Udp, udp \in Udp, Follows(u), CaptureOwn(capture, udp)
    PROVE  CaptureOwn(capture, u)
<1>1. capture \in Capture /\ capture.backlog \in Seq(Block) /\ capture.updates \in Seq(State)
      /\ capture.known \in State
  BY DEF CaptureOwn, Capture
<1>2. ASSUME NEW i \in 1 .. Len(capture.backlog) PROVE Recorded(capture.backlog[i], u)
  BY <1>1, <1>2, ElementOfSeq, RecordedKept DEF CaptureOwn
<1>3. ASSUME NEW i \in 1 .. Len(capture.converting) PROVE Recorded(capture.converting[i], u)
  <2>1. PICK b \in Block : capture.converting = <<b>>
    BY <1>3 DEF CaptureOwn, Capture
  <2>2. i = 1 /\ capture.converting[i] = b
    BY <1>3, <2>1
  <2>3. Recorded(b, udp)
    BY <1>3, <2>2 DEF CaptureOwn
  <2> QED
    BY <2>2, <2>3, RecordedKept
<1>4. udp.changes \in Nat /\ u.changes \in Nat /\ udp.changes <= u.changes
  BY DEF Udp, Follows
<1>5. capture.known.epoch <= u.changes
  BY <1>1, <1>4 DEF CaptureOwn, State
<1>6. ASSUME NEW i \in 1 .. Len(capture.updates) PROVE capture.updates[i].epoch <= u.changes
  <2>1. capture.updates[i] \in State
    BY <1>1, ElementOfSeq
  <2> QED
    BY <1>4, <2>1 DEF CaptureOwn, State
<1> QED
  BY <1>1, <1>2, <1>3, <1>5, <1>6 DEF CaptureOwn

LEMMA IdleOwn ==
    ASSUME AudioAssumption, NEW u, Moves(u)
    PROVE  CaptureOwn(Idle, u) /\ CaptureOwn([Idle EXCEPT !.known = u.state], u)
<1> DEFINE c == [Idle EXCEPT !.known = u.state]
<1>1. /\ Idle.known = NoState /\ Idle.updates = <<>> /\ Idle.backlog = <<>>
      /\ Idle.converting = <<>> /\ Idle \in Capture
  BY DEF Idle, Capture, NoState, State
<1>2. /\ c.known = u.state /\ c.updates = <<>> /\ c.backlog = <<>> /\ c.converting = <<>>
  BY DEF Idle
<1>3. u \in Udp /\ u.state \in State /\ u.state.epoch = u.changes
  BY DEF Moves, Fits, Udp
<1>4. c \in Capture
  BY <1>1, <1>3 DEF Capture
<1> HIDE DEF c
<1>5. 0 <= u.changes /\ u.changes <= u.changes /\ 0 <= Backlog
  BY <1>3 DEF Udp, AudioAssumption
<1>6. CaptureOwn(Idle, u)
  BY <1>1, <1>5 DEF CaptureOwn, NoState
<1>7. CaptureOwn(c, u)
  BY <1>2, <1>3, <1>4, <1>5 DEF CaptureOwn
<1> QED
  BY <1>6, <1>7 DEF c

\* UdpAudio has moved, and its inbox is as it was or one signal shorter.
LEMMA BecomesKept ==
    ASSUME AudioAssumption, IInv, NEW u, Moves(u), Becomes(u), SentOK', SentIsThisPress',
           inbox' = inbox \/ (inbox # <<>> /\ inbox' = Tail(inbox))
    PROVE  IInv'
<1>1. /\ udp \in Udp /\ u \in Udp /\ Follows(u) /\ u.state \in State
      /\ u.state.epoch = u.changes
  BY DEF IInv, Moves, Fits, Udp
<1>2. udp' = u /\ u.started <= MaxWorkers
  BY DEF Becomes
<1>3. Moves(udp)'
  <2>1. Follows(udp)'
    BY <1>1, <1>2 DEF Follows, Udp
  <2>2. (Fits(udp) /\ TriedOnce(udp) /\ QueueOwn(udp))'
    BY <1>2 DEF Moves, Fits, TriedOnce, QueueOwn
  <2> QED
    BY <2>1, <2>2 DEF Moves
<1>4. InboxOwn(inbox', u)
  BY <1>1, InboxKept DEF IInv
<1>5. CaptureOwn(capture, u)
  BY <1>1, CaptureKept DEF IInv
<1>6. CaptureOwn([capture EXCEPT !.updates = Append(@, u.state)], u)
  <2> DEFINE c == [capture EXCEPT !.updates = Append(@, u.state)]
             q == Append(capture.updates, u.state)
  <2>1. capture \in Capture /\ capture.updates \in Seq(State)
    BY <1>5 DEF CaptureOwn, Capture
  <2>2. /\ q \in Seq(State) /\ Len(q) = Len(capture.updates) + 1
        /\ \A i \in 1 .. Len(q) : q[i] = IF i = Len(q) THEN u.state ELSE capture.updates[i]
    BY <1>1, <2>1, AppendProperties, LenProperties
  <2>3. \A i \in 1 .. Len(q) : q[i].epoch <= u.changes
    <3>1. Len(capture.updates) \in Nat /\ u.changes \in Nat
      BY <1>1, <2>1, LenProperties DEF Udp
    <3> QED
      BY <1>1, <1>5, <2>2, <3>1 DEF CaptureOwn
  <2> HIDE DEF q
  <2>4. /\ c \in Capture /\ c.updates = q /\ c.known = capture.known
        /\ c.backlog = capture.backlog /\ c.converting = capture.converting
    BY <2>1, <2>2 DEF Capture, q
  <2> HIDE DEF c
  <2>5. CaptureOwn(c, u)
    BY <1>5, <2>3, <2>4 DEF CaptureOwn
  <2> QED
    BY <2>5 DEF c
<1>7. CaptureOwn(capture', u)
  BY <1>5, <1>6, IdleOwn DEF Becomes, Announce
<1> QED
  BY <1>2, <1>3, <1>4, <1>7 DEF IInv

-----------------------------------------------------------------------------
(* The actions.                                                            *)

LEMMA Nothing == sent' = <<>> => SentOK' /\ SentIsThisPress'
  BY DEF SentOK, SentIsThisPress

LEMMA Keeping ==
    ASSUME AudioAssumption, IInv, NEW u, Moves(u), Becomes(u), Keeps
    PROVE  IInv'
  BY Nothing, BecomesKept DEF Keeps

LEMMA EncodingActions ==
    ASSUME AudioAssumption, IInv,
           queueDtmfPcm \/ sendNextDtmfFrame \/ setTxAudioDevice \/ onTxAudioInitFailed
    PROVE  IInv'
<1>1. Moves(udp) /\ udp \in Udp
  BY DEF IInv, Moves, Fits
<1>2. udp.state.ptt \in BOOLEAN
  BY <1>1 DEF Udp, State
<1>3. Moves(finishDtmf(udp))
  BY <1>1, FinishMoves
<1>4. CASE queueDtmfPcm
  <2> DEFINE e == updateTxEncodingState(udp, udp.state.ptt, TRUE)
             v == [e EXCEPT !.tones = 2, !.playing = TRUE]
  <2>1. Moves(e) /\ e \in Udp
    BY <1>1, <1>2, EncodingMoves DEF Moves, Fits
  <2>2. \E u \in {finishDtmf(udp), [e EXCEPT !.tones = 2, !.playing = TRUE]} : Becomes(u) /\ Keeps
    BY <1>4 DEF queueDtmfPcm
  <2> HIDE DEF e
  <2>3. /\ v.state = e.state /\ v.changes = e.changes /\ v.started = e.started
        /\ v.device = e.device /\ v.queue = e.queue /\ v.worker = e.worker
        /\ v.playback = e.playback /\ v.tones = 2 /\ v \in Udp
    BY <2>1 DEF Udp
  <2> HIDE DEF v
  <2>4. Moves(v)
    <3>1. TriedOnce(v)
      BY <2>1, <2>3 DEF Moves, TriedOnce
    <3> QED
      BY <1>1, <2>1, <2>3, <3>1, Harmless
  <2> QED
    BY <1>3, <2>2, <2>4, Keeping DEF v
<1>5. CASE sendNextDtmfFrame
  <2> DEFINE v == [udp EXCEPT !.tones = @ - 1]
  <2>1. CASE udp.state.ptt /\ udp.tones > 1
    <3>1. /\ v.state = udp.state /\ v.changes = udp.changes /\ v.started = udp.started
          /\ v.device = udp.device /\ v.queue = udp.queue /\ v.worker = udp.worker
          /\ v.playback = udp.playback /\ v.tones = udp.tones - 1
      BY <1>1 DEF Udp
    <3>2. udp.tones - 1 \in Nat /\ udp.tones - 1 > 0
      BY <1>1, <2>1 DEF Udp
    <3>3. v \in Udp
      BY <1>1, <3>2 DEF Udp
    <3>4. Becomes(v) /\ Keeps
      BY <1>5, <2>1 DEF sendNextDtmfFrame
    <3> HIDE DEF v
    <3>5. TriedOnce(v)
      BY <1>1, <3>1 DEF Moves, TriedOnce
    <3>6. Moves(v)
      BY <1>1, <3>1, <3>2, <3>3, <3>5, Harmless
    <3> QED
      BY <3>4, <3>6, Keeping
  <2>2. CASE ~(udp.state.ptt /\ udp.tones > 1)
    <3>1. Becomes(finishDtmf(udp)) /\ Keeps
      BY <1>5, <2>2 DEF sendNextDtmfFrame
    <3> QED
      BY <1>3, <3>1, Keeping
  <2> QED
    BY <2>1, <2>2
<1>6. CASE setTxAudioDevice
  <2>1. PICK d \in 0 .. 2 \ {udp.device} :
            Becomes(startTxAudio(stopTxAudio([udp EXCEPT !.device = d]))) /\ Keeps
    BY <1>6 DEF setTxAudioDevice
  <2> QED
    BY <1>1, <2>1, StopMoves, Keeping
<1>7. CASE onTxAudioInitFailed
  <2> DEFINE v == [udp EXCEPT !.worker = 0]
  <2>1. /\ v.state = udp.state /\ v.changes = udp.changes /\ v.started = udp.started
        /\ v.device = udp.device /\ v.queue = udp.queue /\ v.worker = 0
        /\ v.playback = udp.playback /\ v.tones = udp.tones /\ v.playing = udp.playing
        /\ v \in Udp
    BY <1>1 DEF Udp
  <2>2. Becomes(v) /\ sent' = <<>> /\ inbox # <<>> /\ inbox' = Tail(inbox)
    BY <1>7 DEF onTxAudioInitFailed
  <2> HIDE DEF v
  <2>3. TriedOnce(v) /\ (v.playing => v.tones > 0)
    BY <1>1, <2>1 DEF Moves, Fits, TriedOnce
  <2>4. Moves(v)
    BY <1>1, <2>1, <2>3, Harmless
  <2> QED
    BY <2>2, <2>4, Nothing, BecomesKept
<1> QED
  BY <1>4, <1>5, <1>6, <1>7

LEMMA KeyingAction ==
    ASSUME AudioAssumption, IInv, NEW active \in BOOLEAN, setTxActive(active)
    PROVE  IInv'
<1> DEFINE told  == updateTxEncodingState(udp, active, active /\ udp.state.dtmf)
           ready == IF active /\ told.enabled THEN startTxAudio(told) ELSE told
           keyed == [ready EXCEPT !.queue = <<>>, !.pump = active]
           first == [Silence EXCEPT !.epoch = told.state.epoch, !.during = told.changes]
<1>1. Moves(udp) /\ udp \in Udp /\ udp.state.dtmf \in BOOLEAN
  BY DEF IInv, Moves, Fits, Udp, State
<1>2. (active /\ udp.state.dtmf) \in BOOLEAN
  OBVIOUS
<1>3. Moves(told) /\ told.state.ptt = active
  BY <1>1, <1>2, EncodingMoves
<1>4. /\ \/ /\ told.state = udp.state /\ Becomes(ready) /\ sent' = <<>>
         \/ /\ active /\ Becomes(keyed) /\ sent' \in {<<>>, <<first>>}
         \/ /\ Becomes(finishDtmf(keyed)) /\ sent' = <<>>
      /\ UNCHANGED inbox
  BY DEF setTxActive
<1>5. Silence \in Block /\ Silence.worker = 0
  BY <1>1 DEF Silence, Block, Udp, State
<1>14. first.during = told.changes /\ first.worker = 0 /\ first \in Block
  <2>1. told.state.epoch \in Nat /\ told.changes \in Nat
    BY <1>3 DEF Moves, Fits, Udp, State
  <2> HIDE DEF told
  <2> QED
    BY <1>5, <2>1 DEF Block
<1> HIDE DEF told, first
<1>6. Moves(ready) /\ ready.state = told.state /\ ready.changes = told.changes
  BY <1>1, <1>3, StartMoves
<1> HIDE DEF ready
<1>7. ready \in Udp
  BY <1>6 DEF Moves, Fits
<1>8. /\ keyed.state = ready.state /\ keyed.changes = ready.changes
      /\ keyed.started = ready.started /\ keyed.device = ready.device /\ keyed.queue = <<>>
      /\ keyed.worker = ready.worker /\ keyed.playback = ready.playback
      /\ keyed.tones = ready.tones /\ keyed.playing = ready.playing
  BY <1>7 DEF Udp
<1>9. keyed \in Udp
  <2>1. <<>> \in Seq(Block)
    OBVIOUS
  <2> QED
    BY <1>7, <2>1 DEF Udp
<1> HIDE DEF keyed
<1>10. Moves(keyed)
  <2>1. TriedOnce(keyed) /\ (keyed.playing => keyed.tones > 0)
    BY <1>6, <1>8 DEF Moves, Fits, TriedOnce
  <2> QED
    BY <1>1, <1>6, <1>8, <1>9, <2>1, Harmless
<1>11. ASSUME NEW u, Moves(u), Becomes(u), sent' = <<>> PROVE IInv'
  BY <1>4, <1>11, Nothing, BecomesKept
<1>12. ASSUME active, Becomes(keyed), sent' = <<first>> PROVE IInv'
  <2>2. SentOK'
    BY <1>12, <1>14 DEF SentOK
  <2>3. udp' = keyed /\ keyed.state.ptt /\ keyed.changes = told.changes
    BY <1>3, <1>6, <1>8, <1>12 DEF Becomes
  <2>4. sent'[1] = first
    BY <1>12
  <2>5. SentIsThisPress'
    BY <1>14, <2>3, <2>4 DEF SentIsThisPress
  <2> QED
    BY <1>4, <1>10, <1>12, <2>2, <2>5, BecomesKept
<1>13. Moves(finishDtmf(keyed))
  BY <1>1, <1>10, FinishMoves
<1> QED
  BY <1>4, <1>6, <1>10, <1>11, <1>12, <1>13

-----------------------------------------------------------------------------
(* Playback.                                                               *)

LEMMA PlaybackMoves ==
    ASSUME AudioAssumption, Moves(udp), NEW u, Moves(u)
    PROVE  Moves(startAudio(u))
<1> DEFINE v == [u EXCEPT !.playback.worker = TRUE, !.playback.tries = @ + 1]
<1>1. u \in Udp /\ u.playback \in Playback
  BY DEF Moves, Fits, Udp
<1>2. CASE shouldStart(u)
  <2>1. u.playback.tries = 0
    BY <1>1, <1>2 DEF shouldStart, Moves, TriedOnce, Playback
  <2> DEFINE p == [u.playback EXCEPT !.worker = TRUE, !.tries = @ + 1]
  <2>6. p \in Playback /\ p.worker /\ p.tries = 1
    <3> DEFINE o == u.playback
               n == o.tries + 1
    <3>1. o \in Playback /\ n = 1
      BY <1>1, <2>1
    <3> HIDE DEF o, n
    <3>2. [o EXCEPT !.worker = TRUE, !.tries = n] \in Playback
      BY <3>1 DEF Playback
    <3>3. p = [o EXCEPT !.worker = TRUE, !.tries = n]
      BY DEF o, n
    <3> HIDE DEF p
    <3> QED
      BY <3>1, <3>2, <3>3 DEF Playback
  <2>7. v = [u EXCEPT !.playback = p]
    BY <1>1 DEF Udp
  <2> HIDE DEF p
  <2>2. v \in Udp /\ v.playback.worker /\ v.playback.tries = 1
    BY <1>1, <2>6, <2>7 DEF Udp
  <2>3. /\ v.state = u.state /\ v.changes = u.changes /\ v.started = u.started
        /\ v.device = u.device /\ v.queue = u.queue /\ v.worker = u.worker
        /\ v.tones = u.tones /\ v.playing = u.playing
    BY <1>1 DEF Udp
  <2>4. startAudio(u) = v
    BY <1>2 DEF startAudio
  <2> HIDE DEF v
  <2>5. TriedOnce(v) /\ (v.playing => v.tones > 0)
    BY <2>2, <2>3 DEF Moves, Fits, TriedOnce
  <2> QED
    BY <2>2, <2>3, <2>4, <2>5, Harmless
<1>3. CASE ~shouldStart(u)
  BY <1>3 DEF startAudio
<1> QED
  BY <1>2, <1>3

\* Another playback state in which the attempt runs, has failed, or is still to come.
LEMMA Replayed ==
    ASSUME AudioAssumption, Moves(udp), NEW p \in Playback,
           p.tries <= 1, p.tries = 1 => p.worker \/ p.blocked
    PROVE  Moves([udp EXCEPT !.playback = p])
<1> DEFINE v == [udp EXCEPT !.playback = p]
<1>1. udp \in Udp
  BY DEF Moves, Fits
<1>2. /\ v.state = udp.state /\ v.changes = udp.changes /\ v.started = udp.started
      /\ v.device = udp.device /\ v.queue = udp.queue /\ v.worker = udp.worker
      /\ v.tones = udp.tones /\ v.playing = udp.playing /\ v.playback = p /\ v \in Udp
  BY <1>1 DEF Udp
<1> HIDE DEF v
<1>3. TriedOnce(v) /\ (v.playing => v.tones > 0)
  BY <1>2 DEF Moves, Fits, TriedOnce
<1>4. Moves(v)
  BY <1>2, <1>3, Harmless
<1> QED
  BY <1>4 DEF v

LEMMA PlaybackActions ==
    ASSUME AudioAssumption, IInv,
           RxPacket \/ RxWorkerFails \/ onRxAudioInitFailed \/ setRxAudioDevice
    PROVE  IInv'
<1> DEFINE b == udp.playback
<1>1. Moves(udp) /\ udp \in Udp /\ b \in Playback
  BY DEF IInv, Moves, Fits, Udp
<1>2. b.tries <= 1 /\ (b.tries = 1 => b.worker \/ b.blocked)
  BY <1>1 DEF Moves, TriedOnce
<1>3. CASE RxPacket
  BY <1>1, <1>3, PlaybackMoves, Keeping DEF RxPacket
<1>4. CASE RxWorkerFails
  <2> DEFINE p == [b EXCEPT !.lost = @ + 1]
  <2>1. p \in Playback /\ p.tries = b.tries /\ p.worker = b.worker /\ p.blocked = b.blocked
    BY <1>1 DEF Playback
  <2>2. Becomes([udp EXCEPT !.playback = p]) /\ Keeps
    BY <1>4 DEF RxWorkerFails
  <2> HIDE DEF p
  <2>3. Moves([udp EXCEPT !.playback = p])
    BY <1>1, <1>2, <2>1, Replayed
  <2> QED
    BY <2>2, <2>3, Keeping
<1>5. CASE onRxAudioInitFailed
  <2> DEFINE p == RxFailed(b)
  <2>1. b.lost - 1 \in Nat
    BY <1>1, <1>5 DEF onRxAudioInitFailed, Playback
  <2>2. p \in Playback /\ p.tries = b.tries /\ p.blocked
    BY <1>1, <2>1 DEF RxFailed, Playback
  <2>3. Becomes([udp EXCEPT !.playback = p]) /\ Keeps
    BY <1>5 DEF onRxAudioInitFailed
  <2> HIDE DEF p
  <2>4. Moves([udp EXCEPT !.playback = p])
    BY <1>1, <1>2, <2>2, Replayed
  <2> QED
    BY <2>3, <2>4, Keeping
<1>6. CASE setRxAudioDevice
  <2>1. PICK changed \in BOOLEAN :
            /\ Becomes(startAudio([udp EXCEPT !.playback.worker = @ /\ ~changed,
                                              !.playback.blocked = FALSE, !.playback.tries = 0]))
            /\ Keeps
    BY <1>6 DEF setRxAudioDevice
  <2> DEFINE w == b.worker /\ ~changed
             p == [b EXCEPT !.worker = w, !.blocked = FALSE, !.tries = 0]
             v == [udp EXCEPT !.playback.worker = w, !.playback.blocked = FALSE,
                              !.playback.tries = 0]
  <2>2. w \in BOOLEAN
    BY <1>1 DEF Playback
  <2>3. Becomes(startAudio(v)) /\ Keeps
    BY <2>1
  <2> HIDE DEF w
  <2>6. v = [udp EXCEPT !.playback = p]
    BY <1>1 DEF Udp
  <2>4. p \in Playback /\ p.tries = 0
    BY <1>1, <2>2 DEF Playback
  <2> HIDE DEF p, v
  <2>5. Moves([udp EXCEPT !.playback = p])
    BY <1>1, <2>4, Replayed
  <2> QED
    BY <1>1, <2>3, <2>5, <2>6, PlaybackMoves, Keeping
<1> QED
  BY <1>3, <1>4, <1>5, <1>6

LEMMA SessionActions ==
    ASSUME AudioAssumption, IInv, enableAudio \/ stopLocalAudio
    PROVE  IInv'
<1>1. Moves(udp) /\ udp \in Udp
  BY DEF IInv, Moves, Fits
<1>2. CASE enableAudio
  <2> DEFINE v == [udp EXCEPT !.enabled = TRUE]
  <2>1. /\ v.state = udp.state /\ v.changes = udp.changes /\ v.started = udp.started
        /\ v.device = udp.device /\ v.queue = udp.queue /\ v.worker = udp.worker
        /\ v.tones = udp.tones /\ v.playing = udp.playing /\ v.playback = udp.playback /\ v \in Udp
    BY <1>1 DEF Udp
  <2>2. Becomes(startTxAudio(startAudio(v))) /\ Keeps
    BY <1>2 DEF enableAudio
  <2> HIDE DEF v
  <2>3. TriedOnce(v) /\ (v.playing => v.tones > 0)
    BY <1>1, <2>1 DEF Moves, Fits, TriedOnce
  <2>4. Moves(v)
    BY <1>1, <2>1, <2>3, Harmless
  <2>5. Moves(startTxAudio(startAudio(v)))
    BY <1>1, <2>4, PlaybackMoves, StartMoves
  <2> QED
    BY <2>2, <2>5, Keeping
<1>3. CASE stopLocalAudio
  <2> DEFINE e == updateTxEncodingState(udp, FALSE, FALSE)
             b == e.playback
             p == [b EXCEPT !.worker = FALSE, !.blocked = FALSE, !.tries = 0]
             v == [e EXCEPT !.enabled = FALSE, !.worker = 0, !.playback = p]
  <2>1. Moves(e)
    BY <1>1, EncodingMoves
  <2>2. Becomes(v) /\ Keeps
    BY <1>3 DEF stopLocalAudio
  <2> HIDE DEF e
  <2>3. e \in Udp /\ b \in Playback
    BY <2>1 DEF Moves, Fits, Udp
  <2>4. p \in Playback /\ p.tries = 0
    BY <2>3 DEF Playback
  <2> HIDE DEF b, p
  <2>5. /\ v.state = e.state /\ v.changes = e.changes /\ v.started = e.started
        /\ v.device = e.device /\ v.queue = e.queue /\ v.worker = 0
        /\ v.tones = e.tones /\ v.playing = e.playing /\ v.playback = p
    BY <2>3 DEF Udp
  <2>8. v \in Udp
    BY <2>3, <2>4 DEF Udp
  <2> HIDE DEF v
  <2>6. TriedOnce(v) /\ (v.playing => v.tones > 0)
    BY <2>1, <2>4, <2>5 DEF Moves, Fits, TriedOnce
  <2>7. Moves(v)
    BY <1>1, <2>1, <2>5, <2>6, <2>8, Harmless
  <2> QED
    BY <2>2, <2>7, Keeping
<1> QED
  BY <1>2, <1>3

-----------------------------------------------------------------------------
(* The way of a block.                                                     *)

\* UdpAudio keeps its state, device and worker, and what waits to be sent is
\* among what waited before, or has just been accepted.
LEMMA FramesKept ==
    ASSUME AudioAssumption, IInv, NEW q \in Seq(Block), Len(q) <= Backlog,
           \A i \in 1 .. Len(q) : /\ q[i].epoch = udp.changes /\ q[i].during = udp.changes
                                  /\ q[i].device = udp.device /\ encodingAuthorized(udp.state),
           NEW v \in {udp, [udp EXCEPT !.queue = q], [udp EXCEPT !.queue = q, !.pump = FALSE]},
           q = v.queue, udp' = v,
           UNCHANGED capture, SentOK', SentIsThisPress',
           inbox' = inbox \/ (inbox # <<>> /\ inbox' = Tail(inbox))
    PROVE  IInv'
<1>1. Moves(udp) /\ udp \in Udp
  BY DEF IInv, Moves, Fits
<1>2. /\ v.state = udp.state /\ v.changes = udp.changes /\ v.started = udp.started
      /\ v.device = udp.device /\ v.worker = udp.worker
      /\ v.tones = udp.tones /\ v.playing = udp.playing /\ v.playback = udp.playback
  BY <1>1 DEF Udp
<1>3. v \in Udp
  BY <1>1 DEF Udp
<1>4. udp' = v
  OBVIOUS
<1>5. Fits(v) /\ TriedOnce(v) /\ QueueOwn(v)
  BY <1>1, <1>2, <1>3 DEF Moves, Fits, TriedOnce, QueueOwn
<1>6. Follows(v)
  BY <1>1, <1>2 DEF Follows, Udp
<1>7. Moves(udp)'
  <2>1. Follows(udp)'
    BY <1>3, <1>4 DEF Follows, Udp
  <2>2. (Fits(udp) /\ TriedOnce(udp) /\ QueueOwn(udp))'
    BY <1>4, <1>5 DEF Fits, TriedOnce, QueueOwn
  <2> QED
    BY <2>1, <2>2 DEF Moves
<1>8. InboxOwn(inbox', v)
  BY <1>1, <1>3, <1>6, InboxKept DEF IInv
<1>9. CaptureOwn(capture', v)
  BY <1>1, <1>3, <1>6, CaptureKept DEF IInv
<1>10. v.started <= MaxWorkers
  BY <1>2 DEF IInv
<1> QED
  BY <1>4, <1>7, <1>8, <1>9, <1>10 DEF IInv

LEMMA BlockReceived == ASSUME AudioAssumption, IInv, receiveAudioData PROVE IInv'
<1> DEFINE b == Head(inbox).block
           q == Append(udp.queue, b)
           k == IF Len(q) > Backlog THEN Tail(q) ELSE q
<1>1. Moves(udp) /\ udp \in Udp /\ udp.queue \in Seq(Block) /\ Len(udp.queue) <= Backlog
      /\ udp.changes \in Nat /\ udp.worker \in Nat
  BY DEF IInv, Moves, Fits, Udp
<1>2. /\ inbox # <<>> /\ Head(inbox).kind = "block" /\ inbox' = Tail(inbox)
      /\ udp' = IF Accepts(b) THEN [udp EXCEPT !.queue = k] ELSE udp
      /\ sent' = <<>> /\ UNCHANGED capture
  BY DEF receiveAudioData
<1>3. b \in Block /\ Recorded(b, udp)
  <2>1. inbox \in Seq(Signal) /\ Len(inbox) \in Nat \ {0}
    BY <1>2, LenProperties, EmptySeq DEF IInv, InboxOwn
  <2>2. Head(inbox) = inbox[1] /\ 1 \in 1 .. Len(inbox) /\ inbox[1] \in Signal
    BY <1>2, <2>1, HeadTailProperties, ElementOfSeq
  <2> QED
    BY <1>2, <2>2 DEF IInv, InboxOwn, Signal
<1> HIDE DEF b
<1>4. SentOK' /\ SentIsThisPress'
  BY <1>2, Nothing
<1>5. CASE Accepts(b)
  <2>1. /\ b.epoch = udp.changes /\ b.during = udp.changes /\ b.device = udp.device
        /\ encodingAuthorized(udp.state)
    BY <1>1, <1>3, <1>5 DEF Accepts, Recorded, Block, Moves, Fits
  <2>2. /\ q \in Seq(Block) /\ Len(q) = Len(udp.queue) + 1 /\ Len(udp.queue) \in Nat
        /\ \A i \in 1 .. Len(q) : q[i] = IF i = Len(q) THEN b ELSE udp.queue[i]
    BY <1>1, <1>3, AppendProperties, LenProperties
  <2> HIDE DEF q
  <2>3. \A i \in 1 .. Len(q) : /\ q[i].epoch = udp.changes /\ q[i].during = udp.changes
                               /\ q[i].device = udp.device /\ encodingAuthorized(udp.state)
    BY <1>1, <2>1, <2>2 DEF Moves, QueueOwn
  <2>4. /\ k \in Seq(Block) /\ Len(k) <= Backlog
        /\ \A i \in 1 .. Len(k) : /\ k[i].epoch = udp.changes /\ k[i].during = udp.changes
                                  /\ k[i].device = udp.device /\ encodingAuthorized(udp.state)
    <3>1. q # <<>>
      BY <2>2
    <3>2. /\ Tail(q) \in Seq(Block) /\ Len(Tail(q)) = Len(q) - 1
          /\ \A i \in 1 .. Len(Tail(q)) : Tail(q)[i] = q[i + 1]
      BY <2>2, <3>1, HeadTailProperties
    <3>3. Backlog \in Nat
      BY DEF AudioAssumption
    <3>4. \A i \in 1 .. Len(Tail(q)) : i + 1 \in 1 .. Len(q)
      BY <2>2, <3>2
    <3>5. Len(Tail(q)) <= Backlog /\ (~(Len(q) > Backlog) => Len(q) <= Backlog)
      BY <1>1, <2>2, <3>2, <3>3
    <3> QED
      BY <2>2, <2>3, <3>2, <3>4, <3>5
  <2> HIDE DEF k
  <2>5. udp' = [udp EXCEPT !.queue = k] /\ k = [udp EXCEPT !.queue = k].queue
    BY <1>1, <1>2, <1>5 DEF Udp
  <2> QED
    BY <1>2, <1>4, <2>4, <2>5, FramesKept
<1>6. CASE ~Accepts(b)
  <2>1. \A i \in 1 .. Len(udp.queue) :
           /\ udp.queue[i].epoch = udp.changes /\ udp.queue[i].during = udp.changes
           /\ udp.queue[i].device = udp.device /\ encodingAuthorized(udp.state)
    BY <1>1 DEF Moves, QueueOwn
  <2>2. udp' = udp
    BY <1>2, <1>6
  <2> QED
    BY <1>1, <1>2, <1>4, <2>1, <2>2, FramesKept
<1> QED
  BY <1>5, <1>6

\* Where every block that waits is of this epoch, none is passed over.
LEMMA AllMatch ==
    ASSUME NEW q \in Seq(Block), NEW e, \A i \in 1 .. Len(q) : q[i].epoch = e
    PROVE  Matching(q, e) = q
<1> DEFINE hits == {i \in DOMAIN q : q[i].epoch = e}
           first == CHOOSE i \in hits : \A j \in hits : i <= j
<1>1. Len(q) \in Nat /\ DOMAIN q = 1 .. Len(q)
  BY LenProperties
<1>2. hits = 1 .. Len(q)
  BY <1>1
<1>3. CASE q = <<>>
  <2>1. hits = {}
    BY <1>2, <1>3
  <2> QED
    BY <1>3, <2>1 DEF Matching
<1>4. CASE q # <<>>
  <2>1. 1 \in hits /\ \A j \in hits : 1 <= j
    BY <1>1, <1>2, <1>4, EmptySeq
  <2>2. first \in hits /\ \A j \in hits : first <= j
    BY <2>1
  <2>3. first = 1
    BY <1>1, <1>2, <2>1, <2>2
  <2>4. hits # {} /\ Matching(q, e) = IF hits = {} THEN <<>> ELSE SubSeq(q, first, Len(q))
    BY <2>1 DEF Matching
  <2> HIDE DEF hits, first
  <2>5. Matching(q, e) = SubSeq(q, 1, Len(q))
    BY <2>3, <2>4
  <2>6. SubSeq(q, 1, Len(q)) = q
    BY <1>1
  <2> QED
    BY <2>5, <2>6
<1> QED
  BY <1>3, <1>4

LEMMA FrameSent == ASSUME AudioAssumption, IInv, sendNextTxAudioFrame PROVE IInv'
<1> DEFINE q == udp.queue
           fit == Matching(q, udp.state.epoch)
<1>1. /\ Moves(udp) /\ udp \in Udp /\ q \in Seq(Block) /\ Len(q) <= Backlog
      /\ udp.state \in State /\ udp.changes \in Nat /\ udp.state.epoch = udp.changes
  BY DEF IInv, Moves, Fits, Udp
<1>2. \A i \in 1 .. Len(q) : /\ q[i].epoch = udp.changes /\ q[i].during = udp.changes
                             /\ q[i].device = udp.device /\ encodingAuthorized(udp.state)
  BY <1>1 DEF Moves, QueueOwn
<1>3. fit = q
  BY <1>1, <1>2, AllMatch
<1>4. /\ \/ udp' = [udp EXCEPT !.queue = <<>>, !.pump = FALSE] /\ sent' = <<>>
         \/ udp' = udp /\ sent' = <<>>
         \/ udp.state.ptt /\ fit = <<>> /\ sent' = <<Silence>> /\ udp' = [udp EXCEPT !.queue = <<>>]
         \/ udp.state.ptt /\ fit # <<>> /\ sent' = <<Head(fit)>>
            /\ udp' = [udp EXCEPT !.queue = Tail(fit)]
      /\ UNCHANGED <<inbox, capture>>
  BY DEF sendNextTxAudioFrame
<1> HIDE DEF fit
<1>5. <<>> \in Seq(Block) /\ Len(<<>>) <= Backlog /\ \A i \in 1 .. Len(<<>>) : FALSE
  BY DEF AudioAssumption
<1>6. Silence \in Block /\ Silence.during = udp.changes /\ Silence.worker = 0
  BY <1>1 DEF Silence, Block, State
<1>7. CASE udp' = [udp EXCEPT !.queue = <<>>, !.pump = FALSE] /\ sent' = <<>>
  <2> DEFINE v == [udp EXCEPT !.queue = <<>>, !.pump = FALSE]
  <2>1. v.queue = <<>> /\ udp' = v
    BY <1>1, <1>7 DEF Udp
  <2> QED
    BY <1>4, <1>5, <1>7, <2>1, Nothing, FramesKept
<1>8. CASE udp' = udp /\ sent' = <<>>
  BY <1>1, <1>2, <1>4, <1>8, Nothing, FramesKept
<1>9. CASE /\ udp.state.ptt /\ fit = <<>> /\ sent' = <<Silence>>
           /\ udp' = [udp EXCEPT !.queue = <<>>]
  <2> DEFINE v == [udp EXCEPT !.queue = <<>>]
  <2>1. v.queue = <<>> /\ udp' = v /\ v.state = udp.state /\ v.changes = udp.changes
    BY <1>1, <1>9 DEF Udp
  <2>2. SentOK'
    BY <1>6, <1>9 DEF SentOK
  <2>3. sent'[1] = Silence
    BY <1>9
  <2>4. udp'.state.ptt /\ udp'.changes = udp.changes
    BY <1>9, <2>1
  <2>5. SentIsThisPress'
    BY <1>6, <2>3, <2>4 DEF SentIsThisPress
  <2> HIDE DEF v
  <2> QED
    BY <1>4, <1>5, <2>1, <2>2, <2>5, FramesKept DEF v
<1>10. CASE /\ udp.state.ptt /\ fit # <<>> /\ sent' = <<Head(fit)>>
            /\ udp' = [udp EXCEPT !.queue = Tail(fit)]
  <2> DEFINE t == Tail(q)
             b == Head(q)
             v == [udp EXCEPT !.queue = t]
  <2>1. /\ Len(q) \in Nat \ {0} /\ t \in Seq(Block) /\ Len(t) = Len(q) - 1
        /\ b = q[1] /\ b \in Block /\ \A i \in 1 .. Len(t) : t[i] = q[i + 1]
    BY <1>1, <1>3, <1>10, HeadTailProperties, LenProperties, EmptySeq
  <2>2. sent' = <<b>> /\ udp' = v
    BY <1>3, <1>10
  <2> HIDE DEF b, t
  <2>3. v.queue = t /\ v.state = udp.state /\ v.changes = udp.changes /\ v.device = udp.device
    BY <1>1 DEF Udp
  <2>4. SentOK'
    BY <2>1, <2>2 DEF SentOK
  <2>5. 1 \in 1 .. Len(q) /\ \A i \in 1 .. Len(t) : i + 1 \in 1 .. Len(q)
    BY <2>1
  <2>6. b.during = udp.changes /\ b.device = udp.device /\ encodingAuthorized(udp.state)
    BY <1>2, <2>1, <2>5
  <2> HIDE DEF q
  <2>7. sent'[1] = b
    BY <2>2
  <2> HIDE DEF v
  <2>8. SentIsThisPress'
    BY <1>10, <2>2, <2>3, <2>6, <2>7 DEF SentIsThisPress, encodingAuthorized
  <2>9. \A i \in 1 .. Len(t) : /\ t[i].epoch = udp.changes /\ t[i].during = udp.changes
                               /\ t[i].device = udp.device /\ encodingAuthorized(udp.state)
    BY <1>2, <2>1, <2>5
  <2>10. Len(t) <= Backlog
    BY <1>1, <2>1 DEF AudioAssumption
  <2> QED
    BY <1>4, <2>1, <2>2, <2>3, <2>4, <2>8, <2>9, <2>10, FramesKept DEF v
<1> QED
  BY <1>4, <1>7, <1>8, <1>9, <1>10

-----------------------------------------------------------------------------
(* The capture worker.                                                     *)

LEMMA WorkerKept ==
    ASSUME AudioAssumption, IInv, UNCHANGED udp, sent' = <<>>,
           CaptureOwn(capture', udp), InboxOwn(inbox', udp)
    PROVE  IInv'
<1>1. Moves(udp)'
  BY DEF IInv, Moves, Fits, TriedOnce, QueueOwn, Follows
<1> QED
  BY <1>1, Nothing DEF IInv, CaptureOwn, InboxOwn, Recorded

LEMMA UpdateTaken == ASSUME AudioAssumption, IInv, WorkerUpdated PROVE IInv'
<1> DEFINE c == capture
           next == Head(c.updates)
           rest == Tail(c.updates)
           told == [c EXCEPT !.updates = rest]
           heard == [told EXCEPT !.known = next, !.backlog = <<>>]
<1>1. /\ c \in Capture /\ c.updates \in Seq(State) /\ c.updates # <<>> /\ CaptureOwn(c, udp)
      /\ udp.changes \in Nat
  BY DEF WorkerUpdated, IInv, CaptureOwn, Capture, Moves, Fits, Udp
<1>2. /\ capture' \in {told, heard} /\ sent' = <<>> /\ UNCHANGED <<udp, inbox>>
  BY DEF WorkerUpdated
<1>3. /\ next \in State /\ next = c.updates[1] /\ rest \in Seq(State)
      /\ Len(c.updates) \in Nat \ {0} /\ Len(rest) = Len(c.updates) - 1
      /\ \A i \in 1 .. Len(rest) : rest[i] = c.updates[i + 1]
  BY <1>1, HeadTailProperties, LenProperties, EmptySeq
<1>4. next.epoch <= udp.changes /\ \A i \in 1 .. Len(rest) : rest[i].epoch <= udp.changes
  <2>1. 1 \in 1 .. Len(c.updates) /\ \A i \in 1 .. Len(rest) : i + 1 \in 1 .. Len(c.updates)
    BY <1>3
  <2> QED
    BY <1>1, <1>3, <2>1 DEF CaptureOwn
<1> HIDE DEF next, rest
<1>5. /\ told \in Capture /\ told.updates = rest /\ told.known = c.known
      /\ told.backlog = c.backlog /\ told.converting = c.converting
  BY <1>1, <1>3 DEF Capture
<1> HIDE DEF told, c
<1>6. CaptureOwn(told, udp)
  BY <1>1, <1>4, <1>5 DEF CaptureOwn
<1>7. <<>> \in Seq(Block) /\ Len(<<>>) <= Backlog
  BY DEF AudioAssumption
<1>8. /\ heard \in Capture /\ heard.updates = rest /\ heard.known = next
      /\ heard.backlog = <<>> /\ heard.converting = told.converting
  BY <1>3, <1>5, <1>7 DEF Capture
<1> HIDE DEF heard
<1>9. CaptureOwn(heard, udp)
  BY <1>4, <1>6, <1>7, <1>8 DEF CaptureOwn
<1>10. InboxOwn(inbox, udp)
  BY DEF IInv
<1> QED
  BY <1>2, <1>6, <1>9, <1>10, WorkerKept

\* A queue of blocks that is full loses its oldest one.
LEMMA Joined ==
    ASSUME AudioAssumption, NEW q \in Seq(Block), NEW b \in Block, Len(q) <= Backlog,
           \A i \in 1 .. Len(q) : Recorded(q[i], udp), Recorded(b, udp)
    PROVE  LET j == Append(q, b)
               k == IF Len(j) > Backlog THEN Tail(j) ELSE j
           IN  /\ k \in Seq(Block) /\ Len(k) <= Backlog
               /\ \A i \in 1 .. Len(k) : Recorded(k[i], udp)
<1> DEFINE j == Append(q, b)
           k == IF Len(j) > Backlog THEN Tail(j) ELSE j
<1>1. /\ j \in Seq(Block) /\ Len(j) = Len(q) + 1 /\ Len(q) \in Nat
      /\ \A i \in 1 .. Len(j) : j[i] = IF i = Len(j) THEN b ELSE q[i]
  BY AppendProperties, LenProperties
<1> HIDE DEF j
<1>2. \A i \in 1 .. Len(j) : Recorded(j[i], udp)
  BY <1>1
<1>3. /\ Tail(j) \in Seq(Block) /\ Len(Tail(j)) = Len(j) - 1
      /\ \A i \in 1 .. Len(Tail(j)) : Tail(j)[i] = j[i + 1]
  BY <1>1, HeadTailProperties, EmptySeq
<1>4. \A i \in 1 .. Len(Tail(j)) : i + 1 \in 1 .. Len(j)
  BY <1>1, <1>3
<1>5. Len(Tail(j)) <= Backlog /\ (~(Len(j) > Backlog) => Len(j) <= Backlog)
  BY <1>1, <1>3 DEF AudioAssumption
<1>6. k \in Seq(Block) /\ Len(k) <= Backlog /\ \A i \in 1 .. Len(k) : Recorded(k[i], udp)
  BY <1>1, <1>2, <1>3, <1>4, <1>5
<1> QED
  BY <1>6 DEF j

LEMMA BlockRecorded == ASSUME AudioAssumption, IInv, WorkerRecords PROVE IInv'
<1> DEFINE c == capture
           b == [epoch |-> c.known.epoch, worker |-> udp.worker, device |-> udp.device,
                 during |-> udp.changes]
           j == Append(c.backlog, b)
           k == IF Len(j) > Backlog THEN Tail(j) ELSE j
           heard == [c EXCEPT !.device = "open"]
           first == [heard EXCEPT !.converting = <<b>>]
           waits == [heard EXCEPT !.backlog = k]
<1>1. /\ c \in Capture /\ CaptureOwn(c, udp) /\ c.known \in State /\ c.backlog \in Seq(Block)
      /\ Len(c.backlog) <= Backlog /\ udp \in Udp /\ udp.worker <= udp.started
  BY DEF IInv, CaptureOwn, Capture, Moves, Fits
<1>2. capture' \in {first, waits} /\ sent' = <<>> /\ UNCHANGED <<udp, inbox>>
  BY DEF WorkerRecords
<1>3. b \in Block /\ Recorded(b, udp)
  <2>1. /\ c.known.epoch \in Nat /\ udp.worker \in Nat /\ udp.device \in Nat
        /\ udp.changes \in Nat /\ c.known.epoch <= udp.changes
    BY <1>1 DEF State, Udp, CaptureOwn
  <2> QED
    BY <1>1, <2>1 DEF Block, Recorded
<1> HIDE DEF b
<1>4. k \in Seq(Block) /\ Len(k) <= Backlog /\ \A i \in 1 .. Len(k) : Recorded(k[i], udp)
  <2>1. \A i \in 1 .. Len(c.backlog) : Recorded(c.backlog[i], udp)
    BY <1>1 DEF CaptureOwn
  <2> HIDE DEF c
  <2> QED
    BY <1>1, <1>3, <2>1, Joined
<1> HIDE DEF k
<1>5. /\ heard \in Capture /\ heard.updates = c.updates /\ heard.known = c.known
      /\ heard.backlog = c.backlog /\ heard.converting = c.converting
  BY <1>1 DEF Capture
<1> HIDE DEF heard, c
<1>6. /\ first \in Capture /\ first.updates = c.updates /\ first.known = c.known
      /\ first.backlog = c.backlog /\ first.converting = <<b>>
  BY <1>3, <1>5 DEF Capture
<1>7. /\ waits \in Capture /\ waits.updates = c.updates /\ waits.known = c.known
      /\ waits.backlog = k /\ waits.converting = c.converting
  BY <1>4, <1>5 DEF Capture
<1> HIDE DEF first, waits
<1>8. CaptureOwn(first, udp)
  <2>1. \A i \in 1 .. Len(<<b>>) : <<b>>[i] = b
    OBVIOUS
  <2>2. \A i \in 1 .. Len(first.converting) : Recorded(first.converting[i], udp)
    BY <1>3, <1>6, <2>1
  <2> QED
    BY <1>1, <1>6, <2>2 DEF CaptureOwn
<1>9. CaptureOwn(waits, udp)
  BY <1>1, <1>4, <1>7 DEF CaptureOwn
<1>10. InboxOwn(inbox, udp)
  BY DEF IInv
<1> QED
  BY <1>2, <1>8, <1>9, <1>10, WorkerKept

LEMMA SignalJoins ==
    ASSUME AudioAssumption, IInv, Len(inbox) < MaxBlocks, NEW s \in Signal,
           s.kind = "block" => Recorded(s.block, udp)
    PROVE  InboxOwn(Append(inbox, s), udp)
<1> DEFINE box == Append(inbox, s)
<1>1. inbox \in Seq(Signal) /\ InboxOwn(inbox, udp)
  BY DEF IInv, InboxOwn
<1>2. /\ box \in Seq(Signal) /\ Len(box) = Len(inbox) + 1 /\ Len(inbox) \in Nat
      /\ \A i \in 1 .. Len(box) : box[i] = IF i = Len(box) THEN s ELSE inbox[i]
  BY <1>1, AppendProperties, LenProperties
<1>3. Len(box) <= MaxBlocks
  BY <1>2 DEF AudioAssumption
<1> HIDE DEF box
<1>4. \A i \in 1 .. Len(box) : box[i].kind = "block" => Recorded(box[i].block, udp)
  BY <1>1, <1>2 DEF InboxOwn
<1>5. InboxOwn(box, udp)
  BY <1>2, <1>3, <1>4 DEF InboxOwn
<1> QED
  BY <1>5 DEF box

LEMMA BlockConverted == ASSUME AudioAssumption, IInv, WorkerConverted PROVE IInv'
<1> DEFINE c == capture
           b == Head(c.converting)
           next == Head(c.backlog)
           rest == Tail(c.backlog)
           idle == [c EXCEPT !.converting = <<>>]
           busy == [c EXCEPT !.converting = <<next>>, !.backlog = rest]
           s == [kind |-> "block", block |-> b]
<1>1. /\ c \in Capture /\ CaptureOwn(c, udp) /\ c.backlog \in Seq(Block)
      /\ Len(c.backlog) <= Backlog
  BY DEF IInv, CaptureOwn, Capture
<1>2. /\ c.converting # <<>> /\ Len(inbox) < MaxBlocks /\ inbox' = Append(inbox, s)
      /\ capture' = IF c.backlog = <<>> THEN idle ELSE busy
      /\ sent' = <<>> /\ UNCHANGED udp
  BY DEF WorkerConverted
<1>3. b \in Block /\ Recorded(b, udp)
  <2>1. PICK x \in Block : c.converting = <<x>>
    BY <1>1, <1>2 DEF Capture
  <2>2. b = x /\ 1 \in 1 .. Len(c.converting) /\ c.converting[1] = x
    BY <2>1
  <2> QED
    BY <1>1, <2>2 DEF CaptureOwn
<1> HIDE DEF b
<1>4. InboxOwn(inbox', udp)
  <2>1. s \in Signal /\ s.block = b
    BY <1>3 DEF Signal
  <2> HIDE DEF s
  <2> QED
    BY <1>2, <1>3, <2>1, SignalJoins
<1>5. CASE c.backlog = <<>>
  <2>1. /\ idle \in Capture /\ idle.updates = c.updates /\ idle.known = c.known
        /\ idle.backlog = c.backlog /\ idle.converting = <<>>
    BY <1>1 DEF Capture
  <2>2. capture' = idle
    BY <1>2, <1>5
  <2> HIDE DEF idle, c
  <2>3. CaptureOwn(idle, udp)
    BY <1>1, <2>1 DEF CaptureOwn
  <2> QED
    BY <1>2, <1>4, <2>2, <2>3, WorkerKept
<1>6. CASE c.backlog # <<>>
  <2>1. /\ next \in Block /\ next = c.backlog[1] /\ rest \in Seq(Block)
        /\ Len(c.backlog) \in Nat \ {0} /\ Len(rest) = Len(c.backlog) - 1
        /\ \A i \in 1 .. Len(rest) : rest[i] = c.backlog[i + 1]
    BY <1>1, <1>6, HeadTailProperties, LenProperties, EmptySeq
  <2>2. Recorded(next, udp) /\ \A i \in 1 .. Len(rest) : Recorded(rest[i], udp)
    <3>1. 1 \in 1 .. Len(c.backlog) /\ \A i \in 1 .. Len(rest) : i + 1 \in 1 .. Len(c.backlog)
      BY <2>1
    <3> QED
      BY <1>1, <2>1, <3>1 DEF CaptureOwn
  <2>3. Len(rest) <= Backlog
    BY <1>1, <2>1 DEF AudioAssumption
  <2>4. capture' = busy
    BY <1>2, <1>6
  <2> HIDE DEF next, rest
  <2>5. /\ busy \in Capture /\ busy.updates = c.updates /\ busy.known = c.known
        /\ busy.backlog = rest /\ busy.converting = <<next>>
    BY <1>1, <2>1 DEF Capture
  <2> HIDE DEF busy, c
  <2>6. \A i \in 1 .. Len(busy.converting) : Recorded(busy.converting[i], udp)
    <3>1. \A i \in 1 .. Len(<<next>>) : <<next>>[i] = next
      OBVIOUS
    <3> QED
      BY <2>2, <2>5, <3>1
  <2>7. CaptureOwn(busy, udp)
    BY <1>1, <2>2, <2>3, <2>5, <2>6 DEF CaptureOwn
  <2> QED
    BY <1>2, <1>4, <2>4, <2>7, WorkerKept
<1> QED
  BY <1>5, <1>6

LEMMA WorkerLost == ASSUME AudioAssumption, IInv, WorkerFails PROVE IInv'
<1> DEFINE c == [capture EXCEPT !.device = "failed"]
           s == [kind |-> "failed"]
<1>1. capture \in Capture /\ CaptureOwn(capture, udp)
  BY DEF IInv, CaptureOwn
<1>2. /\ Len(inbox) < MaxBlocks /\ inbox' = Append(inbox, s) /\ capture' = c
      /\ sent' = <<>> /\ UNCHANGED udp
  BY DEF WorkerFails
<1>3. /\ c \in Capture /\ c.updates = capture.updates /\ c.known = capture.known
      /\ c.backlog = capture.backlog /\ c.converting = capture.converting
  BY <1>1 DEF Capture
<1> HIDE DEF c
<1>4. CaptureOwn(c, udp)
  BY <1>1, <1>3 DEF CaptureOwn
<1>5. s \in Signal /\ s.kind # "block"
  BY DEF Signal
<1> HIDE DEF s
<1>6. InboxOwn(inbox', udp)
  BY <1>2, <1>5, SignalJoins
<1> QED
  BY <1>2, <1>4, <1>6, WorkerKept

LEMMA StepHolds == ASSUME AudioAssumption, IInv, [Next]_vars PROVE IInv'
<1>1. CASE UNCHANGED vars
  BY <1>1 DEF vars, IInv, Moves, Fits, TriedOnce, QueueOwn, Follows, CaptureOwn, InboxOwn,
              Recorded, SentOK, SentIsThisPress
<1>2. CASE \E active \in BOOLEAN : setTxActive(active)
  BY <1>2, KeyingAction
<1>3. CASE queueDtmfPcm \/ sendNextDtmfFrame \/ setTxAudioDevice \/ onTxAudioInitFailed
  BY <1>3, EncodingActions
<1>4. CASE RxPacket \/ RxWorkerFails \/ onRxAudioInitFailed \/ setRxAudioDevice
  BY <1>4, PlaybackActions
<1>5. CASE enableAudio \/ stopLocalAudio
  BY <1>5, SessionActions
<1>6. CASE receiveAudioData \/ sendNextTxAudioFrame
  BY <1>6, BlockReceived, FrameSent
<1>7. CASE WorkerUpdated \/ WorkerRecords \/ WorkerConverted \/ WorkerFails
  BY <1>7, UpdateTaken, BlockRecorded, BlockConverted, WorkerLost
<1> QED
  BY <1>1, <1>2, <1>3, <1>4, <1>5, <1>6, <1>7, Zenon DEF Next

-----------------------------------------------------------------------------
(* Theorems.                                                               *)

\* The counters, queues and signals of the audio stream keep their types and
\* their limits.
THEOREM Typed == ASSUME AudioAssumption PROVE Spec => []TypeOK
<1>1. Init => IInv
  BY InitHolds
<1>2. IInv /\ [Next]_vars => IInv'
  BY StepHolds
<1>3. IInv => TypeOK
  BY TypesFollow
<1> QED
  BY <1>1, <1>2, <1>3, PTL DEF Spec

\* However the three threads interleave: a microphone block that is sent was
\* recorded since the last change of push-to-talk and DTMF, on the device in use,
\* while push-to-talk holds; otherwise silence is sent.
THEOREM OnlyThisPress == ASSUME AudioAssumption PROVE Spec => []SentIsThisPress
<1>1. Init => IInv
  BY InitHolds
<1>2. IInv /\ [Next]_vars => IInv'
  BY StepHolds
<1>3. IInv => SentIsThisPress
  BY DEF IInv
<1> QED
  BY <1>1, <1>2, <1>3, PTL DEF Spec

\* However many packets arrive, a playback device that does not open is tried
\* once per choice of the device and session.
THEOREM TriedOncePerDevice == ASSUME AudioAssumption PROVE Spec => []PlaybackTriedOnce
<1>1. Init => IInv
  BY InitHolds
<1>2. IInv /\ [Next]_vars => IInv'
  BY StepHolds
<1>3. IInv => PlaybackTriedOnce
  BY DEF IInv, Moves, TriedOnce, PlaybackTriedOnce
<1> QED
  BY <1>1, <1>2, <1>3, PTL DEF Spec
=============================================================================
