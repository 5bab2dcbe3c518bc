----------------------------- MODULE CivStream -----------------------------
(***************************************************************************)
(* The receive half of a LAN stream: UdpBase's sequence tracking and       *)
(* retransmit requests, and the duplicate gate (CivSequenceGate) in front  *)
(* of Commander.                                                           *)
(*                                                                         *)
(* The radio's packets are numbered 0, 1, 2, ...; a datagram carries only  *)
(* the number modulo Numbers.  Datagrams are reordered, and up to MaxFaults *)
(* of them are lost or duplicated.  The radio is external: it keeps its    *)
(* last RadioHold packets and sends a requested one again.                 *)
(***************************************************************************)
EXTENDS Integers, Sequences, FiniteSets, SequencesExt

CONSTANTS
    Numbers,      \* 65536: sequence numbers are quint16
    First,        \* the radio's first sequence number
    MaxMissing,   \* MAX_MISSING, 50
    BufSize,      \* BUFSIZE, 500
    Window,       \* CivSequenceGate::kRecentSequenceWindow, 512
    Attempts,     \* requests for one missing packet, 4
    RadioHold,    \* packets the radio can send again
    Lag,          \* a datagram is gone once Lag newer packets were sent
    MaxSent,      \* bound: packets sent
    MaxFaults,    \* bound: datagrams lost or duplicated
    MaxPurges     \* bound: purgeOldEntries finding entries older than 10 s

StreamAssumption ==
    /\ {Numbers, MaxMissing, BufSize, Window, Attempts, RadioHold, Lag} \subseteq Nat \ {0}
    /\ {First, MaxSent, MaxFaults, MaxPurges} \subseteq Nat
    /\ Numbers % 2 = 0
    /\ Window >= RadioHold + Lag
    /\ Numbers > 2 * (Window + Lag) \/ Numbers > MaxSent

VARIABLES
    sent,      \* packets the radio has sent
    net,       \* copies of each packet on their way
    asks,      \* retransmit requests on their way, each a set of numbers
    highest,   \* highestTrackedReceiveSequence, -1 before tracking is initialized
    order,     \* m_rxSequenceOrder
    known,     \* keys of rxSeqBuf
    missing,   \* rxMissing: sequence number to requests made
    recent,    \* m_recentSequenceOrder
    got,       \* how often each packet was handed to Commander
    seen,      \* packets that arrived at least once
    flushed,   \* tracking restarted: older gaps are given up
    faults, purges

radio    == <<sent, asks>>
tracking == <<highest, order, known, missing, flushed>>
gate     == <<recent, got, seen>>
vars     == <<sent, net, asks, highest, order, known, missing, recent, got, seen,
              flushed, faults, purges>>

Packets == 0 .. MaxSent - 1
Wire(n) == (First + n) % Numbers
forwardDistance(s) == (s - highest) % Numbers

Init ==
    /\ sent = 0 /\ net = [n \in Packets |-> 0] /\ asks = <<>>
    /\ highest = -1 /\ order = <<>> /\ known = {} /\ missing = <<>>
    /\ recent = <<>> /\ got = [n \in Packets |-> 0] /\ seen = {}
    /\ flushed = FALSE /\ faults = 0 /\ purges = 0

-----------------------------------------------------------------------------
(* UdpBase::dataReceived: what one packet does to the tracking.            *)

Tracking == [highest |-> highest, order |-> order, known |-> known,
             missing |-> missing, flushed |-> flushed]

\* trackReceiveSequence: remember s, forget the oldest beyond BufSize.
Tracked(t, s) ==
    LET o == IF s \in t.known THEN t.order ELSE Append(t.order, s)
        n == IF Len(o) > BufSize THEN Len(o) - BufSize ELSE 0
    IN  [t EXCEPT !.order = SubSeq(o, n + 1, Len(o)),
                  !.known = (@ \cup {s}) \ {o[i] : i \in 1 .. n}]

\* resetReceiveSequences and the new start at s.
Restarted(t, s) ==
    Tracked([t EXCEPT !.highest = s, !.order = <<>>, !.known = {}, !.missing = <<>>,
                      !.flushed = TRUE], s)

\* Bug for the mutation test: a gap only moves the mark.
GapForgotten(t, d) == t

\* The numbers between the highest tracked one and s become missing.
Gap(t, d) ==
    LET marked == [i \in 1 .. d - 1 |-> (t.highest + i) % Numbers]
        u      == FoldLeft(Tracked, t, marked)
    IN  [u EXCEPT !.missing = [s \in DOMAIN t.missing \cup {marked[i] : i \in 1 .. d - 1} |->
                                  IF \E i \in 1 .. d - 1 : marked[i] = s THEN 0
                                  ELSE t.missing[s]]]

Without(f, s) == [x \in DOMAIN f \ {s} |-> f[x]]

AfterPacket(t, s) ==
    LET d == forwardDistance(s)
    IN  IF t.highest = -1 THEN [Tracked(t, s) EXCEPT !.highest = s]
        ELSE IF d \in 1 .. MaxMissing THEN [Tracked(Gap(t, d), s) EXCEPT !.highest = s]
        ELSE IF d > 0 /\ d < Numbers \div 2 THEN Restarted(t, s)
        ELSE IF s \in DOMAIN t.missing THEN [t EXCEPT !.missing = Without(@, s)]
        ELSE IF d # 0 /\ s \notin t.known THEN Restarted(t, s)
        ELSE t

Track(t) ==
    /\ highest' = t.highest /\ order' = t.order /\ known' = t.known
    /\ missing' = t.missing /\ flushed' = t.flushed

-----------------------------------------------------------------------------
(* CivSequenceGate::accept, and delivery to Commander.  Only duplicates    *)
(* are held back: m_expected feeds the reordering diagnostics alone.       *)

\* Bug for the mutation test: anything behind the newest is a duplicate.
SuppressedIfBehind(s) ==
    recent # <<>> /\ (Last(recent) - s) % Numbers < Numbers \div 2

Suppressed(s) == \E i \in DOMAIN recent : recent[i] = s

\* Bug for the mutation test: the window keeps one number only.
WindowedToOne(q) == <<Last(q)>>

Windowed(q) == IF Len(q) > Window THEN Tail(q) ELSE q

accept(n) ==
    /\ seen' = seen \cup {n}
    /\ IF Suppressed(Wire(n)) THEN UNCHANGED <<recent, got>>
       ELSE /\ recent' = Windowed(Append(recent, Wire(n)))
            /\ got' = [got EXCEPT ![n] = IF @ < 2 THEN @ + 1 ELSE @]

\* UdpCivData::dataReceived for a data packet; the network may keep a copy.
Receive(n) ==
    /\ net[n] > 0
    /\ \/ net' = [net EXCEPT ![n] = @ - 1] /\ UNCHANGED faults
       \/ faults < MaxFaults /\ faults' = faults + 1 /\ UNCHANGED net
    /\ Track(AfterPacket(Tracking, Wire(n)))
    /\ accept(n)
    /\ UNCHANGED <<sent, asks, purges>>

-----------------------------------------------------------------------------
\* The retransmit timer fires.
sendRetransmitRequest ==
    /\ missing # <<>>
    /\ IF Cardinality(DOMAIN missing) > MaxMissing
       THEN /\ highest' = -1 /\ order' = <<>> /\ known' = {} /\ missing' = <<>>
            /\ flushed' = TRUE
            /\ UNCHANGED asks
       ELSE LET wanted == {s \in DOMAIN missing : missing[s] < Attempts}
            IN  /\ missing' = [s \in wanted |-> missing[s] + 1]
                /\ asks' = IF wanted = {} THEN asks ELSE Append(asks, wanted)
                /\ UNCHANGED <<highest, order, known, flushed>>
    /\ UNCHANGED <<sent, net, recent, got, seen, faults, purges>>

\* purgeOldEntries, called by sendTrackedPacket: the oldest k entries are
\* older than ten seconds, and too long a list of missing numbers loses its
\* smallest half.  The place of an entry in m_rxSequenceOrder stays.
purgeOldEntries ==
    LET kept == {s \in DOMAIN missing :
                    Cardinality({u \in DOMAIN missing : u < s}) >= MaxMissing \div 2}
        full == Cardinality(DOMAIN missing) > MaxMissing
    IN  /\ purges < MaxPurges /\ purges' = purges + 1
        /\ \E k \in 0 .. Len(order) : known' = known \ {order[i] : i \in 1 .. k}
        /\ missing' = IF full THEN [s \in kept |-> missing[s]] ELSE missing
        /\ flushed' = (flushed \/ full)
        /\ UNCHANGED <<sent, net, asks, highest, order, recent, got, seen, faults>>

-----------------------------------------------------------------------------
(* The radio and the network.                                              *)

RadioSend ==
    /\ sent < MaxSent
    /\ \A n \in Packets : net[n] > 0 => sent - n < Lag
    /\ sent' = sent + 1 /\ net' = [net EXCEPT ![sent] = 1]
    /\ UNCHANGED <<asks, tracking, gate, faults, purges>>

RadioRetransmit ==
    /\ asks # <<>> /\ asks' = Tail(asks)
    /\ net' = [n \in Packets |->
                  IF n < sent /\ n >= sent - RadioHold /\ Wire(n) \in Head(asks)
                  THEN net[n] + 1 ELSE net[n]]
    /\ UNCHANGED <<sent, tracking, gate, faults, purges>>

Lose ==
    /\ faults < MaxFaults /\ faults' = faults + 1
    /\ \/ \E n \in Packets : /\ net[n] > 0 /\ UNCHANGED asks
                             /\ net' = [net EXCEPT ![n] = @ - 1]
       \/ \E i \in DOMAIN asks : asks' = RemoveAt(asks, i) /\ UNCHANGED net
    /\ UNCHANGED <<sent, tracking, gate, purges>>

Next ==
    \/ \E n \in Packets : Receive(n)
    \/ sendRetransmitRequest
    \/ purgeOldEntries
    \/ RadioSend
    \/ RadioRetransmit
    \/ Lose

Spec == Init /\ [][Next]_vars

\* Datagrams that are not lost arrive; the timer and the radio keep running.
Delivers == net' # net
Fairness ==
    /\ \A n \in Packets : WF_vars(Receive(n) /\ Delivers)
    /\ WF_vars(sendRetransmitRequest)
    /\ WF_vars(RadioSend)
    /\ WF_vars(RadioRetransmit)

FairSpec == Spec /\ Fairness

-----------------------------------------------------------------------------
\* Every variable keeps its type; the tracking queue and the gate's window
\* stay within their bounds.
TypeOK ==
    /\ sent \in 0 .. MaxSent /\ net \in [Packets -> Nat]
    /\ highest \in -1 .. Numbers - 1
    /\ Len(order) <= BufSize /\ known \subseteq {order[i] : i \in DOMAIN order}
    /\ DOMAIN missing \subseteq 0 .. Numbers - 1
    /\ \A s \in DOMAIN missing : missing[s] \in 0 .. Attempts
    /\ Len(recent) <= Window
    /\ got \in [Packets -> 0 .. 2] /\ seen \subseteq Packets
    /\ faults \in 0 .. MaxFaults /\ purges \in 0 .. MaxPurges

\* Commander gets every CI-V payload that arrives, and gets it once, although
\* sequence numbers wrap, retransmissions cross late originals, and a reset of
\* the tracking asks again for what was already delivered.
DeliveredOnce == \A n \in Packets : got[n] = (IF n \in seen THEN 1 ELSE 0)

\* A packet overtaken by a later one is in the end delivered, unless the
\* tracking restarted meanwhile or the radio no longer has it: one lost packet,
\* with losses of its request or of its retransmission, costs no reply.
\* (Overtaken and Repaired, once true of a packet, stay so.)
Overtaken(n) == (\E k \in seen : k < n) /\ (\E m \in seen : m > n)
Repaired(n)  == got[n] = 1 \/ flushed \/ n < sent - RadioHold

NoGap == \A n \in Packets : Overtaken(n) => Repaired(n)

GapRepaired == []<>NoGap
=============================================================================
