---------------------------- MODULE TrackedSend ----------------------------
(***************************************************************************)
(* The send half of a LAN stream (UdpBase): tracked packets, the buffer    *)
(* they are kept in, and the answers to the radio's retransmit requests.   *)
(*                                                                         *)
(* Packets are numbered 0, 1, 2, ... in the order they are sent; on the    *)
(* wire a packet carries a sequence number modulo Numbers, from 1.         *)
(***************************************************************************)
EXTENDS Integers, FiniteSets, FiniteSetsExt

CONSTANTS
    Numbers,    \* 65536: sendSeq is a quint16
    BufSize,    \* BUFSIZE, 500
    MaxPackets  \* bound: packets sent

SendAssumption ==
    /\ {Numbers, BufSize} \subseteq Nat \ {0} /\ Numbers > BufSize + 1
    /\ MaxPackets \in Nat

VARIABLES
    packets,   \* packets sent
    sendSeq,   \* the next sequence number
    txSeqBuf,  \* sequence number to packet
    aged,      \* packets below this one were sent more than ten seconds ago
    answer     \* the last answer: sequence number, and packet or -1 for "not held"

vars == <<packets, sendSeq, txSeqBuf, aged, answer>>

WireNumbers == 0 .. Numbers - 1
Idle == -1

Init ==
    /\ packets = 0 /\ sendSeq = 1 /\ txSeqBuf = <<>> /\ aged = 0
    /\ answer = [seq |-> 0, packet |-> Idle]

Restricted(f, S) == [s \in S |-> f[s]]

\* Bug for the mutation test: nothing happens at the rollover.
KeptThroughRollover(buf) == buf

\* Sequence rollover starts a new retransmit window.
AfterRollover(buf) == IF sendSeq = 0 THEN <<>> ELSE buf

\* A full buffer loses its first key.
WithRoom(buf) ==
    IF Cardinality(DOMAIN buf) > BufSize
    THEN Restricted(buf, DOMAIN buf \ {Min(DOMAIN buf)})
    ELSE buf

\* purgeOldEntries: from the first key on, until an entry is young enough.
Purged(buf) ==
    Restricted(buf, {s \in DOMAIN buf : \E u \in DOMAIN buf : u <= s /\ buf[u] >= aged})

sendTrackedPacket ==
    /\ packets < MaxPackets
    /\ packets' = packets + 1
    /\ LET buf == WithRoom(AfterRollover(txSeqBuf))
       IN  txSeqBuf' = Purged([s \in DOMAIN buf \cup {sendSeq} |->
                                  IF s = sendSeq THEN packets ELSE buf[s]])
    /\ sendSeq' = (sendSeq + 1) % Numbers
    /\ UNCHANGED <<aged, answer>>

TenSecondsPass ==
    /\ \E n \in aged + 1 .. packets : aged' = n
    /\ UNCHANGED <<packets, sendSeq, txSeqBuf, answer>>

\* A request for one number, or one of several, is answered with the packet
\* kept under it; in a request for several an idle packet stands for the rest.
RetransmitRequest(s) ==
    /\ answer' = [seq |-> s, packet |-> IF s \in DOMAIN txSeqBuf THEN txSeqBuf[s] ELSE Idle]
    /\ UNCHANGED <<packets, sendSeq, txSeqBuf, aged>>

Next ==
    \/ sendTrackedPacket
    \/ TenSecondsPass
    \/ \E s \in WireNumbers : RetransmitRequest(s)

Spec == Init /\ [][Next]_vars

-----------------------------------------------------------------------------
\* Every variable keeps its type.
TypeOK ==
    /\ packets \in 0 .. MaxPackets /\ sendSeq = (packets + 1) % Numbers
    /\ DOMAIN txSeqBuf \subseteq WireNumbers
    /\ aged \in 0 .. packets
    /\ answer \in [seq : WireNumbers, packet : Idle .. packets - 1]

\* The buffer is one run of consecutive packets up to the newest, each under
\* its own number, with no more than BufSize + 1 of them: dropping the smallest
\* key drops the oldest packet, and a retransmission is never a packet of the
\* previous round of sequence numbers.
BufferIsRecentRun ==
    /\ Cardinality(DOMAIN txSeqBuf) <= BufSize + 1
    /\ \A s \in DOMAIN txSeqBuf :
           /\ (txSeqBuf[s] + 1) % Numbers = s
           /\ packets - txSeqBuf[s] < Numbers
           /\ \A n \in txSeqBuf[s] .. packets - 1 : (n + 1) % Numbers \in DOMAIN txSeqBuf
=============================================================================
