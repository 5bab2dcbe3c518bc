-------------------------- MODULE PttControlProofs --------------------------
(***************************************************************************)
(* The safety properties of PttControl that hold for every number of      *)
(* presses, sessions, faults and queued messages.                          *)
(***************************************************************************)
EXTENDS PttControl, SequenceTheorems, TLAPS

USE PttAssumption DEF PttAssumption

-----------------------------------------------------------------------------
\* The type invariant is inductive.
LEMMA TypeInit == Init => TypeOK
<1>1. Init => FlagsOK
  BY Zenon DEF Init, FlagsOK
<1>2. Init => StateOK
  BY DEF Init, StateOK
<1> QED
  BY <1>1, <1>2 DEF TypeOK

\* A status read, sent or deferred, leaves the two flags it uses Boolean.
LEMMA ReadFlags ==
  ASSUME NEW s, RequestStatus(s), live \in BOOLEAN, deferred \in BOOLEAN
  PROVE  live' \in BOOLEAN /\ deferred' \in BOOLEAN
<1>1. CASE Blocked
  BY <1>1, Zenon DEF RequestStatus
<1>2. CASE ~Blocked
  BY <1>2, Zenon DEF RequestStatus
<1> QED
  BY <1>1, <1>2

LEMMA FlagsNext == TypeOK /\ [Next]_vars => FlagsOK'
<1> SUFFICES ASSUME TypeOK, [Next]_vars PROVE FlagsOK'
  OBVIOUS
<1> USE DEF TypeOK, FlagsOK, policy, view, worker, link, bounds, gui
<1>1. CASE PressPtt
  <2>1. desired' = TRUE /\ offPending' = FALSE /\ released' = FALSE
    BY <1>1, Zenon DEF PressPtt
  <2>2. UNCHANGED <<safety, confirmed, view, worker, link>>
    BY <1>1, Zenon DEF PressPtt
  <2> QED
    BY <2>1, <2>2, Zenon
<1>2. CASE ReleasePtt
  <2>1. released' = TRUE /\ UNCHANGED <<safety, confirmed, view, worker, link>>
    BY <1>2, Zenon DEF ReleasePtt, sendPttOffNow
  <2>2. desired' \in BOOLEAN /\ offPending' \in BOOLEAN
    BY <1>2, Zenon DEF ReleasePtt, sendPttOffNow
  <2> QED
    BY <2>1, <2>2, Zenon
<1>3. CASE TailExpires
  BY <1>3, ZenonT(40) DEF TailExpires, sendPttOffNow
<1>4. CASE OnExpires
  <2>1. CASE desired /\ ~confirmed /\ sendPttOffNow({"on"})
    BY <1>4, <2>1, ZenonT(40) DEF OnExpires, sendPttOffNow
  <2>2. CASE UNCHANGED policy
    BY <1>4, <2>2, ZenonT(40) DEF OnExpires, sendPttOffNow
  <2> QED
    BY <1>4, <2>1, <2>2, ZenonT(40) DEF OnExpires
<1>5. CASE OffExpires
  BY <1>5, ZenonT(40) DEF OffExpires
<1>6. CASE MaxExpires
  <2>1. UNCHANGED <<safety, released, confirmed, view, worker, link>>
    BY <1>6, Zenon DEF MaxExpires, sendPttOffNow
  <2>2. desired' \in BOOLEAN /\ offPending' \in BOOLEAN
    BY <1>6, Zenon DEF MaxExpires, sendPttOffNow
  <2> QED
    BY <2>1, <2>2, ZenonT(40)
<1>7. CASE Meters
  <2>1. CASE UNCHANGED released /\ sendPttOffNow({})
    BY <2>1, ZenonT(40) DEF sendPttOffNow
  <2>2. CASE UNCHANGED released /\ UNCHANGED <<conn, safety, policy, timers, view, posted,
                                              worker, link, bounds>>
    BY <2>2, ZenonT(40)
  <2>3. \/ UNCHANGED released /\ sendPttOffNow({})
        \/ /\ UNCHANGED released
           /\ UNCHANGED <<conn, safety, policy, timers, view, posted, worker, link, bounds>>
    <3> HIDE DEF FlagsOK, policy, view, worker, link, bounds, gui
    <3> QED
      BY <1>7, Zenon DEF Meters, SwrReading
  <2> QED
    BY <2>1, <2>2, <2>3, ZenonT(40)
<1>8. CASE StatusDelivered
  <2>1. Head(events) \in BOOLEAN
    BY <1>8, HeadTailProperties DEF StatusDelivered, StateOK
  <2> QED
    BY <1>8, <2>1, ZenonT(60) DEF StatusDelivered, Published
<1>9. CASE Connect
  BY <1>9, ZenonT(40) DEF Connect
<1>10. CASE Disconnect \/ WakeDelayEnds
  BY <1>10, ZenonT(40) DEF Disconnect, WakeDelayEnds, shutdownConnection
<1>11. CASE CloseRuns
  BY <1>11, ZenonT(40) DEF CloseRuns
<1>12. CASE CommanderRuns
  <2>1. queuedRead' \in BOOLEAN /\ live' \in BOOLEAN /\ deferred' \in BOOLEAN
    BY <1>12, ReadFlags, Zenon DEF CommanderRuns
  <2> QED
    BY <1>12, <2>1, ZenonT(40) DEF CommanderRuns
<1>13. CASE ReadbackRuns
  <2>1. live' \in BOOLEAN /\ deferred' \in BOOLEAN
    BY <1>13, ReadFlags, Zenon DEF ReadbackRuns
  <2> QED
    BY <1>13, <2>1, ZenonT(40) DEF ReadbackRuns
<1>14. CASE DeferredReadRuns
  BY <1>14, ZenonT(40) DEF DeferredReadRuns
<1>15. CASE ReplyArrives
  BY <1>15, ZenonT(40) DEF ReplyArrives
<1>16. CASE ReadExpires
  BY <1>16, ZenonT(40) DEF ReadExpires
<1>17. CASE DrainEnds
  BY <1>17, ZenonT(40) DEF DrainEnds
<1>18. CASE RadioReceives
  BY <1>18, ZenonT(40) DEF RadioReceives
<1>19. CASE RadioSettles
  BY <1>19, ZenonT(40) DEF RadioSettles
<1>20. CASE Lose
  BY <1>20, ZenonT(40) DEF Lose
<1>21. CASE UNCHANGED vars
  BY <1>21, ZenonT(40) DEF vars
<1> QED
  BY <1>1, <1>2, <1>3, <1>4, <1>5, <1>6, <1>7, <1>8, <1>9, <1>10, <1>11, <1>12,
     <1>13, <1>14, <1>15, <1>16, <1>17, <1>18, <1>19, <1>20, <1>21, Zenon
     DEF Next, Operator, Clocks, Pipeline

\* What the queue operations of the actions do to the queues' types.
LEMMA QueueTypes ==
  ASSUME StateOK
  PROVE  /\ \A m \in Posts : Append(posted, m) \in Seq(Posts)
         /\ posted # <<>> => Tail(posted) \in Seq(Posts)
         /\ \A f \in Frames : Append(wire, f) \in Seq(Frames)
         /\ wire # <<>> => Tail(wire) \in Seq(Frames)
         /\ \A b \in BOOLEAN : Append(replies, b) \in Seq(BOOLEAN)
         /\ replies # <<>> => Tail(replies) \in Seq(BOOLEAN)
         /\ replies # <<>> => Append(events, Head(replies)) \in Seq(BOOLEAN)
         /\ events # <<>> => Tail(events) \in Seq(BOOLEAN)
BY HeadTailProperties DEF StateOK

\* The counters stay natural numbers and the SWR count stays below its limit.
LEMMA CountTypes ==
  ASSUME StateOK
  PROVE  /\ 0 \in 0 .. SwrLimit /\ SwrLimit \in 0 .. SwrLimit
         /\ ~CutoffReached => swrHigh + 1 \in 0 .. SwrLimit
         /\ presses + 1 \in Nat /\ sessions + 1 \in Nat
         /\ faults + 1 \in Nat /\ faults + 0 \in Nat
BY DEF StateOK, CutoffReached

\* Sending a read, or not, keeps the wire a queue of frames.
LEMMA ReadWire ==
  ASSUME StateOK, RequestStatus(wire)
  PROVE  wire' \in Seq(Frames)
BY QueueTypes, Zenon DEF RequestStatus, StateOK, Frames

\* sendPttOffNow keeps the timers and the posted lambdas of their types.
LEMMA UnkeyTypes ==
  ASSUME StateOK, NEW fired, sendPttOffNow(fired)
  PROVE  timers' \in SUBSET Timers /\ posted' \in Seq(Posts)
<1>1. timers' \in SUBSET Timers
  BY Zenon DEF StateOK, sendPttOffNow, Timers
<1>2. posted' \in Seq(Posts)
  BY QueueTypes, Zenon DEF sendPttOffNow, Unkey, Posts
<1> QED
  BY <1>1, <1>2

LEMMA StateNext == TypeOK /\ [Next]_vars => StateOK'
<1> SUFFICES ASSUME StateOK, tx \in BOOLEAN, [Next]_vars PROVE StateOK'
  BY DEF TypeOK, FlagsOK
<1> USE QueueTypes, CountTypes
        DEF StateOK, policy, view, worker, link, bounds, gui
<1>1. CASE PressPtt
  <2>1. timers' \in SUBSET Timers
    BY <1>1, Zenon DEF PressPtt, Timers
  <2>2. posted' \in Seq(Posts) /\ swrHigh' \in 0 .. SwrLimit
    BY <1>1, Zenon DEF PressPtt, Posts
  <2> QED
    BY <1>1, <2>1, <2>2, Zenon DEF PressPtt
<1>2. CASE ReleasePtt
  <2>1. CASE sendPttOffNow({})
    BY <1>2, <2>1, UnkeyTypes, Zenon DEF ReleasePtt, sendPttOffNow
  <2>2. CASE timers' = ReleaseTail /\ UNCHANGED <<conn, safety, policy, view, posted, worker, link, bounds>>
    <3>1. timers' \in SUBSET Timers
      BY <2>2, Zenon DEF ReleaseTail, Timers
    <3> QED
      BY <1>2, <2>2, <3>1, Zenon DEF ReleasePtt
  <2> QED
    BY <1>2, <2>1, <2>2, Zenon DEF ReleasePtt
<1>3. CASE TailExpires
  BY <1>3, UnkeyTypes, Zenon DEF TailExpires, sendPttOffNow
<1>4. CASE OnExpires
  <2>1. CASE sendPttOffNow({"on"})
    BY <1>4, <2>1, UnkeyTypes, Zenon DEF OnExpires, sendPttOffNow
  <2>2. CASE timers' = timers \ {"on"} /\ UNCHANGED <<conn, safety, policy, view, posted, worker, link, bounds>>
    BY <1>4, <2>2, Zenon DEF OnExpires
  <2> QED
    BY <1>4, <2>1, <2>2, Zenon DEF OnExpires
<1>5. CASE OffExpires
  <2>1. timers' \in SUBSET Timers
    BY <1>5, Zenon DEF OffExpires, Restarted, Timers
  <2>2. posted' \in Seq(Posts)
    BY <1>5, Zenon DEF OffExpires, Posts
  <2> QED
    BY <1>5, <2>1, <2>2, Zenon DEF OffExpires
<1>6. CASE MaxExpires
  <2>1. CASE sendPttOffNow({"max"}) /\ UNCHANGED swrHigh
    BY <1>6, <2>1, UnkeyTypes, Zenon DEF MaxExpires, sendPttOffNow
  <2>2. CASE /\ timers' = timers \ {"max"} /\ swrHigh' = 0
             /\ UNCHANGED <<conn, safety, policy, view, posted, worker, link, bounds>>
    BY <1>6, <2>2, Zenon DEF MaxExpires
  <2> QED
    BY <1>6, <2>1, <2>2, Zenon DEF MaxExpires
<1>7. CASE Meters
  <2> PICK high \in BOOLEAN : SwrReading(high)
    BY <1>7 DEF Meters
  <2>1. CASE swrHigh' = SwrLimit /\ sendPttOffNow({})
    BY <2>1, UnkeyTypes, Zenon DEF SwrReading, sendPttOffNow
  <2>2. CASE /\ ~high \/ ~safetyActive \/ ~CutoffReached
             /\ swrHigh' = IF high /\ safetyActive THEN swrHigh + 1 ELSE 0
             /\ UNCHANGED <<conn, safety, policy, timers, view, posted, worker, link, bounds>>
    <3>1. swrHigh' \in 0 .. SwrLimit
      BY <2>2, Zenon
    <3> QED
      BY <2>2, <3>1, Zenon
  <2> QED
    BY <2>1, <2>2, Zenon DEF SwrReading
<1>8. CASE StatusDelivered
  <2>1. StatusTimers(Head(events)) \in SUBSET Timers
    BY Zenon DEF StatusTimers, Timers
  <2>2. swrHigh' \in 0 .. SwrLimit /\ timers' \in SUBSET Timers
    BY <1>8, <2>1, Zenon DEF StatusDelivered
  <2> QED
    BY <1>8, <2>2, Zenon DEF StatusDelivered
<1>9. CASE Connect
  <2>1. <<"read">> \in Seq(Posts)
    BY DEF Posts
  <2> QED
    BY <1>9, <2>1, Zenon DEF Connect
<1>10. CASE Disconnect \/ WakeDelayEnds
  <2>1. <<"close">> \in Seq(Posts) /\ {} \in SUBSET Timers
    BY DEF Posts
  <2> QED
    BY <1>10, <2>1, Zenon DEF Disconnect, WakeDelayEnds, shutdownConnection
<1>11. CASE CloseRuns
  <2>1. <<>> \in Seq(BOOLEAN) /\ <<>> \in Seq(Posts)
    OBVIOUS
  <2> QED
    BY <1>11, <2>1, Zenon DEF CloseRuns, SafetyCommands, Frames
<1>12. CASE CommanderRuns
  <2>1. wire' \in Seq(Frames)
    BY <1>12, ReadWire, Zenon DEF CommanderRuns, Frames
  <2> QED
    BY <1>12, <2>1, Zenon DEF CommanderRuns
<1>13. CASE ReadbackRuns
  BY <1>13, ReadWire, Zenon DEF ReadbackRuns
<1>14. CASE DeferredReadRuns
  BY <1>14, Zenon DEF DeferredReadRuns, Frames
<1>15. CASE ReplyArrives
  BY <1>15, Zenon DEF ReplyArrives
<1>16. CASE ReadExpires
  BY <1>16, Zenon DEF ReadExpires
<1>17. CASE DrainEnds
  BY <1>17, Zenon DEF DrainEnds
<1>18. CASE RadioReceives
  <2>1. Append(replies, tx) \in Seq(BOOLEAN)
    OBVIOUS
  <2>2. replies' \in Seq(BOOLEAN)
    BY <1>18, <2>1, Zenon DEF RadioReceives
  <2> QED
    BY <1>18, <2>2, Zenon DEF RadioReceives
<1>19. CASE RadioSettles
  BY <1>19, Zenon DEF RadioSettles
<1>20. CASE Lose
  BY <1>20, Zenon DEF Lose
<1>21. CASE UNCHANGED vars
  BY <1>21, Zenon DEF vars
<1> QED
  BY <1>1, <1>2, <1>3, <1>4, <1>5, <1>6, <1>7, <1>8, <1>9, <1>10, <1>11, <1>12,
     <1>13, <1>14, <1>15, <1>16, <1>17, <1>18, <1>19, <1>20, <1>21, Zenon
     DEF Next, Operator, Clocks, Pipeline

\* Every variable of the push-to-talk protocol keeps its type.
THEOREM TypeCorrect == Spec => []TypeOK
<1>1. TypeOK /\ [Next]_vars => TypeOK'
  BY FlagsNext, StateNext DEF TypeOK
<1> QED
  BY TypeInit, <1>1, PTL DEF Spec

-----------------------------------------------------------------------------
(* An unkey is pursued and a transmission supervised.                      *)

\* A session that is not up believes in a transmission only if a status of the
\* ended session told it so.
OnlyInherited == conn # "up" => (confirmed => inherited)

SupervisionInv == UnkeyIsPursued /\ TransmissionSupervised /\ OnlyInherited

\* sendPttOffNow establishes both halves, whatever timer called it.
LEMMA UnkeySupervised ==
  ASSUME NEW fired, fired # {"off"}, sendPttOffNow(fired), SupervisionInv
  PROVE  SupervisionInv'
BY Zenon DEF sendPttOffNow, SupervisionInv, UnkeyIsPursued, TransmissionSupervised,
             OnlyInherited, policy, view

LEMMA SupervisionNext ==
  TypeOK /\ SupervisionInv /\ [Next]_vars => SupervisionInv'
<1> SUFFICES ASSUME FlagsOK, StateOK, SupervisionInv, [Next]_vars
             PROVE  SupervisionInv'
  BY DEF TypeOK
<1> USE DEF SupervisionInv, UnkeyIsPursued, TransmissionSupervised, OnlyInherited,
            policy, view, worker, link, bounds, gui
<1>u. ASSUME UNCHANGED <<conn, policy, timers, view>> PROVE SupervisionInv'
  BY <1>u, Zenon
<1>1. CASE PressPtt
  <2>1. offPending' = FALSE /\ UNCHANGED <<conn, confirmed, view>>
    BY <1>1, Zenon DEF PressPtt
  <2>2. conn = "up" /\ ("max" \in timers \/ offPending => "max" \in timers')
    BY <1>1, Zenon DEF PressPtt
  <2> QED
    BY <2>1, <2>2, Zenon
<1>2. CASE ReleasePtt
  <2>1. CASE sendPttOffNow({})
    BY <2>1, UnkeySupervised, Zenon
  <2>2. CASE timers' = ReleaseTail /\ UNCHANGED <<conn, policy, view>>
    BY <2>2, Zenon DEF ReleaseTail
  <2> QED
    BY <1>2, <2>1, <2>2, Zenon DEF ReleasePtt
<1>3. CASE TailExpires
  BY <1>3, UnkeySupervised, Zenon DEF TailExpires
<1>4. CASE OnExpires
  <2>1. CASE sendPttOffNow({"on"})
    BY <2>1, UnkeySupervised, Zenon
  <2>2. CASE timers' = timers \ {"on"} /\ UNCHANGED <<conn, policy, view>>
    BY <2>2, Zenon
  <2> QED
    BY <1>4, <2>1, <2>2, Zenon DEF OnExpires
<1>5. CASE OffExpires
  BY <1>5, Zenon DEF OffExpires, Restarted
<1>6. CASE MaxExpires
  <2>1. CASE sendPttOffNow({"max"})
    BY <2>1, UnkeySupervised, Zenon
  <2>2. CASE /\ conn = "down" \/ ~safetyActive
             /\ timers' = timers \ {"max"} /\ UNCHANGED <<conn, policy, view>>
    BY <2>2, Zenon DEF safetyActive
  <2> QED
    BY <1>6, <2>1, <2>2, Zenon DEF MaxExpires
<1>7. CASE Meters
  BY <1>7, <1>u, UnkeySupervised, Zenon DEF Meters, SwrReading
<1>8. CASE StatusDelivered
  <2>1. conn' = conn /\ confirmed' = Head(events)
    BY <1>8, Zenon DEF StatusDelivered
  <2>2. CASE ~Head(events)
    <3>1. Head(events) \in BOOLEAN
      BY <1>8, HeadTailProperties, Zenon DEF StatusDelivered, StateOK
    <3>2. confirmed' = FALSE /\ offPending' = FALSE
      BY <1>8, <2>1, <2>2, <3>1, Zenon DEF StatusDelivered
    <3> QED
      BY <3>2, Zenon
  <2>3. CASE Head(events)
    <3>1. inherited' = (inherited \/ conn = "down")
      BY <1>8, <2>3, Zenon DEF StatusDelivered
    <3>2. conn # "closing" /\ conn \in {"up", "down", "closing"}
      BY <1>8, Zenon DEF StatusDelivered, StateOK
    <3>3. CASE offPending
      <4>1. UNCHANGED <<offPending, timers>>
        BY <1>8, <2>3, <3>3, Zenon DEF StatusDelivered
      <4> QED
        BY <2>1, <3>1, <3>2, <3>3, <4>1, Zenon
    <3>4. CASE ~offPending
      <4>1. offPending' = FALSE /\ "max" \in timers'
        BY <1>8, <2>3, <3>4, Zenon DEF StatusDelivered, StatusTimers
      <4> QED
        BY <2>1, <3>1, <3>2, <4>1, Zenon
    <3> QED
      BY <3>3, <3>4
  <2> QED
    BY <2>2, <2>3
<1>9. CASE Connect
  BY <1>9, Zenon DEF Connect
<1>10. CASE Disconnect \/ WakeDelayEnds
  BY <1>10, Zenon DEF Disconnect, WakeDelayEnds, shutdownConnection
<1>11. CASE CloseRuns
  BY <1>11, Zenon DEF CloseRuns
<1>12. CASE \/ CommanderRuns \/ ReadbackRuns \/ DeferredReadRuns \/ ReplyArrives
            \/ ReadExpires \/ DrainEnds \/ RadioReceives \/ RadioSettles \/ Lose
  BY <1>12, <1>u, Zenon DEF CommanderRuns, ReadbackRuns, DeferredReadRuns,
     ReplyArrives, ReadExpires, DrainEnds, RadioReceives, RadioSettles, Lose
<1>13. CASE UNCHANGED vars
  BY <1>13, <1>u, Zenon DEF vars
<1> QED
  BY <1>1, <1>2, <1>3, <1>4, <1>5, <1>6, <1>7, <1>8, <1>9, <1>10, <1>11, <1>12,
     <1>13, Zenon DEF Next, Operator, Clocks, Pipeline

\* An unkey request keeps its confirmation timer until the radio confirms it.
THEOREM UnkeyPursued == Spec => []UnkeyIsPursued
<1>1. Init => SupervisionInv
  BY Zenon DEF Init, SupervisionInv, UnkeyIsPursued, TransmissionSupervised, OnlyInherited
<1>2. SupervisionInv => UnkeyIsPursued
  BY DEF SupervisionInv
<1> QED
  BY TypeInit, FlagsNext, StateNext, SupervisionNext, <1>1, <1>2, PTL DEF Spec, TypeOK

\* A confirmed transmission is limited by the 180 s timer or being unkeyed.
THEOREM Supervised == Spec => []TransmissionSupervised
<1>1. Init => SupervisionInv
  BY Zenon DEF Init, SupervisionInv, UnkeyIsPursued, TransmissionSupervised, OnlyInherited
<1>2. SupervisionInv => TransmissionSupervised
  BY DEF SupervisionInv
<1> QED
  BY TypeInit, FlagsNext, StateNext, SupervisionNext, <1>1, <1>2, PTL DEF Spec, TypeOK

-----------------------------------------------------------------------------
(* A session ends with an unkey.                                           *)

\* The last thing a session closed with the safety commands put on the wire is
\* an unkey, unless the radio has executed it already; and nothing can follow it.
UnkeyLast ==
    /\ conn = "down" => posted = <<>> /\ ~queuedRead /\ ~deferred
    /\ conn = "closing" => posted = <<"close">>
    /\ conn = "down" /\ safety /\ faults = 0 =>
           IF wire = <<>> THEN ~keyed ELSE wire[Len(wire)] = "off"

\* Sequence facts: the last element after Append and after Tail.
LEMMA LastOf ==
  ASSUME NEW T, NEW q \in Seq(T)
  PROVE  /\ \A x \in T : Append(q, x) # <<>> /\ Append(q, x)[Len(Append(q, x))] = x
         /\ q # <<>> /\ Tail(q) # <<>> => Tail(q)[Len(Tail(q))] = q[Len(q)]
         /\ q # <<>> /\ Tail(q) = <<>> => Head(q) = q[Len(q)]
<1>1. ASSUME NEW x \in T
      PROVE  Append(q, x) # <<>> /\ Append(q, x)[Len(Append(q, x))] = x
  BY <1>1
<1>2. ASSUME q # <<>>, Tail(q) # <<>>
      PROVE  Tail(q)[Len(Tail(q))] = q[Len(q)]
  <2>1. Len(Tail(q)) = Len(q) - 1 /\ Len(Tail(q)) \in Nat \ {0}
    BY <1>2
  <2> QED
    BY <1>2, <2>1
<1>3. ASSUME q # <<>>, Tail(q) = <<>>
      PROVE  Head(q) = q[Len(q)]
  <2>1. Len(Tail(q)) = Len(q) - 1
    BY <1>3, HeadTailProperties
  <2>2. Len(Tail(q)) = 0
    BY <1>3, EmptySeq, Zenon
  <2>3. Len(q) = 1
    BY <2>1, <2>2, LenProperties
  <2> QED
    BY <1>3, <2>3
<1> QED
  BY <1>1, <1>2, <1>3

LEMMA UnkeyLastNext == TypeOK /\ UnkeyLast /\ [Next]_vars => UnkeyLast'
<1> SUFFICES ASSUME FlagsOK, StateOK, UnkeyLast, [Next]_vars PROVE UnkeyLast'
  BY DEF TypeOK
<1> USE DEF UnkeyLast, policy, view, worker, link, bounds, gui
<1>u. ASSUME conn = "up", conn' = "up" PROVE UnkeyLast'
  BY <1>u, Zenon
<1>v. ASSUME UNCHANGED <<conn, safety, posted, queuedRead, deferred, wire, keyed, faults>>
      PROVE  UnkeyLast'
  BY <1>v, Zenon
<1>1. CASE PressPtt \/ ReleasePtt \/ TailExpires \/ OnExpires \/ OffExpires
  BY <1>1, <1>u, Zenon DEF PressPtt, ReleasePtt, TailExpires, OnExpires,
     OffExpires, sendPttOffNow
<1>2. CASE MaxExpires
  BY <1>2, <1>u, <1>v, Zenon DEF MaxExpires, sendPttOffNow
<1>3. CASE Meters
  BY <1>3, <1>u, Zenon DEF Meters, SwrReading, sendPttOffNow
<1>4. CASE StatusDelivered
  BY <1>4, <1>v, Zenon DEF StatusDelivered
<1>5. CASE Connect \/ Disconnect \/ WakeDelayEnds
  BY <1>5, Zenon DEF Connect, Disconnect, WakeDelayEnds, shutdownConnection
<1>6. CASE CloseRuns
  <2>1. safety => wire' # <<>> /\ wire'[Len(wire')] = "off"
    BY <1>6, LastOf, "off" \in Frames, ZenonT(40) DEF CloseRuns, SafetyCommands, StateOK, Frames
  <2> QED
    BY <1>6, <2>1, Zenon DEF CloseRuns
<1>7. CASE CommanderRuns
  <2>1. conn = "up" /\ conn' = "up"
    BY <1>7 DEF CommanderRuns, StateOK
  <2> QED
    BY <2>1, <1>u
<1>8. CASE ReadbackRuns
  BY <1>8, Zenon DEF ReadbackRuns
<1>9. CASE DeferredReadRuns
  BY <1>9, Zenon DEF DeferredReadRuns
<1>10. CASE ReplyArrives \/ DrainEnds \/ RadioSettles
  BY <1>10, <1>v, Zenon DEF ReplyArrives, DrainEnds, RadioSettles
<1>14. CASE ReadExpires
  <2>1. faults' = 0 => faults = 0
    BY <1>14 DEF ReadExpires, StateOK
  <2> QED
    BY <1>14, <2>1, Zenon DEF ReadExpires
<1>11. CASE RadioReceives
  BY <1>11, LastOf, Zenon DEF RadioReceives, StateOK
<1>12. CASE Lose
  BY <1>12 DEF Lose, StateOK
<1>13. CASE UNCHANGED vars
  BY <1>13, <1>v, Zenon DEF vars
<1> QED
  BY <1>1, <1>2, <1>3, <1>4, <1>5, <1>6, <1>7, <1>8, <1>9, <1>10, <1>11, <1>12,
     <1>13, <1>14, Zenon DEF Next, Operator, Clocks, Pipeline

\* SessionEndUnkeys: a session closed with the safety commands does not leave
\* the radio keyed once its frames are through (RadioBackend.cpp 1176-1315),
\* whatever sessions, some of them closed without the commands, came before it.
THEOREM SessionEnds == Spec => []SessionEndUnkeys
<1>1. Init => UnkeyLast
  BY Zenon DEF Init, UnkeyLast
<1>2. UnkeyLast => SessionEndUnkeys
  BY Zenon DEF UnkeyLast, SessionEndUnkeys
<1> QED
  BY TypeInit, FlagsNext, StateNext, UnkeyLastNext, <1>1, <1>2, PTL DEF Spec, TypeOK

-----------------------------------------------------------------------------
(* The release path of an operator who is not in a hurry.                  *)

\* What a press sets going is one status reading, and where it is: posted with
\* the key-up, ...
KeyPosted == /\ posted = <<"on">> /\ wire = <<>> /\ replies = <<>> /\ events = <<>>
             /\ ~queuedRead
\* ... waiting in the queue while the key-up is sent, ...
ReadQueued == /\ posted = <<>> /\ replies = <<>> /\ events = <<>> /\ queuedRead
              /\ wire \in {<<>>, <<"on">>}
\* ... on the wire, ...
ReadSent == /\ posted = <<>> /\ replies = <<>> /\ events = <<>> /\ ~queuedRead
            /\ wire \in {<<"read">>, <<"on", "read">>}
\* ... answered, or signalled to the GUI thread.
ReadAnswered == /\ posted = <<>> /\ wire = <<>> /\ ~queuedRead
                /\ Len(replies) + Len(events) = 1
\* And then there is none.
ReadDone == /\ posted = <<>> /\ wire = <<>> /\ replies = <<>> /\ events = <<>>
            /\ ~queuedRead

Reading == KeyPosted \/ ReadQueued \/ ReadSent \/ ReadAnswered

\* The worker takes the reading at once, for it has no other to wait for.
Unblocked ==
    /\ ~deferred
    /\ KeyPosted \/ ReadQueued => ~live /\ ~draining

\* While transmit is wanted, the on-confirmation timer runs until the reading
\* is delivered, and after a release so does the tail, unless the reading was
\* of a radio that did not transmit yet.
PressInv == desired =>
    /\ conn = "up" /\ ~offPending /\ Unblocked
    /\ (Reading /\ "on" \in timers) \/ ReadDone
    /\ released => "tail" \in timers \/ ("on" \in timers /\ ReadDone /\ ~confirmed)

\* A queue of one element and a second one behind it.
LEMMA AppendSecond ==
  ASSUME NEW T, NEW x \in T, NEW y \in T
  PROVE  Append(<<x>>, y) = <<x, y>>
<1>1. <<x>> \in Seq(T) /\ Len(<<x>>) = 1 /\ <<x>>[1] = x
  OBVIOUS
<1>2. /\ <<x, y>> \in Seq(T) /\ Len(<<x, y>>) = 2
      /\ <<x, y>>[1] = x /\ <<x, y>>[2] = y
  OBVIOUS
<1>3. /\ Append(<<x>>, y) \in Seq(T) /\ Len(Append(<<x>>, y)) = 2
      /\ Append(<<x>>, y)[1] = x /\ Append(<<x>>, y)[2] = y
  BY <1>1, AppendProperties
<1>4. \A i \in 1 .. 2 : Append(<<x>>, y)[i] = <<x, y>>[i]
  BY <1>2, <1>3
<1> QED
  BY <1>2, <1>3, <1>4, SeqEqual

\* Short queues, after their head is taken or an element appended.
LEMMA ShortQueues ==
  /\ Append(<<>>, "on") = <<"on">> /\ Append(<<>>, "read") = <<"read">>
  /\ Append(<<"on">>, "read") = <<"on", "read">>
  /\ Head(<<"on">>) = "on" /\ Head(<<"read">>) = "read" /\ Head(<<"on", "read">>) = "on"
  /\ Tail(<<"on">>) = <<>> /\ Tail(<<"read">>) = <<>>
  /\ Tail(<<"on", "read">>) = <<"read">>
  /\ <<"on">> # <<>> /\ <<"read">> # <<>> /\ <<"on", "read">> # <<>>
<1>1. Append(<<>>, "on") = <<"on">> /\ Append(<<>>, "read") = <<"read">>
  OBVIOUS
<1>6. Append(<<"on">>, "read") = <<"on", "read">>
  <2>1. "on" \in Frames /\ "read" \in Frames
    BY DEF Frames
  <2> QED
    BY <2>1, AppendSecond, Zenon
<1>2. Head(<<"on">>) = "on" /\ Head(<<"read">>) = "read" /\ Head(<<"on", "read">>) = "on"
  OBVIOUS
<1>3. Tail(<<"on">>) = <<>> /\ Tail(<<"read">>) = <<>>
  OBVIOUS
<1>4. Tail(<<"on", "read">>) = <<"read">>
  OBVIOUS
<1>5. <<"on">> # <<>> /\ <<"read">> # <<>> /\ <<"on", "read">> # <<>>
  OBVIOUS
<1> QED
  BY <1>1, <1>2, <1>3, <1>4, <1>5, <1>6, Zenon

\* A queue of one element is empty without it.
LEMMA LastTaken ==
  ASSUME NEW T, NEW q \in Seq(T)
  PROVE  /\ Len(q) \in Nat
         /\ Len(q) = 0 <=> q = <<>>
         /\ Len(q) = 1 => Tail(q) = <<>>
<1>1. Len(q) \in Nat /\ (Len(q) = 0 <=> q = <<>>)
  BY EmptySeq, LenProperties
<1>2. ASSUME Len(q) = 1 PROVE Tail(q) = <<>>
  <2>1. q # <<>>
    BY <1>1, <1>2
  <2>2. Tail(q) \in Seq(T) /\ Len(Tail(q)) = Len(q) - 1
    BY <2>1, HeadTailProperties
  <2>3. Len(Tail(q)) = 0
    BY <1>2, <2>2
  <2> QED
    BY <2>2, <2>3, EmptySeq
<1> QED
  BY <1>1, <1>2

\* One reply and no event, or one event and no reply.
LEMMA OneAnswer ==
  ASSUME StateOK, Len(replies) + Len(events) = 1
  PROVE  /\ replies # <<>> => events = <<>> /\ Tail(replies) = <<>>
         /\ events # <<>> => replies = <<>> /\ Tail(events) = <<>>
         /\ ~(replies = <<>> /\ events = <<>>)
<1>1. replies \in Seq(BOOLEAN) /\ events \in Seq(BOOLEAN)
  BY DEF StateOK
<1>2. /\ Len(replies) \in Nat /\ (Len(replies) = 0 <=> replies = <<>>)
      /\ Len(replies) = 1 => Tail(replies) = <<>>
  BY <1>1, LastTaken, Zenon
<1>3. /\ Len(events) \in Nat /\ (Len(events) = 0 <=> events = <<>>)
      /\ Len(events) = 1 => Tail(events) = <<>>
  BY <1>1, LastTaken, Zenon
<1>4. ASSUME NEW m \in Nat, NEW n \in Nat, m + n = 1
      PROVE  (m = 1 /\ n = 0) \/ (m = 0 /\ n = 1)
  BY <1>4
<1>5. \/ Len(replies) = 1 /\ Len(events) = 0
      \/ Len(replies) = 0 /\ Len(events) = 1
  BY <1>2, <1>3, <1>4, Zenon
<1>6. 0 # 1
  OBVIOUS
<1> QED
  BY <1>2, <1>3, <1>5, <1>6, Zenon

\* The worker, the link and the radio only pass the reading on, or lose it.
LEMMA ReadingPassed ==
  ASSUME FlagsOK, StateOK, conn = "up", Unblocked, Reading \/ ReadDone,
         \/ CommanderRuns \/ ReadbackRuns \/ DeferredReadRuns \/ ReplyArrives
         \/ ReadExpires \/ DrainEnds \/ RadioReceives \/ RadioSettles \/ Lose
  PROVE  /\ UNCHANGED <<conn, gui>> /\ Unblocked'
         /\ Reading => Reading' \/ ReadDone'
         /\ ReadDone => ReadDone'
<1> USE ShortQueues DEF Unblocked, Reading, view, worker, link, bounds
<1>1. UNCHANGED <<conn, gui>>
  BY Zenon DEF CommanderRuns, ReadbackRuns, DeferredReadRuns, ReplyArrives, ReadExpires,
     DrainEnds, RadioReceives, RadioSettles, Lose
<1>2. CASE CommanderRuns
  <2>1. KeyPosted
    BY <1>2, Zenon DEF CommanderRuns, ReadQueued, ReadSent, ReadAnswered, ReadDone, KeyPosted
  <2>2. Head(posted) = "on" /\ Tail(posted) = <<>> /\ wire = <<>>
    BY <2>1, Zenon DEF KeyPosted
  <2>3. /\ posted' = <<>> /\ wire' = <<"on">> /\ queuedRead' = TRUE
        /\ UNCHANGED <<live, draining, deferred, replies, events>>
    <3>1. posted' = <<>> /\ UNCHANGED <<draining, replies, events>>
      BY <1>2, <2>2, Zenon DEF CommanderRuns
    <3>2. "on" # "off" /\ "on" # "read"
      OBVIOUS
    <3> QED
      BY <1>2, <2>2, <3>1, <3>2, Zenon DEF CommanderRuns
  <2>4. ReadQueued'
    BY <2>1, <2>3, Zenon DEF KeyPosted, ReadQueued
  <2>5. ~ReadDone
    BY <2>2, <2>1, Zenon DEF KeyPosted, ReadDone
  <2> QED
    BY <1>1, <2>1, <2>3, <2>4, <2>5, Zenon
<1>3. CASE ReadbackRuns
  <2>1. ReadQueued
    BY <1>3, Zenon DEF ReadbackRuns, ReadQueued, KeyPosted, ReadSent, ReadAnswered, ReadDone
  <2>2. wire' = Append(wire, "read") /\ UNCHANGED <<posted, deferred, replies, events>> /\ ~queuedRead'
    BY <1>3, <2>1, Zenon DEF ReadbackRuns, RequestStatus, Blocked
  <2>3. ReadSent'
    BY <2>1, <2>2, Zenon DEF ReadQueued, ReadSent
  <2>4. ~KeyPosted' /\ ~ReadQueued' /\ ~ReadDone
    BY <2>1, <2>3, Zenon DEF ReadQueued, ReadSent, KeyPosted, ReadDone
  <2> QED
    BY <1>1, <2>2, <2>3, <2>4, Zenon
<1>4. CASE DeferredReadRuns
  BY <1>4, Zenon DEF DeferredReadRuns
<1>5. CASE ReplyArrives
  <2>1. ReadAnswered /\ ~ReadDone
    BY <1>5, Zenon DEF ReplyArrives, ReadQueued, KeyPosted, ReadSent, ReadDone
  <2>2. events = <<>> /\ replies' = <<>> /\ UNCHANGED <<posted, wire, queuedRead, deferred>>
    BY <1>5, <2>1, OneAnswer, Zenon DEF ReplyArrives, ReadAnswered
  <2>3. events' = <<>> \/ events' = <<Head(replies)>>
    <3>1. Append(<<>>, Head(replies)) = <<Head(replies)>>
      OBVIOUS
    <3> QED
      BY <1>5, <2>2, <3>1, Zenon DEF ReplyArrives
  <2>4. Len(<<>>) + Len(<<Head(replies)>>) = 1
    OBVIOUS
  <2>5. ReadDone' \/ ReadAnswered'
    BY <2>1, <2>2, <2>3, <2>4, Zenon DEF ReadDone, ReadAnswered
  <2>6. ~KeyPosted' /\ ~ReadQueued'
    BY <2>1, <2>2, Zenon DEF ReadAnswered, KeyPosted, ReadQueued
  <2> QED
    BY <1>1, <2>1, <2>2, <2>5, <2>6, Zenon
<1>6. CASE ReadExpires \/ DrainEnds \/ RadioSettles
  <2>1. UNCHANGED <<posted, wire, replies, events, queuedRead, deferred>>
    BY <1>6, Zenon DEF ReadExpires, DrainEnds, RadioSettles
  <2>2. live \/ draining \/ (~live' /\ ~draining')
    BY <1>6, Zenon DEF ReadExpires, DrainEnds, RadioSettles
  <2> QED
    BY <1>1, <2>1, <2>2, Zenon DEF KeyPosted, ReadQueued, ReadSent, ReadAnswered, ReadDone
<1>7. CASE RadioReceives
  <2>1. UNCHANGED <<posted, events, queuedRead, deferred, live, draining>> /\ wire' = Tail(wire)
    BY <1>7, Zenon DEF RadioReceives
  <2>2. CASE ReadQueued
    <3>1. wire = <<"on">>
      BY <1>7, <2>2, Zenon DEF RadioReceives, ReadQueued
    <3>2. UNCHANGED replies
      <4>1. "on" # "read"
        OBVIOUS
      <4> QED
        BY <1>7, <3>1, <4>1, Zenon DEF RadioReceives
    <3>3. ReadQueued' /\ ~ReadDone
      BY <2>1, <2>2, <3>1, <3>2, Zenon DEF ReadQueued, ReadDone
    <3> QED
      BY <1>1, <2>1, <2>2, <3>3, Zenon
  <2>3. CASE ReadSent
    <3>1. CASE wire = <<"on", "read">>
      <4>1. UNCHANGED replies
        <5>1. "on" # "read"
          OBVIOUS
        <5> QED
          BY <1>7, <3>1, <5>1, Zenon DEF RadioReceives
      <4>2. ReadSent' /\ ~ReadDone
        BY <2>1, <2>3, <3>1, <4>1, Zenon DEF ReadSent, ReadDone
      <4>3. ~KeyPosted' /\ ~ReadQueued'
        BY <4>2, Zenon DEF ReadSent, KeyPosted, ReadQueued
      <4> QED
        BY <1>1, <2>1, <4>2, <4>3, Zenon
    <3>2. CASE wire = <<"read">>
      <4>1. replies' = <<tx>>
        <5>1. Append(<<>>, tx) = <<tx>>
          OBVIOUS
        <5> QED
          BY <1>7, <2>3, <3>2, <5>1, Zenon DEF RadioReceives, ReadSent
      <4>2. Len(<<tx>>) + Len(<<>>) = 1
        OBVIOUS
      <4>3. ReadAnswered' /\ ~ReadDone
        BY <2>1, <2>3, <3>2, <4>1, <4>2, Zenon DEF ReadSent, ReadAnswered, ReadDone
      <4>4. ~KeyPosted' /\ ~ReadQueued'
        BY <2>1, <2>3, Zenon DEF ReadSent, KeyPosted, ReadQueued
      <4> QED
        BY <1>1, <2>1, <4>3, <4>4, Zenon
    <3> QED
      BY <2>3, <3>1, <3>2, Zenon DEF ReadSent
  <2> QED
    BY <1>7, <2>2, <2>3, Zenon DEF RadioReceives, KeyPosted, ReadAnswered, ReadDone
<1>8. CASE Lose
  <2>1. UNCHANGED <<posted, events, queuedRead, deferred, live, draining>>
    BY <1>8, Zenon DEF Lose
  <2>2. CASE wire # <<>> /\ wire' = Tail(wire) /\ UNCHANGED replies
    <3>1. CASE ReadQueued
      <4>1. ReadQueued' /\ ~ReadDone
        BY <2>1, <2>2, <3>1, Zenon DEF ReadQueued, ReadDone
      <4> QED
        BY <1>1, <2>1, <3>1, <4>1, Zenon
    <3>2. CASE ReadSent
      <4>1. ReadSent' \/ ReadDone'
        BY <2>1, <2>2, <3>2, Zenon DEF ReadSent, ReadDone
      <4>2. ~KeyPosted' /\ ~ReadQueued' /\ ~ReadDone
        BY <2>1, <2>2, <3>2, Zenon DEF ReadSent, KeyPosted, ReadQueued, ReadDone
      <4> QED
        BY <1>1, <2>1, <4>1, <4>2, Zenon
    <3> QED
      BY <2>2, <3>1, <3>2, Zenon DEF KeyPosted, ReadAnswered, ReadDone
  <2>3. CASE replies # <<>> /\ replies' = Tail(replies) /\ UNCHANGED wire
    <3>1. ReadAnswered /\ ~ReadDone
      BY <2>3, Zenon DEF ReadQueued, KeyPosted, ReadSent, ReadDone
    <3>2. ReadDone'
      BY <2>1, <2>3, <3>1, OneAnswer, Zenon DEF ReadAnswered, ReadDone
    <3>3. ~KeyPosted' /\ ~ReadQueued'
      BY <3>2, Zenon DEF ReadDone, KeyPosted, ReadQueued
    <3> QED
      BY <1>1, <2>1, <3>1, <3>2, <3>3, Zenon
  <2> QED
    BY <1>8, <2>2, <2>3, Zenon DEF Lose
<1> QED
  BY <1>2, <1>3, <1>4, <1>5, <1>6, <1>7, <1>8

\* sendPttOffNow ends the wish to transmit.
LEMMA UnkeyUnwanted == ASSUME NEW fired, sendPttOffNow(fired) PROVE PressInv'
BY Zenon DEF sendPttOffNow, PressInv

LEMMA PressNext == Unhurried /\ TypeOK /\ PressInv /\ [Next]_vars => PressInv'
<1> SUFFICES ASSUME Unhurried, FlagsOK, StateOK, PressInv, [Next]_vars PROVE PressInv'
  BY DEF TypeOK
<1> USE DEF policy, view, gui, bounds
<1>q. ~ReadOutstanding <=>
        /\ posted = <<>> /\ wire = <<>> /\ replies = <<>> /\ events = <<>>
        /\ ~queuedRead /\ ~live /\ ~draining /\ ~deferred /\ tx = keyed
  BY Zenon DEF ReadOutstanding
<1>d. ~ReadOutstanding => ReadDone
  BY <1>q, Zenon DEF ReadDone
<1>w. ASSUME UNCHANGED <<posted, worker, wire, replies, events>>
      PROVE  /\ Unblocked' <=> Unblocked
             /\ Reading' <=> Reading
             /\ ReadDone' <=> ReadDone
  BY <1>w, Zenon DEF worker, Unblocked, Reading, KeyPosted, ReadQueued, ReadSent, ReadAnswered, ReadDone
<1>u. ASSUME UNCHANGED <<conn, policy, released, posted, worker, link>>,
             "on" \in timers => "on" \in timers', "tail" \in timers => "tail" \in timers'
      PROVE  PressInv'
  <2>1. /\ Unblocked' <=> Unblocked
        /\ Reading' <=> Reading
        /\ ReadDone' <=> ReadDone
    BY <1>u, <1>w, Zenon DEF link
  <2> QED
    BY <1>u, <2>1, Zenon DEF PressInv
<1>1. CASE PressPtt
  <2>1. ReadDone /\ conn' = "up" /\ ~released' /\ ~offPending'
    BY <1>1, <1>d, Zenon DEF PressPtt
  <2>2. CASE /\ posted' = Append(posted, "on")
             /\ timers' = (timers \ {"tail", "off"}) \cup {"on", "max"}
    <3>1. KeyPosted' /\ ~deferred' /\ ~live' /\ ~draining'
      BY <1>1, <1>q, <2>2, ShortQueues, Zenon DEF PressPtt, KeyPosted, worker, link
    <3>2. Unblocked' /\ Reading' /\ "on" \in timers'
      BY <2>2, <3>1, Zenon DEF Unblocked, Reading
    <3> QED
      BY <2>1, <3>2, Zenon DEF PressInv
  <2>3. CASE desired /\ UNCHANGED posted
    <3>1. /\ Unblocked' <=> Unblocked
          /\ ReadDone' <=> ReadDone
      BY <1>1, <2>3, <1>w, Zenon DEF PressPtt, link
    <3> QED
      BY <2>1, <2>3, <3>1, Zenon DEF PressInv
  <2> QED
    BY <1>1, <2>2, <2>3, Zenon DEF PressPtt
<1>2. CASE ReleasePtt
  <2>1. CASE sendPttOffNow({})
    BY <2>1, UnkeyUnwanted
  <2>2. CASE timers' = ReleaseTail /\ UNCHANGED <<conn, safety, policy, view, posted, worker, link, bounds>>
    <3>1. "tail" \in timers' /\ ("on" \in timers => "on" \in timers')
      BY <2>2, Zenon DEF ReleaseTail
    <3>2. /\ Unblocked' <=> Unblocked
          /\ Reading' <=> Reading
          /\ ReadDone' <=> ReadDone
      BY <2>2, <1>w, Zenon DEF link
    <3> QED
      BY <2>2, <3>1, <3>2, Zenon DEF PressInv
  <2> QED
    BY <1>2, <2>1, <2>2, Zenon DEF ReleasePtt
<1>3. CASE TailExpires
  BY <1>3, UnkeyUnwanted DEF TailExpires
<1>4. CASE OnExpires
  <2>1. CASE sendPttOffNow({"on"})
    BY <2>1, UnkeyUnwanted
  <2>2. CASE /\ ~desired \/ confirmed
             /\ timers' = timers \ {"on"}
             /\ UNCHANGED <<conn, safety, policy, view, posted, worker, link, bounds>>
    <3>1. CASE ~desired
      BY <2>2, <3>1, Zenon DEF PressInv
    <3>2. CASE desired /\ confirmed
      <4>1. ReadDone
        BY <1>4, <1>d, Zenon DEF OnExpires
      <4>2. /\ Unblocked' <=> Unblocked
            /\ ReadDone' <=> ReadDone
        BY <2>2, <1>w, Zenon DEF link
      <4>3. released => "tail" \in timers
        BY <3>2, Zenon DEF PressInv
      <4>4. "tail" \in timers => "tail" \in timers'
        BY <2>2, <3>2, "tail" # "on", Zenon
      <4> QED
        BY <1>4, <2>2, <3>2, <4>1, <4>2, <4>3, <4>4, Zenon DEF PressInv, OnExpires
    <3> QED
      BY <2>2, <3>1, <3>2, Zenon DEF FlagsOK
  <2> QED
    BY <1>4, <2>1, <2>2, Zenon DEF OnExpires
<1>5. CASE OffExpires
  <2>1. CASE offPending
    BY <1>5, <2>1, Zenon DEF OffExpires, PressInv
  <2>2. CASE ~offPending
    <3>1. timers' = timers \ {"off"} /\ UNCHANGED <<conn, policy, released, posted, worker, link>>
      BY <1>5, <2>2, Zenon DEF OffExpires
    <3>2. ("on" \in timers => "on" \in timers') /\ ("tail" \in timers => "tail" \in timers')
      BY <3>1, "on" # "off", "tail" # "off", Zenon
    <3> QED
      BY <3>1, <3>2, <1>u
  <2> QED
    BY <2>1, <2>2
<1>6. CASE MaxExpires
  <2>1. CASE sendPttOffNow({"max"})
    BY <2>1, UnkeyUnwanted
  <2>2. CASE (conn = "down" \/ ~safetyActive) /\ UNCHANGED policy
    <3>1. ~desired
      BY <2>2, "up" # "down", Zenon DEF PressInv, safetyActive
    <3> QED
      BY <2>2, <3>1, Zenon DEF PressInv
  <2> QED
    BY <1>6, <2>1, <2>2, Zenon DEF MaxExpires
<1>7. CASE Meters
  <2>1. CASE sendPttOffNow({})
    BY <2>1, UnkeyUnwanted
  <2>2. CASE UNCHANGED <<conn, policy, released, timers, posted, worker, link>>
    BY <2>2, <1>u, Zenon
  <2> QED
    BY <1>7, <2>1, <2>2, Zenon DEF Meters, SwrReading
<1>8. CASE StatusDelivered
  <2>1. CASE ~desired
    BY <1>8, <2>1, Zenon DEF StatusDelivered, PressInv
  <2>2. CASE desired
    <3>1. conn = "up" /\ ~offPending /\ Unblocked /\ events # <<>>
      BY <1>8, <2>2, Zenon DEF PressInv, StatusDelivered
    <3>2. ~ReadDone /\ Reading /\ "on" \in timers /\ (released => "tail" \in timers)
      BY <2>2, <3>1, Zenon DEF PressInv, ReadDone
    <3>3. ReadAnswered
      BY <3>1, <3>2, Zenon DEF Reading, KeyPosted, ReadQueued, ReadSent
    <3>4. ReadDone' /\ Unblocked'
      <4>1. events' = <<>> /\ replies = <<>>
        BY <1>8, <3>1, <3>3, OneAnswer, Zenon DEF StatusDelivered, ReadAnswered
      <4>2. ReadDone'
        BY <1>8, <3>3, <4>1, Zenon DEF StatusDelivered, ReadAnswered, ReadDone, worker
      <4>3. ~deferred'
        BY <1>8, <3>1, Zenon DEF StatusDelivered, Unblocked, worker
      <4> QED
        BY <4>2, <4>3, ShortQueues, Zenon DEF Unblocked, ReadDone, KeyPosted, ReadQueued
    <3>5. /\ UNCHANGED <<conn, desired, released>> /\ offPending' = FALSE
          /\ confirmed' = Head(events) /\ timers' = StatusTimers(Head(events))
      BY <1>8, <3>1, Zenon DEF StatusDelivered
    <3>6. Head(events) \in BOOLEAN
      BY <3>1, HeadTailProperties, Zenon DEF StateOK
    <3>7. IF Head(events) THEN "tail" \in timers => "tail" \in timers'
                          ELSE "on" \in timers'
      <4>1. "on" # "tail" /\ "on" # "off" /\ "on" # "max"
        OBVIOUS
      <4> QED
        BY <2>2, <3>2, <3>5, <3>6, <4>1, Zenon DEF StatusTimers
    <3> QED
      BY <3>1, <3>2, <3>4, <3>5, <3>6, <3>7, Zenon DEF PressInv
  <2> QED
    BY <2>1, <2>2
<1>9. CASE Connect
  <2>1. ~desired
    BY <1>9, "up" # "down", Zenon DEF PressInv, Connect
  <2> QED
    BY <1>9, <2>1, Zenon DEF Connect, PressInv
<1>10. CASE Disconnect \/ WakeDelayEnds
  BY <1>10, Zenon DEF Disconnect, WakeDelayEnds, shutdownConnection, PressInv
<1>11. CASE CloseRuns
  <2>1. ~desired
    BY <1>11, "up" # "closing", Zenon DEF PressInv, CloseRuns
  <2> QED
    BY <1>11, <2>1, Zenon DEF CloseRuns, PressInv
<1>12. CASE \/ CommanderRuns \/ ReadbackRuns \/ DeferredReadRuns \/ ReplyArrives
            \/ ReadExpires \/ DrainEnds \/ RadioReceives \/ RadioSettles \/ Lose
  <2>1. UNCHANGED gui
    BY <1>12, Zenon DEF CommanderRuns, ReadbackRuns, DeferredReadRuns, ReplyArrives,
       ReadExpires, DrainEnds, RadioReceives, RadioSettles, Lose
  <2>2. CASE desired
    <3>1. conn = "up" /\ Unblocked /\ (Reading \/ ReadDone)
      BY <2>2, Zenon DEF PressInv
    <3>2. /\ UNCHANGED <<conn, gui>> /\ Unblocked'
          /\ Reading => Reading' \/ ReadDone'
          /\ ReadDone => ReadDone'
      BY <1>12, <3>1, ReadingPassed, Zenon
    <3> QED
      BY <2>2, <3>2, Zenon DEF PressInv
  <2> QED
    BY <2>1, <2>2, Zenon DEF PressInv
<1>13. CASE UNCHANGED vars
  BY <1>13, <1>u, Zenon DEF vars
<1> QED
  BY <1>1, <1>2, <1>3, <1>4, <1>5, <1>6, <1>7, <1>8, <1>9, <1>10, <1>11, <1>12,
     <1>13, Zenon DEF Next, Operator, Clocks, Pipeline

\* ReleasePathArmed: as long as no press and no long timeout overtakes a status
\* reading, a released transmission that is still wanted has a timer that ends
\* it (RadioBackend.cpp 553-583 and 2481-2620), whatever frames are lost.
THEOREM ReleaseArmed == ASSUME Unhurried PROVE Spec => []ReleasePathArmed
<1>1. Init => PressInv
  BY Zenon DEF Init, PressInv
<1>2. PressInv => ReleasePathArmed
  BY Zenon DEF PressInv, ReleasePathArmed
<1>3. TypeOK /\ PressInv /\ [Next]_vars => PressInv'
  BY PressNext
<1> QED
  BY TypeInit, FlagsNext, StateNext, <1>1, <1>2, <1>3, PTL DEF Spec, TypeOK

=============================================================================
