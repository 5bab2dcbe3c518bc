------------------------- MODULE ValuePipelineProofs -------------------------
(***************************************************************************)
(* What holds of CachingQueue and RadioRouter for every number of values,  *)
(* commands and sessions, and for every size of their queues; and that     *)
(* ValuePipeline implements ValueDelivery, step by step, so that what that *)
(* promises holds of them: the order in which values reach the models, and *)
(* that none reaches them twice.                                           *)
(***************************************************************************)
EXTENDS ValuePipeline, SequenceTheorems, TLAPS

USE PipelineAssumption DEF PipelineAssumption

-----------------------------------------------------------------------------
(* TypeOK.                                                                 *)

LEMMA TypeInit == Init => TypeOK
<1>1. Init => FlagsOK
  BY Zenon DEF Init, FlagsOK
<1>2. Init => QueuesOK
  BY EmptySeq DEF Init, QueuesOK
<1>3. Init => ControlOK
  BY Zenon DEF Init, ControlOK
<1> QED
  BY <1>1, <1>2, <1>3 DEF TypeOK

LEMMA FlagsNext == TypeOK /\ [Next]_vars => FlagsOK'
<1> SUFFICES ASSUME FlagsOK, [Next]_vars PROVE FlagsOK'
  BY DEF TypeOK
<1> USE DEF FlagsOK, queueVars, workerVars, routerVars, sinkVars, guiVars, counters
<1>1. ASSUME NEW k \in Session, Radio(k) PROVE FlagsOK'
  BY <1>1, Zenon
     DEF Radio, ReceiveValue, AddCommand, CommanderCloses, CommanderDeleted
<1>2. ASSUME NEW woke, Turn(woke) PROVE wake' \in BOOLEAN
  BY <1>2, Zenon DEF Turn
<1>3. CASE Worker
  BY <1>2, <1>3, Zenon
     DEF Worker, WorkerRuns, IntervalExpires, Emit, Enter, EnqueueValue, EnqueueEnds,
         ScheduleDrain
<1>4. ASSUME NEW t, Notify(t) PROVE FlagsOK'
  BY <1>2, <1>4, Zenon DEF Notify
<1>5. ASSUME NEW s, Drain(s) PROVE FlagsOK'
  BY <1>5, Zenon DEF Drain
<1>6. CASE NotifyRoom \/ RouteValue
  BY <1>6, Zenon DEF NotifyRoom, RouteValue
<1>7. CASE Gui
  BY <1>7, Zenon
     DEF Gui, BeginSession, ConnectQueue, Deactivate, CancelSession, Disconnected,
         StopWorker, NewQueueSession
<1>8. CASE UNCHANGED vars
  BY <1>8, Zenon DEF vars
<1> QED
  BY <1>1, <1>3, <1>4, <1>5, <1>6, <1>7, <1>8, Zenon DEF Next

\* A part of a sequence, which may be empty.
LEMMA PartOfSeq ==
  ASSUME NEW S, NEW q \in Seq(S), NEW m \in 1..(Len(q) + 1), NEW n \in (m - 1)..Len(q)
  PROVE  SubSeq(q, m, n) \in Seq(S) /\ Len(SubSeq(q, m, n)) = n - m + 1
<1>1. Len(q) \in Nat
  BY LenProperties
<1>2. m \in Int /\ n \in Int /\ \A k \in m..n : q[k] \in S
  <2>1. \A k \in m..n : k \in 1..Len(q)
    BY <1>1
  <2> QED
    BY <1>1, <2>1, ElementOfSeq
<1>3. /\ SubSeq(q, m, n) \in Seq(S)
      /\ Len(SubSeq(q, m, n)) = IF m <= n THEN n - m + 1 ELSE 0
  BY <1>2, SubSeqProperties
<1>4. m <= n \/ n - m + 1 = 0
  BY <1>1
<1> QED
  BY <1>3, <1>4

\* A sequence without its i-th element.
LEMMA RemoveAtType ==
  ASSUME NEW S, NEW q \in Seq(S), NEW i \in 1..Len(q)
  PROVE  RemoveAt(q, i) \in Seq(S) /\ Len(RemoveAt(q, i)) = Len(q) - 1
<1>1. Len(q) \in Nat
  BY LenProperties
<1>2. SubSeq(q, 1, i - 1) \in Seq(S) /\ Len(SubSeq(q, 1, i - 1)) = i - 1
  <2>1. 1 \in 1..(Len(q) + 1) /\ i - 1 \in (1 - 1)..Len(q) /\ (i - 1) - 1 + 1 = i - 1
    BY <1>1
  <2>2. SubSeq(q, 1, i - 1) \in Seq(S) /\ Len(SubSeq(q, 1, i - 1)) = (i - 1) - 1 + 1
    BY <2>1, PartOfSeq, SMTT(30)
  <2> QED
    BY <2>1, <2>2, Zenon
<1>3. SubSeq(q, i + 1, Len(q)) \in Seq(S) /\ Len(SubSeq(q, i + 1, Len(q))) = Len(q) - i
  <2>1. i + 1 \in 1..(Len(q) + 1) /\ Len(q) \in ((i + 1) - 1)..Len(q)
    BY <1>1
  <2>2. Len(q) - (i + 1) + 1 = Len(q) - i
    BY <1>1
  <2>3. /\ SubSeq(q, i + 1, Len(q)) \in Seq(S)
        /\ Len(SubSeq(q, i + 1, Len(q))) = Len(q) - (i + 1) + 1
    BY <2>1, PartOfSeq, SMTT(30)
  <2> QED
    BY <2>2, <2>3, Zenon
<1>4. /\ RemoveAt(q, i) \in Seq(S)
      /\ Len(RemoveAt(q, i)) = Len(SubSeq(q, 1, i - 1)) + Len(SubSeq(q, i + 1, Len(q)))
  BY <1>2, <1>3, ConcatProperties, Zenon DEF RemoveAt
<1>5. (i - 1) + (Len(q) - i) = Len(q) - 1
  BY <1>1
<1> QED
  BY <1>2, <1>3, <1>4, <1>5, Zenon

\* Taking a command out of the queue does not lengthen it.
LEMMA WithoutType ==
  ASSUME NEW q \in Seq(Commands), NEW c
  PROVE  Without(q, c) \in Seq(Commands) /\ Len(Without(q, c)) <= Len(q)
<1>0. DOMAIN q = 1..Len(q) /\ Len(q) \in Nat
  BY LenProperties
<1>1. CASE c \in Range(q)
  <2>1. PICK i \in 1..Len(q) : Without(q, c) = RemoveAt(q, i)
    BY <1>0, <1>1 DEF Without, Range
  <2>2. Len(q) - 1 <= Len(q)
    BY <1>0
  <2> QED
    BY <2>1, <2>2, RemoveAtType
<1>2. CASE c \notin Range(q)
  BY <1>0, <1>2 DEF Without
<1> QED
  BY <1>1, <1>2

\* Adding a command keeps the queue within its depth.
LEMMA LimitedType ==
  ASSUME NEW q \in Seq(Commands), Len(q) <= QueueDepth, NEW c \in Commands
  PROVE  LET r == Limited(Append(Without(q, c), c))
         IN  r \in Seq(Commands) /\ Len(r) <= QueueDepth
<1> DEFINE w == Without(q, c)
<1>1. w \in Seq(Commands) /\ Len(w) <= Len(q) /\ Len(w) \in Nat /\ Len(q) \in Nat
  BY WithoutType, LenProperties
<1> HIDE DEF w
<1>2. Append(w, c) \in Seq(Commands) /\ Len(Append(w, c)) = Len(w) + 1 /\ Append(w, c) # <<>>
  BY <1>1, AppendProperties
<1>3. Tail(Append(w, c)) \in Seq(Commands) /\ Len(Tail(Append(w, c))) = Len(w)
  BY <1>1, <1>2, HeadTailProperties
<1> QED
  BY <1>1, <1>2, <1>3 DEF Limited, w

\* What the operations on the queues of values do to their types.
LEMMA ValueQueues ==
  ASSUME QueuesOK
  PROVE  /\ <<>> \in Seq(Value) /\ Len(<<>>) = 0
         /\ \A q \in {items, wbatch, pending, batch, routed} : q \in Seq(Value)
         /\ \A v \in Value : /\ Append(items, v) \in Seq(Value)
                             /\ Append(pending, v) \in Seq(Value)
                             /\ Len(Append(pending, v)) = Len(pending) + 1
                             /\ Append(routed, v) \in Seq(Value)
         /\ wbatch # <<>> => Head(wbatch) \in Value /\ Tail(wbatch) \in Seq(Value)
         /\ batch # <<>> => Head(batch) \in Value /\ Tail(batch) \in Seq(Value)
         /\ commands # <<>> => /\ Tail(commands) \in Seq(Commands)
                               /\ Len(Tail(commands)) <= QueueDepth
         /\ <<>> \in Seq(Commands) /\ Len(<<>>) <= QueueDepth
         /\ Len(pending) \in Nat
<1> USE DEF QueuesOK
<1>1. <<>> \in Seq(Value) /\ Len(<<>>) = 0 /\ <<>> \in Seq(Commands) /\ Len(<<>>) <= QueueDepth
  BY EmptySeq
<1>2. \A q \in {items, wbatch, pending, batch, routed} : q \in Seq(Value)
  OBVIOUS
<1>3. \A v \in Value : /\ Append(items, v) \in Seq(Value)
                       /\ Append(pending, v) \in Seq(Value)
                       /\ Len(Append(pending, v)) = Len(pending) + 1
                       /\ Append(routed, v) \in Seq(Value)
  BY <1>2, AppendProperties
<1>4. wbatch # <<>> => Head(wbatch) \in Value /\ Tail(wbatch) \in Seq(Value)
  BY <1>2, HeadTailProperties
<1>5. batch # <<>> => Head(batch) \in Value /\ Tail(batch) \in Seq(Value)
  BY <1>2, HeadTailProperties
<1>6. commands # <<>> => Tail(commands) \in Seq(Commands) /\ Len(Tail(commands)) <= QueueDepth
  BY HeadTailProperties, LenProperties
<1>7. Len(pending) \in Nat
  BY <1>2, LenProperties
<1> QED
  BY <1>1, <1>2, <1>3, <1>4, <1>5, <1>6, <1>7, Zenon

\* Writing a value over one of its kind keeps the list as long as it was.
LEMMA ReplaceType ==
  ASSUME QueuesOK, NEW v \in Value, NEW i \in Replaceable(v)
  PROVE  LET p == [pending EXCEPT ![i] = v]
         IN  p \in Seq(Value) /\ Len(p) <= MaxPending
<1>1. pending \in Seq(Value) /\ Len(pending) <= MaxPending
  BY DEF QueuesOK
<1>2. i \in 1..Len(pending)
  BY <1>1, LenProperties DEF Replaceable
<1> QED
  BY <1>1, <1>2, ExceptSeq

\* One turn of the queue's thread.
LEMMA TurnType ==
  ASSUME QueuesOK, NEW woke, Turn(woke)
  PROVE  /\ items' \in Seq(Value) /\ wbatch' \in Seq(Value)
         /\ commands' \in Seq(Commands) /\ Len(commands') <= QueueDepth
         /\ wsession' = wsession
<1>1. CASE aborted
  BY <1>1, ValueQueues, Zenon DEF Turn, queueVars, QueuesOK
<1>2. CASE ~aborted
  <2>1. commands' = commands \/ (commands # <<>> /\ commands' = Tail(commands))
    BY <1>2, Zenon DEF Turn, DispatchDue
  <2>2. commands' \in Seq(Commands) /\ Len(commands') <= QueueDepth
    BY <2>1, ValueQueues, Zenon DEF QueuesOK
  <2> QED
    BY <1>2, <2>2, ValueQueues, Zenon DEF Turn
<1> QED
  BY <1>1, <1>2

\* The numbers of sessions, values and commands.
LEMMA CountsNext ==
  ASSUME QueuesOK, NEW k
  PROVE  /\ qsession + 1 \in Nat /\ 0..qsession \subseteq 0..(qsession + 1)
         /\ 1..qsession \subseteq 1..(qsession + 1)
         /\ 0 \in 0..qsession /\ qsession \in 0..qsession
         /\ sessions < MaxSessions => sessions + 1 \in 0..MaxSessions
         /\ parsed < MaxValues => parsed + 1 \in 0..MaxValues /\ parsed + 1 \in Nat
         /\ added < MaxCommands => added + 1 \in 0..MaxCommands
BY DEF QueuesOK

\* Values are pending, and drains posted, only for a session that has begun:
\* the number a connection captured is not 0.
SessionsBegun ==
    /\ worker = "enter" => wsession # 0
    /\ worker \in {"enqueue", "blocked"} \/ pending # <<>> => qsession > 0

LEMMA QueuesNext == TypeOK /\ SessionsBegun /\ [Next]_vars => QueuesOK'
<1> SUFFICES ASSUME QueuesOK, SessionsBegun, [Next]_vars PROVE QueuesOK'
  BY DEF TypeOK
<1> USE DEF queueVars, workerVars, routerVars, sinkVars, guiVars, counters
<1>1. ASSUME NEW k \in Session, Radio(k) PROVE QueuesOK'
  <2>1. ASSUME NEW key \in Keys \cup {Event}, ReceiveValue(k, key) PROVE QueuesOK'
    <3>1. [n |-> parsed + 1, s |-> k, key |-> key] \in Value
      BY <2>1, CountsNext DEF Value, ReceiveValue
    <3>2. items' \in Seq(Value) /\ parsed' \in 0..MaxValues
      BY <2>1, <3>1, CountsNext, ValueQueues, Zenon DEF ReceiveValue
    <3> QED
      BY <2>1, <3>2, Zenon DEF ReceiveValue, QueuesOK
  <2>2. ASSUME NEW c \in Commands, AddCommand(k, c) PROVE QueuesOK'
    <3>1. commands' \in Seq(Commands) /\ Len(commands') <= QueueDepth
      BY <2>2, LimitedType, Zenon DEF AddCommand, QueuesOK
    <3>2. added' \in 0..MaxCommands
      BY <2>2, CountsNext, Zenon DEF AddCommand
    <3> QED
      BY <2>2, <3>1, <3>2, Zenon DEF AddCommand, QueuesOK
  <2>3. CASE CommanderCloses(k)
    BY <2>3, ValueQueues, Zenon DEF CommanderCloses, QueuesOK
  <2>4. CASE CommanderDeleted(k)
    BY <2>4, Zenon DEF CommanderDeleted, QueuesOK
  <2> QED
    BY <1>1, <2>1, <2>2, <2>3, <2>4, Zenon DEF Radio
<1>2. CASE WorkerRuns
  <2>1. /\ items' \in Seq(Value) /\ wbatch' \in Seq(Value) /\ wsession' = wsession
        /\ commands' \in Seq(Commands) /\ Len(commands') <= QueueDepth
    BY <1>2, TurnType, Zenon DEF WorkerRuns, QueuesOK
  <2> QED
    BY <1>2, <2>1, Zenon DEF WorkerRuns, QueuesOK
<1>3. CASE IntervalExpires
  <2>1. /\ items' \in Seq(Value) /\ wbatch' \in Seq(Value) /\ wsession' = wsession
        /\ commands' \in Seq(Commands) /\ Len(commands') <= QueueDepth
    BY <1>3, TurnType, Zenon DEF IntervalExpires, QueuesOK
  <2> QED
    BY <1>3, <2>1, Zenon DEF IntervalExpires, QueuesOK
<1>4. ASSUME NEW t, Notify(t) PROVE QueuesOK'
  <2>1. /\ items' \in Seq(Value) /\ wbatch' \in Seq(Value) /\ wsession' = wsession
        /\ commands' \in Seq(Commands) /\ Len(commands') <= QueueDepth
    BY <1>4, TurnType, Zenon DEF Notify, QueuesOK
  <2> QED
    BY <1>4, <2>1, Zenon DEF Notify, QueuesOK
<1>5. CASE Emit
  <2>1. wbatch' \in Seq(Value) /\ wsession' \in 0..qsession
    BY <1>5, ValueQueues, Zenon DEF Emit, QueuesOK
  <2> QED
    BY <1>5, <2>1, Zenon DEF Emit, QueuesOK
<1>6. CASE Enter
  <2>1. wbatch' \in Seq(Value)
    BY <1>6, ValueQueues, Zenon DEF Enter
  <2> QED
    BY <1>6, <2>1, Zenon DEF Enter, QueuesOK
<1>7. ASSUME ScheduleDrain, qsession > 0 PROVE drains' \subseteq 1..qsession
  <2>1. qsession \in 1..qsession /\ drains \subseteq 1..qsession
    BY <1>7 DEF QueuesOK
  <2> QED
    BY <1>7, <2>1, Zenon DEF ScheduleDrain
<1>8. CASE EnqueueValue
  <2>1. pending' \in Seq(Value) /\ Len(pending') <= MaxPending /\ wbatch' \in Seq(Value)
    <3>1. CASE Replaceable(Head(wbatch)) # {}
      <4>1. Head(wbatch) \in Value
        BY <1>8, ValueQueues, Zenon DEF EnqueueValue
      <4> QED
        BY <1>8, <3>1, <4>1, ReplaceType, ValueQueues, Zenon DEF EnqueueValue
    <3>2. CASE Replaceable(Head(wbatch)) = {} /\ Room
      <4>1. /\ pending' = Append(pending, Head(wbatch)) /\ wbatch' = Tail(wbatch)
            /\ Head(wbatch) \in Value /\ Tail(wbatch) \in Seq(Value)
        BY <1>8, <3>2, ValueQueues, Zenon DEF EnqueueValue
      <4>2. pending' \in Seq(Value) /\ Len(pending') = Len(pending) + 1 /\ Len(pending) \in Nat
        BY <4>1, ValueQueues, Zenon
      <4> QED
        BY <3>2, <4>1, <4>2 DEF Room
    <3>3. CASE Replaceable(Head(wbatch)) = {} /\ ~Room
      BY <1>8, <3>3, Zenon DEF EnqueueValue, QueuesOK
    <3> QED
      BY <3>1, <3>2, <3>3
  <2>2. drains' \subseteq 1..qsession
    <3>1. qsession > 0
      BY <1>8, Zenon DEF EnqueueValue, SessionsBegun
    <3> QED
      BY <1>7, <1>8, <3>1, Zenon DEF EnqueueValue, QueuesOK
  <2> QED
    BY <1>8, <2>1, <2>2, Zenon DEF EnqueueValue, QueuesOK
<1>9. CASE EnqueueEnds
  <2>1. drains' \subseteq 1..qsession
    <3>1. qsession > 0
      BY <1>9, Zenon DEF EnqueueEnds, SessionsBegun
    <3> QED
      BY <1>7, <1>9, <3>1, Zenon DEF EnqueueEnds, QueuesOK
  <2> QED
    BY <1>9, <2>1, Zenon DEF EnqueueEnds, QueuesOK
<1>10. ASSUME NEW s, Drain(s) PROVE QueuesOK'
  <2>1. drains' \subseteq 1..qsession
    BY <1>10, Zenon DEF Drain, QueuesOK
  <2>2. batch' \in Seq(Value) /\ pending' \in Seq(Value) /\ Len(pending') <= MaxPending
    <3>1. CASE s = qsession
      <4>1. batch' = pending /\ pending' = <<>>
        BY <1>10, <3>1, Zenon DEF Drain
      <4>2. 0 <= MaxPending
        OBVIOUS
      <4> QED
        BY <4>1, <4>2, ValueQueues, Zenon
    <3>2. CASE s # qsession
      BY <1>10, <3>2, Zenon DEF Drain, QueuesOK
    <3> QED
      BY <3>1, <3>2
  <2> QED
    BY <1>10, <2>1, <2>2, Zenon DEF Drain, QueuesOK
<1>11. CASE NotifyRoom
  BY <1>11, Zenon DEF NotifyRoom, QueuesOK
<1>12. CASE RouteValue
  <2>1. routed' \in Seq(Value) /\ batch' \in Seq(Value)
    BY <1>12, ValueQueues, Zenon DEF RouteValue
  <2> QED
    BY <1>12, <2>1, Zenon DEF RouteValue, QueuesOK
<1>13. ASSUME NewQueueSession, Released, drains' = drains, wsession' = wsession, conn' = conn
       PROVE  /\ pending' \in Seq(Value) /\ Len(pending') <= MaxPending /\ wbatch' \in Seq(Value)
              /\ qsession' \in Nat /\ wsession' \in 0..qsession' /\ conn' \in 0..qsession'
              /\ drains' \subseteq 1..qsession'
  <2>1. 0 <= MaxPending
    OBVIOUS
  <2>2. /\ pending' \in Seq(Value) /\ Len(pending') <= MaxPending /\ wbatch' \in Seq(Value)
    BY <1>13, <2>1, ValueQueues, Zenon DEF NewQueueSession, Released
  <2>3. qsession' = qsession + 1 /\ wsession' = wsession /\ conn' = conn /\ drains' = drains
    BY <1>13, Zenon DEF NewQueueSession
  <2> QED
    BY <2>2, <2>3, CountsNext DEF QueuesOK
<1>14. CASE BeginSession
  <2>1. sessions' \in 0..MaxSessions
    BY <1>14, CountsNext, Zenon DEF BeginSession
  <2> QED
    BY <1>13, <1>14, <2>1, Zenon DEF BeginSession, QueuesOK
<1>15. CASE ConnectQueue
  BY <1>15, CountsNext, Zenon DEF ConnectQueue, QueuesOK
<1>16. CASE Deactivate
  BY <1>16, CountsNext, Zenon DEF Deactivate, QueuesOK
<1>17. CASE CancelSession
  BY <1>13, <1>17, Zenon DEF CancelSession, QueuesOK
<1>18. CASE Disconnected \/ StopWorker
  BY <1>18, Zenon DEF Disconnected, StopWorker, QueuesOK
<1>19. CASE UNCHANGED vars
  BY <1>19, Zenon DEF vars, QueuesOK
<1> QED
  BY <1>1, <1>2, <1>3, <1>4, <1>5, <1>6, <1>8, <1>9, <1>10, <1>11, <1>12, <1>14, <1>15,
     <1>16, <1>17, <1>18, <1>19, Zenon DEF Next, Worker, Gui

LEMMA ControlNext == TypeOK /\ [Next]_vars => ControlOK'
<1> SUFFICES ASSUME ControlOK, [Next]_vars PROVE ControlOK'
  BY DEF TypeOK
<1> USE DEF ControlOK, queueVars, workerVars, routerVars, sinkVars, guiVars, counters
<1>1. ASSUME NEW k \in Session, Radio(k) PROVE ControlOK'
  BY <1>1, Zenon DEF Radio, ReceiveValue, AddCommand, CommanderCloses, CommanderDeleted
<1>2. ASSUME NEW woke, Turn(woke) PROVE worker' \in {"run", "emit", "stopped"}
  BY <1>2, Zenon DEF Turn
<1>3. CASE WorkerRuns \/ IntervalExpires
  BY <1>2, <1>3, Zenon DEF WorkerRuns, IntervalExpires
<1>4. ASSUME NEW t, Notify(t) PROVE ControlOK'
  BY <1>2, <1>4, Zenon DEF Notify
<1>5. CASE Emit \/ Enter \/ EnqueueValue \/ EnqueueEnds
  BY <1>5, Zenon DEF Emit, Enter, EnqueueValue, EnqueueEnds
<1>6. ASSUME NEW s, Drain(s) PROVE ControlOK'
  BY <1>6, Zenon DEF Drain
<1>7. CASE NotifyRoom \/ RouteValue
  BY <1>7, Zenon DEF NotifyRoom, RouteValue
<1>8. CASE BeginSession \/ CancelSession
  BY <1>8, Zenon DEF BeginSession, CancelSession, Released
<1>9. CASE ConnectQueue \/ Deactivate \/ Disconnected \/ StopWorker
  BY <1>9, Zenon DEF ConnectQueue, Deactivate, Disconnected, StopWorker
<1>10. CASE UNCHANGED vars
  BY <1>10, Zenon DEF vars
<1> QED
  BY <1>1, <1>3, <1>4, <1>5, <1>6, <1>7, <1>8, <1>9, <1>10, Zenon DEF Next, Worker, Gui

LEMMA BegunNext == TypeOK /\ SessionsBegun /\ [Next]_vars => SessionsBegun'
<1> SUFFICES ASSUME QueuesOK, SessionsBegun, [Next]_vars PROVE SessionsBegun'
  BY DEF TypeOK
<1> USE DEF SessionsBegun, queueVars, workerVars, routerVars, sinkVars, guiVars, counters
<1>0. \A n \in 0..qsession : n # 0 => qsession > 0
  BY DEF QueuesOK
<1>1. ASSUME NEW k \in Session, Radio(k) PROVE SessionsBegun'
  BY <1>1, Zenon DEF Radio, ReceiveValue, AddCommand, CommanderCloses, CommanderDeleted
<1>2. ASSUME NEW woke, Turn(woke) PROVE worker' \in {"run", "emit", "stopped"}
  BY <1>2, Zenon DEF Turn
<1>3. CASE WorkerRuns \/ IntervalExpires
  BY <1>2, <1>3, Zenon DEF WorkerRuns, IntervalExpires
<1>4. ASSUME NEW t, Notify(t) PROVE SessionsBegun'
  BY <1>2, <1>4, Zenon DEF Notify
<1>5. CASE Emit
  BY <1>5, Zenon DEF Emit
<1>6. CASE Enter
  BY <1>0, <1>6, Zenon DEF Enter, QueuesOK, SessionMatches
<1>7. CASE EnqueueValue \/ EnqueueEnds
  BY <1>7, Zenon DEF EnqueueValue, EnqueueEnds
<1>8. ASSUME NEW s, Drain(s) PROVE SessionsBegun'
  BY <1>8, Zenon DEF Drain
<1>9. CASE NotifyRoom \/ RouteValue
  BY <1>9, Zenon DEF NotifyRoom, RouteValue
<1>10. CASE BeginSession \/ CancelSession
  <2>1. /\ worker' = "enter" => worker = "enter"
        /\ wsession' = wsession /\ qsession' = qsession + 1
    BY <1>10, Zenon DEF BeginSession, CancelSession, Released, NewQueueSession
  <2>2. qsession + 1 > 0
    BY DEF QueuesOK
  <2> QED
    BY <2>1, <2>2, Zenon
<1>11. CASE ConnectQueue \/ Deactivate \/ Disconnected \/ StopWorker
  BY <1>11, Zenon DEF ConnectQueue, Deactivate, Disconnected, StopWorker
<1>12. CASE UNCHANGED vars
  BY <1>12, Zenon DEF vars
<1> QED
  BY <1>1, <1>3, <1>4, <1>5, <1>6, <1>7, <1>8, <1>9, <1>10, <1>11, <1>12, Zenon
     DEF Next, Worker, Gui

\* Every variable of the pipeline has its type, and neither queue exceeds its
\* limit: commands that of CachingQueue, pending values that of RadioRouter.
THEOREM TypeCorrect == Spec => []TypeOK
<1>1. Init => SessionsBegun
  BY Zenon DEF Init, SessionsBegun
<1>2. TypeOK /\ SessionsBegun /\ [Next]_vars => TypeOK' /\ SessionsBegun'
  BY FlagsNext, QueuesNext, ControlNext, BegunNext, Zenon DEF TypeOK
<1> QED
  BY TypeInit, <1>1, <1>2, PTL DEF Spec

-----------------------------------------------------------------------------
(* DrainPosted.                                                            *)

\* A drain of the current session is posted whenever one is thought to be, and
\* that is so whenever a value is pending and no thread is adding one.
PostedOK ==
    /\ scheduled => qsession \in drains
    /\ pending # <<>> /\ worker # "enqueue" => scheduled

LEMMA PostedNext == PostedOK /\ [Next]_vars => PostedOK'
<1> SUFFICES ASSUME PostedOK, [Next]_vars PROVE PostedOK'
  OBVIOUS
<1> USE DEF PostedOK, queueVars, workerVars, routerVars, sinkVars, guiVars, counters
<1>0. ASSUME UNCHANGED routerVars, worker = "enqueue" => worker' = "enqueue" PROVE PostedOK'
  BY <1>0
<1>1. ASSUME NEW k \in Session, Radio(k) PROVE PostedOK'
  <2>1. UNCHANGED routerVars /\ worker' = worker
    BY <1>1, Zenon DEF Radio, ReceiveValue, AddCommand, CommanderCloses, CommanderDeleted
  <2> QED
    BY <1>0, <2>1, Zenon
<1>2. CASE WorkerRuns \/ IntervalExpires
  <2>1. UNCHANGED routerVars /\ worker # "enqueue"
    BY <1>2, Zenon DEF WorkerRuns, IntervalExpires
  <2> QED
    BY <1>0, <2>1, Zenon
<1>3. ASSUME NEW t, Notify(t) PROVE PostedOK'
  <2>1. UNCHANGED routerVars /\ (worker' = worker \/ worker # "enqueue")
    BY <1>3, Zenon DEF Notify
  <2> QED
    BY <1>0, <2>1, Zenon
<1>4. CASE Emit \/ Enter
  <2>1. UNCHANGED routerVars /\ worker # "enqueue"
    BY <1>4, Zenon DEF Emit, Enter
  <2> QED
    BY <1>0, <2>1, Zenon
<1>5. ScheduleDrain => (scheduled' /\ qsession \in drains')
  BY Zenon DEF ScheduleDrain
<1>6. CASE EnqueueValue
  <2>1. CASE worker' = "enqueue" /\ UNCHANGED <<scheduled, drains>>
    BY <1>6, <2>1, Zenon DEF EnqueueValue
  <2>2. CASE ScheduleDrain
    BY <1>5, <1>6, <2>2, Zenon DEF EnqueueValue
  <2> QED
    BY <1>6, <2>1, <2>2, Zenon DEF EnqueueValue
<1>7. CASE EnqueueEnds
  BY <1>5, <1>7, Zenon DEF EnqueueEnds
<1>8. ASSUME NEW s, Drain(s) PROVE PostedOK'
  BY <1>8, Zenon DEF Drain
<1>9. CASE NotifyRoom \/ RouteValue
  <2>1. UNCHANGED routerVars /\ (worker = "enqueue" => worker' = "enqueue")
    BY <1>9, Zenon DEF NotifyRoom, RouteValue
  <2> QED
    BY <1>0, <2>1, Zenon
<1>10. CASE BeginSession \/ CancelSession
  BY <1>10, Zenon DEF BeginSession, CancelSession, NewQueueSession
<1>11. CASE ConnectQueue \/ Deactivate \/ Disconnected \/ StopWorker
  <2>1. UNCHANGED routerVars /\ worker' = worker
    BY <1>11, Zenon DEF ConnectQueue, Deactivate, Disconnected, StopWorker
  <2> QED
    BY <1>0, <2>1, Zenon
<1>12. CASE UNCHANGED vars
  BY <1>0, <1>12, Zenon DEF vars
<1> QED
  BY <1>1, <1>2, <1>3, <1>4, <1>6, <1>7, <1>8, <1>9, <1>10, <1>11, <1>12, Zenon
     DEF Next, Worker, Gui

\* However many sessions begin and end while the queue's thread waits for room,
\* pending values always have a drain posted that will take them.
THEOREM DrainAlwaysPosted == Spec => []DrainPosted
<1>1. Init => PostedOK
  BY Zenon DEF Init, PostedOK
<1>2. PostedOK => DrainPosted
  BY Zenon DEF PostedOK, DrainPosted
<1> QED
  BY <1>1, <1>2, PostedNext, PTL DEF Spec

-----------------------------------------------------------------------------
(* NothingKept.                                                            *)

\* Only with the session that RadioBackend has up, or is about to cancel, can
\* the queue's thread be let into the router, and be inside it.
SessionOK ==
    /\ conn # 0 => conn = qsession /\ gui = "up"
    /\ worker = "enter" /\ wsession = qsession => gui \in {"up", "ending"}
    /\ worker \in {"enqueue", "blocked"} => gui \in {"up", "ending"}
    /\ NothingKept

LEMMA SessionNext == TypeOK /\ SessionOK /\ [Next]_vars => SessionOK'
<1> SUFFICES ASSUME QueuesOK, SessionOK, [Next]_vars PROVE SessionOK'
  BY DEF TypeOK
<1> USE DEF SessionOK, NothingKept, queueVars, workerVars, routerVars, sinkVars, guiVars,
            counters
<1>1. ASSUME NEW k \in Session, Radio(k) PROVE SessionOK'
  BY <1>1, Zenon DEF Radio, ReceiveValue, AddCommand, CommanderCloses, CommanderDeleted
<1>2. ASSUME NEW woke, Turn(woke) PROVE worker' \in {"run", "emit", "stopped"}
  BY <1>2, Zenon DEF Turn
<1>3. CASE WorkerRuns \/ IntervalExpires
  BY <1>2, <1>3, Zenon DEF WorkerRuns, IntervalExpires
<1>4. ASSUME NEW t, Notify(t) PROVE SessionOK'
  BY <1>2, <1>4, Zenon DEF Notify
<1>5. CASE Emit
  BY <1>5, Zenon DEF Emit
<1>6. CASE Enter
  BY <1>6, Zenon DEF Enter, SessionMatches
<1>7. CASE EnqueueValue \/ EnqueueEnds
  BY <1>7, Zenon DEF EnqueueValue, EnqueueEnds
<1>8. ASSUME NEW s, Drain(s) PROVE SessionOK'
  BY <1>8, Zenon DEF Drain
<1>9. CASE NotifyRoom \/ RouteValue
  BY <1>9, Zenon DEF NotifyRoom, RouteValue
<1>10. CASE BeginSession \/ CancelSession
  <2>1. /\ conn' = conn /\ conn = 0 /\ wsession' = wsession
        /\ qsession' = qsession + 1 /\ pending' = <<>>
    BY <1>10, Zenon DEF BeginSession, CancelSession, NewQueueSession
  <2>2. worker' \notin {"enqueue", "blocked"}
    BY <1>10, Zenon DEF BeginSession, CancelSession, Released
  <2>3. wsession # qsession + 1
    BY DEF QueuesOK
  <2> QED
    BY <2>1, <2>2, <2>3, Zenon
<1>11. CASE ConnectQueue \/ Deactivate \/ Disconnected \/ StopWorker
  BY <1>11, Zenon DEF ConnectQueue, Deactivate, Disconnected, StopWorker
<1>12. CASE UNCHANGED vars
  BY <1>12, Zenon DEF vars
<1> QED
  BY <1>1, <1>3, <1>4, <1>5, <1>6, <1>7, <1>8, <1>9, <1>10, <1>11, <1>12, Zenon
     DEF Next, Worker, Gui

\* Between two sessions the router holds no value, wherever the queue's thread
\* was when the session was cancelled.
THEOREM NothingIsKept == Spec => []NothingKept
<1>1. Init => SessionOK
  BY Zenon DEF Init, SessionOK, NothingKept
<1>2. SessionOK => NothingKept
  BY Zenon DEF SessionOK
<1> QED
  BY <1>1, <1>2, SessionNext, TypeCorrect, PTL DEF Spec

-----------------------------------------------------------------------------
(* The refinement of ValueDelivery.                                       *)

HIDE PipelineAssumption DEF PipelineAssumption

\* The values on their way, as ValueDelivery sees them.
Waits == batch \o pending \o wbatch \o items
Live == IF gui = "up" THEN sessions ELSE 0

-----------------------------------------------------------------------------
(* What the steps do to a sequence of values, and to its order.            *)

\* Values q[i] and q[j] are ordered as they were parsed if they may not be
\* reordered, and they are different values in any case.
Ordered(v, w) == /\ v.n # w.n
                 /\ v.key = w.key \/ Event \in {v.key, w.key} => v.n < w.n
InOrder(q) == \A i, j \in 1..Len(q) : i < j => Ordered(q[i], q[j])

\* q without its elements from i to j.
Cut(q, i, j) == SubSeq(q, 1, i - 1) \o SubSeq(q, j + 1, Len(q))

\* q with its j-th element written over its i-th.
Overwritten(q, i, j) ==
    [k \in 1..(Len(q) - 1) |-> IF k = i THEN q[j] ELSE IF k < j THEN q[k] ELSE q[k + 1]]

\* A part of a sequence, which may be empty.
LEMMA SubSeqElements ==
  ASSUME NEW S, NEW q \in Seq(S), NEW m \in 1..(Len(q) + 1), NEW n \in (m - 1)..Len(q)
  PROVE  /\ SubSeq(q, m, n) \in Seq(S) /\ Len(SubSeq(q, m, n)) = n - m + 1
         /\ \A k \in 1..(n - m + 1) : SubSeq(q, m, n)[k] = q[m + k - 1]
<1>1. Len(q) \in Nat
  BY LenProperties
<1>2. m \in Int /\ n \in Int /\ \A k \in m..n : q[k] \in S
  <2>1. \A k \in m..n : k \in 1..Len(q)
    BY <1>1
  <2> QED
    BY <1>1, <2>1, ElementOfSeq
<1>3. /\ SubSeq(q, m, n) \in Seq(S)
      /\ Len(SubSeq(q, m, n)) = IF m <= n THEN n - m + 1 ELSE 0
      /\ \A k \in 1..(n - m + 1) : SubSeq(q, m, n)[k] = q[m + k - 1]
  BY <1>2, SubSeqProperties
<1>4. n - m + 1 = IF m <= n THEN n - m + 1 ELSE 0
  BY <1>1
<1> QED
  BY <1>3, <1>4

\* The elements that Cut leaves.
LEMMA CutElements ==
  ASSUME NEW S, NEW q \in Seq(S), NEW i \in 1..Len(q), NEW j \in i..Len(q)
  PROVE  /\ Cut(q, i, j) \in Seq(S) /\ Len(Cut(q, i, j)) = Len(q) - (j - i + 1)
         /\ \A k \in 1..Len(Cut(q, i, j)) :
               Cut(q, i, j)[k] = IF k < i THEN q[k] ELSE q[k + (j - i + 1)]
<1>1. Len(q) \in Nat /\ i \in Nat /\ j \in Nat
  BY LenProperties
<1> DEFINE a == SubSeq(q, 1, i - 1)
           b == SubSeq(q, j + 1, Len(q))
<1>2. a \in Seq(S) /\ Len(a) = i - 1 /\ \A k \in 1..(i - 1) : a[k] = q[k]
  <2>1. 1 \in 1..(Len(q) + 1) /\ i - 1 \in (1 - 1)..Len(q) /\ (i - 1) - 1 + 1 = i - 1
    BY <1>1
  <2>2. /\ a \in Seq(S) /\ Len(a) = (i - 1) - 1 + 1
        /\ \A k \in 1..((i - 1) - 1 + 1) : a[k] = q[1 + k - 1]
    BY <2>1, SubSeqElements, SMTT(30)
  <2> QED
    BY <2>1, <2>2
<1>3. b \in Seq(S) /\ Len(b) = Len(q) - j /\ \A k \in 1..(Len(q) - j) : b[k] = q[j + k]
  <2> DEFINE m == j + 1
  <2>1. m \in 1..(Len(q) + 1) /\ Len(q) \in (m - 1)..Len(q)
    BY <1>1
  <2>2. Len(q) - m + 1 = Len(q) - j /\ \A k \in 1..(Len(q) - j) : m + k - 1 = j + k
    BY <1>1
  <2>3. b = SubSeq(q, m, Len(q))
    OBVIOUS
  <2> HIDE DEF m, b
  <2>4. /\ SubSeq(q, m, Len(q)) \in Seq(S) /\ Len(SubSeq(q, m, Len(q))) = Len(q) - m + 1
        /\ \A k \in 1..(Len(q) - m + 1) : SubSeq(q, m, Len(q))[k] = q[m + k - 1]
    BY <2>1, SubSeqElements, Zenon
  <2> QED
    BY <2>2, <2>3, <2>4, Zenon
<1>4. Cut(q, i, j) = a \o b
  BY Zenon DEF Cut
<1> HIDE DEF a, b
<1>5. /\ a \o b \in Seq(S) /\ Len(a \o b) = Len(a) + Len(b)
      /\ \A k \in 1..(Len(a) + Len(b)) :
            (a \o b)[k] = IF k <= Len(a) THEN a[k] ELSE b[k - Len(a)]
  BY <1>2, <1>3, ConcatProperties
<1>6. Len(a \o b) = Len(q) - (j - i + 1)
  BY <1>1, <1>2, <1>3, <1>5
<1>7. ASSUME NEW k \in 1..Len(a \o b)
      PROVE  (a \o b)[k] = IF k < i THEN q[k] ELSE q[k + (j - i + 1)]
  <2>1. (a \o b)[k] = IF k <= i - 1 THEN a[k] ELSE b[k - (i - 1)]
    BY <1>2, <1>5
  <2>2. CASE k < i
    <3>1. k \in 1..(i - 1) /\ k <= i - 1
      BY <1>1, <1>6, <2>2
    <3> QED
      BY <1>2, <2>1, <2>2, <3>1, Zenon
  <2>3. CASE ~(k < i)
    <3>1. /\ k - (i - 1) \in 1..(Len(q) - j) /\ ~(k <= i - 1)
          /\ j + (k - (i - 1)) = k + (j - i + 1)
      BY <1>1, <1>6, <2>3
    <3> QED
      BY <1>3, <2>1, <2>3, <3>1, Zenon
  <2> QED
    BY <2>2, <2>3, Zenon
<1> QED
  BY <1>4, <1>5, <1>6, <1>7, Zenon

\* r is q with its element i overwritten by element j, which is taken out.
OverwritesIn(q, i, j, r) ==
    /\ Len(r) = Len(q) - 1
    /\ \A k \in 1..Len(r) : r[k] = IF k = i THEN q[j] ELSE IF k < j THEN q[k] ELSE q[k + 1]

\* The elements that Overwritten leaves.
LEMMA OverwrittenElements ==
  ASSUME NEW S, NEW q \in Seq(S), NEW i \in 1..Len(q), NEW j \in (i + 1)..Len(q)
  PROVE  /\ Overwritten(q, i, j) \in Seq(S) /\ Len(Overwritten(q, i, j)) = Len(q) - 1
         /\ \A k \in 1..Len(Overwritten(q, i, j)) :
               Overwritten(q, i, j)[k] =
                   IF k = i THEN q[j] ELSE IF k < j THEN q[k] ELSE q[k + 1]
<1> DEFINE n == Len(q) - 1
           e(k) == IF k = i THEN q[j] ELSE IF k < j THEN q[k] ELSE q[k + 1]
           r == [k \in 1..n |-> e(k)]
<1>1. n \in Nat /\ Len(q) \in Nat
  BY LenProperties
<1>2. \A k \in 1..n : e(k) \in S
  <2>1. \A k \in 1..n : {j, k, k + 1} \subseteq 1..Len(q)
    BY <1>1
  <2>2. \A k \in 1..n : q[j] \in S /\ q[k] \in S /\ q[k + 1] \in S
    BY <2>1, ElementOfSeq
  <2> QED
    BY <2>2, Zenon
<1> HIDE DEF n, e
<1>3. r \in Seq(S) /\ Len(r) = n
  BY <1>1, <1>2
<1>4. \A k \in 1..n : r[k] = e(k)
  OBVIOUS
<1>5. r = Overwritten(q, i, j)
  BY Zenon DEF Overwritten, n, e
<1> QED
  BY <1>3, <1>4, <1>5, Zenon DEF n, e

\* The same with the elements in one predicate.
LEMMA OverwrittenOverwrites ==
  ASSUME NEW S, NEW q \in Seq(S), NEW i \in 1..Len(q), NEW j \in (i + 1)..Len(q)
  PROVE  Overwritten(q, i, j) \in Seq(S) /\ OverwritesIn(q, i, j, Overwritten(q, i, j))
<1>1. Overwritten(q, i, j) \in Seq(S) /\ Len(Overwritten(q, i, j)) = Len(q) - 1
  BY OverwrittenElements
<1>2. \A k \in 1..Len(Overwritten(q, i, j)) :
         Overwritten(q, i, j)[k] = IF k = i THEN q[j] ELSE IF k < j THEN q[k] ELSE q[k + 1]
  BY OverwrittenElements
<1> QED
  BY <1>1, <1>2, Zenon DEF OverwritesIn

\* Every element that a step leaves was there before, in the same order.
LEMMA CutInOrder ==
  ASSUME NEW S, NEW q \in Seq(S), NEW i \in 1..Len(q), NEW j \in i..Len(q), InOrder(q)
  PROVE  /\ InOrder(Cut(q, i, j))
         /\ \A k \in 1..Len(Cut(q, i, j)) : \E m \in 1..Len(q) : Cut(q, i, j)[k] = q[m]
<1> DEFINE c == Cut(q, i, j)
           from(k) == IF k < i THEN k ELSE k + (j - i + 1)
<1>1. /\ Len(q) \in Nat /\ Len(c) = Len(q) - (j - i + 1)
      /\ \A k \in 1..Len(c) : c[k] = IF k < i THEN q[k] ELSE q[k + (j - i + 1)]
  BY CutElements, LenProperties, Zenon
<1> HIDE DEF c
<1>2. \A k \in 1..Len(c) : from(k) \in 1..Len(q)
  BY <1>1
<1>3. \A k, m \in 1..Len(c) : k < m => from(k) < from(m)
  BY <1>1
<1>4. \A k \in 1..Len(c) : c[k] = q[from(k)]
  BY <1>1, Zenon
<1> HIDE DEF from
<1>5. InOrder(c)
  BY <1>2, <1>3, <1>4, Zenon DEF InOrder
<1> QED
  BY <1>2, <1>4, <1>5, Zenon DEF c

\* A value may be written over an older one of its kind if nothing between them
\* is of that kind or an event.
LEMMA OverwrittenInOrder ==
  ASSUME NEW q \in Seq(Delivery!Values), NEW i \in 1..Len(q), NEW j \in (i + 1)..Len(q), InOrder(q),
         q[i].key = q[j].key, \A k \in i..j : q[k].key # Event,
         \A k \in (i + 1)..(j - 1) : q[k].key # q[i].key
  PROVE  /\ InOrder(Overwritten(q, i, j))
         /\ \A k \in 1..Len(Overwritten(q, i, j)) :
               \E m \in 1..Len(q) : Overwritten(q, i, j)[k] = q[m]
<1> DEFINE r == Overwritten(q, i, j)
           from(k) == IF k = i THEN j ELSE IF k < j THEN k ELSE k + 1
<1>0. Len(q) \in Nat
  BY LenProperties
<1>1. /\ Len(r) = Len(q) - 1
      /\ \A k \in 1..Len(r) : r[k] = IF k = i THEN q[j] ELSE IF k < j THEN q[k] ELSE q[k + 1]
  BY OverwrittenElements
<1> HIDE DEF r
<1>2. \A k \in 1..Len(r) : from(k) \in 1..Len(q)
  BY <1>0, <1>1
<1>3. \A k, m \in 1..Len(r) :
         k < m => from(k) < from(m) \/ (k = i /\ m \in (i + 1)..(j - 1))
  BY <1>0, <1>1
<1>4. \A k \in 1..Len(r) : r[k] = q[from(k)]
  BY <1>1, Zenon
<1>5. ASSUME NEW m \in (i + 1)..(j - 1) PROVE Ordered(q[j], q[m]) /\ from(m) = m
  <2>1. m \in 1..Len(q) /\ j \in 1..Len(q) /\ m < j /\ j \in i..j /\ m \in i..j /\ from(m) = m
    BY <1>0, <1>1
  <2>2. q[m].key # q[j].key /\ Event \notin {q[j].key, q[m].key}
    BY <2>1, Zenon
  <2>3. q[m].n # q[j].n
    BY <2>1, Zenon DEF InOrder, Ordered
  <2> QED
    BY <2>1, <2>2, <2>3, Zenon DEF Ordered
<1>6. from(i) = j
  OBVIOUS
<1> HIDE DEF from
<1>7. InOrder(r)
  BY <1>2, <1>3, <1>4, <1>5, <1>6, Zenon DEF InOrder
<1> QED
  BY <1>2, <1>4, <1>7, Zenon DEF r

-----------------------------------------------------------------------------
(* Whose values are on their way, and where.                               *)

\* While a Commander handles its events, those of all earlier sessions are gone.
Opened(s) == s \in Session /\ cmdr[s] # "none" /\ \A j \in Session : j < s => cmdr[j] = "gone"

\* The batch that the queue's thread holds when it wakes up would be lost.
BatchTaken == worker \in {"run", "wait", "timed"} => wbatch = <<>>

\* The Commander of the connected session is live, and no later one exists.
CommandersOK ==
    /\ gui \in {"begun", "up"} => qsession > 0
    /\ gui = "up" => conn = qsession
    /\ gui = "begun" => sessions \in Session /\ cmdr[sessions] = "none"
    /\ gui \in {"up", "ending"} => sessions \in Session /\ cmdr[sessions] = "live"
    /\ \A k \in Session : k > sessions => cmdr[k] = "none"

\* Whose the values are that the worker has not handed to the router.
SourcesOK ==
    /\ \A i \in 1..Len(items) : Opened(items[i].s)
    /\ \A i \in 1..Len(wbatch) : cmdr[wbatch[i].s] # "none"

\* A batch that will be turned away at the router has no value of the session
\* that is connected by then.
StrangersOnly ==
    worker = "enter" /\ wsession # qsession /\ gui = "up"
        => \A i \in 1..Len(wbatch) : wbatch[i].s # sessions

WaitInv == BatchTaken /\ CommandersOK /\ SourcesOK /\ StrangersOnly

-----------------------------------------------------------------------------
(* Sequences put together and cut.                                         *)

\* Three sequences make one, whichever are put together first, and what one of
\* them holds can be found in the whole.
LEMMA ThreeParts ==
  ASSUME NEW S, NEW p \in Seq(S), NEW m \in Seq(S), NEW r \in Seq(S)
  PROVE  LET w == p \o m \o r
         IN  /\ w \in Seq(S) /\ Len(w) = Len(p) + Len(m) + Len(r) /\ DOMAIN w = 1..Len(w)
             /\ \A k \in 1..Len(w) :
                   w[k] = IF k <= Len(p) THEN p[k]
                          ELSE IF k <= Len(p) + Len(m) THEN m[k - Len(p)]
                          ELSE r[k - (Len(p) + Len(m))]
<1> DEFINE w == p \o m \o r
<1>1. Len(p) \in Nat /\ Len(m) \in Nat /\ Len(r) \in Nat
  BY LenProperties
<1>2. /\ p \o m \in Seq(S) /\ Len(p \o m) = Len(p) + Len(m)
      /\ \A k \in 1..(Len(p) + Len(m)) : (p \o m)[k] = IF k <= Len(p) THEN p[k] ELSE m[k - Len(p)]
  BY ConcatProperties
<1>3. /\ w \in Seq(S) /\ Len(w) = Len(p) + Len(m) + Len(r)
      /\ \A k \in 1..(Len(p) + Len(m) + Len(r)) :
            w[k] = IF k <= Len(p) + Len(m) THEN (p \o m)[k] ELSE r[k - (Len(p) + Len(m))]
  BY <1>2, ConcatProperties, SMTT(20)
<1>4. DOMAIN w = 1..Len(w)
  BY <1>3, LenProperties
<1> HIDE DEF w
<1>5. ASSUME NEW k \in 1..Len(w)
      PROVE  w[k] = IF k <= Len(p) THEN p[k]
                    ELSE IF k <= Len(p) + Len(m) THEN m[k - Len(p)]
                    ELSE r[k - (Len(p) + Len(m))]
  <2>1. k <= Len(p) => k <= Len(p) + Len(m)
    BY <1>1
  <2>2. k <= Len(p) + Len(m) => k \in 1..(Len(p) + Len(m))
    BY <1>1
  <2> QED
    BY <1>2, <1>3, <2>1, <2>2, Zenon
<1> QED
  BY <1>3, <1>4, <1>5, Zenon DEF w

\* m is a part of w, and u is what remains without it.
PartOf(m, w, u) ==
    \E i, j \in DOMAIN w :
        /\ i <= j /\ u = Cut(w, i, j)
        /\ \A k \in i..j : \E x \in 1..Len(m) : w[k] = m[x]

\* The part in the middle can be cut out.
LEMMA MiddleCut ==
  ASSUME NEW S, NEW p \in Seq(S), NEW m \in Seq(S), NEW r \in Seq(S), m # <<>>
  PROVE  PartOf(m, p \o m \o r, p \o r)
<1> DEFINE w == p \o m \o r
           i == Len(p) + 1
           j == Len(p) + Len(m)
<1>1. Len(p) \in Nat /\ Len(r) \in Nat /\ Len(m) \in Nat \ {0}
  BY LenProperties, EmptySeq
<1>2. /\ w \in Seq(S) /\ Len(w) = Len(p) + Len(m) + Len(r) /\ DOMAIN w = 1..Len(w)
      /\ \A k \in 1..Len(w) : w[k] = IF k <= Len(p) THEN p[k]
                                     ELSE IF k <= Len(p) + Len(m) THEN m[k - Len(p)]
                                     ELSE r[k - (Len(p) + Len(m))]
  BY ThreeParts
<1>3. /\ p \o r \in Seq(S) /\ Len(p \o r) = Len(p) + Len(r)
      /\ \A k \in 1..(Len(p) + Len(r)) :
            (p \o r)[k] = IF k <= Len(p) THEN p[k] ELSE r[k - Len(p)]
  BY ConcatProperties
<1> HIDE DEF w
<1>4. i \in 1..Len(w) /\ j \in i..Len(w) /\ j \in 1..Len(w) /\ i <= j /\ j - i + 1 = Len(m)
  BY <1>1, <1>2
<1> DEFINE c == Cut(w, i, j)
<1>5. /\ c \in Seq(S) /\ Len(c) = Len(w) - (j - i + 1)
      /\ \A k \in 1..Len(c) : c[k] = IF k < i THEN w[k] ELSE w[k + (j - i + 1)]
  <2>1. w \in Seq(S)
    BY <1>2
  <2>2. ASSUME NEW f \in 1..Len(w), NEW t \in f..Len(w)
        PROVE  /\ Cut(w, f, t) \in Seq(S)
               /\ Len(Cut(w, f, t)) = Len(w) - (t - f + 1)
               /\ \A k \in 1..Len(Cut(w, f, t)) :
                     Cut(w, f, t)[k] = IF k < f THEN w[k] ELSE w[k + (t - f + 1)]
    BY <2>1, CutElements, Zenon
  <2> QED
    BY <1>4, <2>2, Zenon
<1> HIDE DEF c
<1>6. Len(c) = Len(p) + Len(r)
  BY <1>1, <1>2, <1>5
<1>7. ASSUME NEW k \in 1..(Len(p) + Len(r)) PROVE (p \o r)[k] = c[k]
  <2>1. c[k] = IF k < i THEN w[k] ELSE w[k + Len(m)]
    BY <1>4, <1>5, <1>6, Zenon
  <2>2. CASE k <= Len(p)
    <3>1. k < i /\ k \in 1..Len(w)
      BY <1>1, <1>2, <2>2
    <3> QED
      BY <1>2, <1>3, <2>1, <2>2, <3>1, Zenon
  <2>3. CASE ~(k <= Len(p))
    <3>1. /\ ~(k < i) /\ k + Len(m) \in 1..Len(w) /\ ~(k + Len(m) <= Len(p))
          /\ ~(k + Len(m) <= Len(p) + Len(m))
          /\ k + Len(m) - (Len(p) + Len(m)) = k - Len(p)
      BY <1>1, <1>2, <2>3
    <3>2. w[k + Len(m)] = r[k + Len(m) - (Len(p) + Len(m))]
      BY <1>2, <3>1, SMTT(60)
    <3> QED
      BY <1>3, <2>1, <2>3, <3>1, <3>2, Zenon
  <2> QED
    BY <2>2, <2>3
<1>8. p \o r = c
  BY <1>3, <1>5, <1>6, <1>7, SeqEqual
<1>9. ASSUME NEW k \in i..j PROVE \E x \in 1..Len(m) : w[k] = m[x]
  <2>1. /\ k \in 1..Len(w) /\ ~(k <= Len(p)) /\ k <= Len(p) + Len(m)
        /\ k - Len(p) \in 1..Len(m)
    BY <1>1, <1>2
  <2>2. w[k] = m[k - Len(p)]
    BY <1>2, <2>1, Zenon
  <2> QED
    BY <2>1, <2>2, Zenon
<1>10. p \o m \o r = w
  BY DEF w
<1>11. i \in DOMAIN w /\ j \in DOMAIN w /\ i <= j
  BY <1>2, <1>4
<1>12. p \o r = Cut(w, i, j)
  BY <1>8, Zenon DEF c
<1> QED
  <2>1. PartOf(m, w, p \o r)
    BY <1>9, <1>11, <1>12, Zenon DEF PartOf
  <2> QED
    BY <1>10, <2>1, Zenon

\* Writing the first of r over an element of p, and taking it out of r.
LEMMA HeadOverwrites ==
  ASSUME NEW S, NEW p \in Seq(S), NEW r \in Seq(S), r # <<>>, NEW i \in 1..Len(p)
  PROVE  /\ [p EXCEPT ![i] = Head(r)] \o Tail(r) = Overwritten(p \o r, i, Len(p) + 1)
         /\ Len(p) + 1 \in 1..Len(p \o r) /\ Len(p \o r) = Len(p) + Len(r)
         /\ (p \o r)[Len(p) + 1] = Head(r) /\ \A k \in 1..Len(p) : (p \o r)[k] = p[k]
<1> DEFINE j == Len(p) + 1
           q == [p EXCEPT ![i] = Head(r)]
           w == p \o r
           o == Overwritten(w, i, j)
<1>1. Len(p) \in Nat /\ Len(r) \in Nat \ {0}
  BY LenProperties, EmptySeq
<1>2. /\ Head(r) \in S /\ Head(r) = r[1] /\ Tail(r) \in Seq(S) /\ Len(Tail(r)) = Len(r) - 1
      /\ \A k \in 1..Len(Tail(r)) : Tail(r)[k] = r[k + 1]
  BY HeadTailProperties
<1>3. /\ q \in Seq(S) /\ Len(q) = Len(p)
      /\ \A k \in 1..Len(p) : q[k] = IF k = i THEN Head(r) ELSE p[k]
  BY <1>2, ExceptSeq
<1> HIDE DEF q
<1>4. /\ w \in Seq(S) /\ Len(w) = Len(p) + Len(r)
      /\ \A k \in 1..(Len(p) + Len(r)) : w[k] = IF k <= Len(p) THEN p[k] ELSE r[k - Len(p)]
  BY ConcatProperties
<1> HIDE DEF w
<1>5. i \in 1..Len(w) /\ j \in (i + 1)..Len(w) /\ j \in 1..Len(w)
  BY <1>1, <1>4
<1>6. w[j] = Head(r)
  <2>1. j \in 1..(Len(p) + Len(r)) /\ ~(j <= Len(p)) /\ j - Len(p) = 1
    BY <1>1
  <2> QED
    BY <1>2, <1>4, <2>1, Zenon
<1>7. \A k \in 1..Len(p) : w[k] = p[k]
  <2>1. \A k \in 1..Len(p) : k \in 1..(Len(p) + Len(r)) /\ k <= Len(p)
    BY <1>1
  <2> QED
    BY <1>4, <2>1, Zenon
<1>8. /\ o \in Seq(S) /\ Len(o) = Len(w) - 1
      /\ \A k \in 1..Len(o) : o[k] = IF k = i THEN w[j] ELSE IF k < j THEN w[k] ELSE w[k + 1]
  <2>1. o \in Seq(S) /\ OverwritesIn(w, i, j, o)
    BY <1>4, <1>5, OverwrittenOverwrites, Zenon
  <2> HIDE DEF o
  <2> QED
    BY <2>1, Zenon DEF OverwritesIn
<1> HIDE DEF o
<1>9. /\ q \o Tail(r) \in Seq(S) /\ Len(q \o Tail(r)) = Len(p) + Len(Tail(r))
      /\ \A k \in 1..(Len(p) + Len(Tail(r))) :
            (q \o Tail(r))[k] = IF k <= Len(p) THEN q[k] ELSE Tail(r)[k - Len(p)]
  <2>1. \A t \in Seq(S) :
           /\ q \o t \in Seq(S) /\ Len(q \o t) = Len(q) + Len(t)
           /\ \A k \in 1..(Len(q) + Len(t)) :
                 (q \o t)[k] = IF k <= Len(q) THEN q[k] ELSE t[k - Len(q)]
    BY <1>3, ConcatProperties
  <2>2. /\ q \o Tail(r) \in Seq(S) /\ Len(q \o Tail(r)) = Len(q) + Len(Tail(r))
        /\ \A k \in 1..(Len(q) + Len(Tail(r))) :
              (q \o Tail(r))[k] = IF k <= Len(q) THEN q[k] ELSE Tail(r)[k - Len(q)]
    BY <1>2, <2>1, Zenon
  <2> QED
    BY <1>3, <2>2
<1>10. Len(o) = Len(p) + Len(Tail(r))
  BY <1>1, <1>2, <1>4, <1>8
<1>11. ASSUME NEW k \in 1..(Len(p) + Len(Tail(r))) PROVE (q \o Tail(r))[k] = o[k]
  <2>1. CASE k <= Len(p)
    <3>1. k \in 1..Len(p) /\ k < j /\ k \in 1..Len(o)
      BY <1>1, <1>10, <2>1
    <3> QED
      BY <1>3, <1>6, <1>7, <1>8, <1>9, <2>1, <3>1, Zenon
  <2>2. CASE ~(k <= Len(p))
    <3>1. /\ ~(k < j) /\ k # i /\ k \in 1..Len(o) /\ k + 1 \in 1..(Len(p) + Len(r))
          /\ ~(k + 1 <= Len(p)) /\ k + 1 - Len(p) = (k - Len(p)) + 1
          /\ k - Len(p) \in 1..Len(Tail(r))
      BY <1>1, <1>2, <1>10, <2>2
    <3>2. o[k] = w[k + 1] /\ w[k + 1] = r[k + 1 - Len(p)]
      BY <1>4, <1>8, <3>1
    <3> QED
      BY <1>2, <1>9, <2>2, <3>1, <3>2, Zenon
  <2> QED
    BY <2>1, <2>2
<1>12. q \o Tail(r) = o
  BY <1>8, <1>9, <1>10, <1>11, SeqEqual
<1> QED
  BY <1>4, <1>5, <1>6, <1>7, <1>12, Zenon DEF q, w, o

-----------------------------------------------------------------------------
(* The invariant about the values on their way.                            *)

LEMMA TakenNext == BatchTaken /\ [Next]_vars => BatchTaken'
<1> SUFFICES ASSUME BatchTaken, [Next]_vars PROVE BatchTaken'
  OBVIOUS
<1> USE DEF BatchTaken, queueVars, workerVars, routerVars, sinkVars, guiVars, counters
<1>0. ASSUME UNCHANGED workerVars PROVE BatchTaken'
  BY <1>0, Zenon
<1>1. ASSUME NEW k \in Session, Radio(k) PROVE BatchTaken'
  BY <1>0, <1>1, Zenon DEF Radio, ReceiveValue, AddCommand, CommanderCloses, CommanderDeleted
<1>2. ASSUME NEW woke, Turn(woke) PROVE BatchTaken'
  BY <1>2, Zenon DEF Turn
<1>3. CASE WorkerRuns \/ IntervalExpires
  BY <1>2, <1>3, Zenon DEF WorkerRuns, IntervalExpires
<1>4. ASSUME NEW t, Notify(t) PROVE BatchTaken'
  BY <1>0, <1>2, <1>4, Zenon DEF Notify
<1>5. CASE Emit \/ Enter
  BY <1>5, Zenon DEF Emit, Enter
<1>6. CASE EnqueueValue \/ EnqueueEnds
  BY <1>6, Zenon DEF EnqueueValue, EnqueueEnds
<1>7. ASSUME NEW s, Drain(s) PROVE BatchTaken'
  BY <1>0, <1>7, Zenon DEF Drain
<1>8. CASE NotifyRoom \/ RouteValue
  BY <1>8, Zenon DEF NotifyRoom, RouteValue
<1>9. CASE BeginSession \/ CancelSession
  BY <1>9, Zenon DEF BeginSession, CancelSession, Released
<1>10. CASE ConnectQueue \/ Deactivate \/ Disconnected \/ StopWorker
  BY <1>0, <1>10, Zenon DEF ConnectQueue, Deactivate, Disconnected, StopWorker
<1>11. CASE UNCHANGED vars
  BY <1>0, <1>11, Zenon DEF vars
<1> QED
  BY <1>1, <1>3, <1>4, <1>5, <1>6, <1>7, <1>8, <1>9, <1>10, <1>11, Zenon
     DEF Next, Worker, Gui

\* A step that leaves RadioBackend and the Commanders alone.
LEMMA SteadyGui ==
  [Next]_vars => \/ UNCHANGED <<guiVars, qsession>>
                 \/ \E k \in Session : CommanderCloses(k) \/ CommanderDeleted(k)
                 \/ BeginSession \/ ConnectQueue \/ Deactivate \/ CancelSession \/ Disconnected
<1> USE DEF queueVars, workerVars, routerVars, sinkVars, guiVars, counters
<1>1. ASSUME NEW k \in Session, Radio(k), ~CommanderCloses(k), ~CommanderDeleted(k)
      PROVE  UNCHANGED <<guiVars, qsession>>
  BY <1>1, Zenon DEF Radio, ReceiveValue, AddCommand
<1>2. ASSUME Worker PROVE UNCHANGED <<guiVars, qsession>>
  BY <1>2, Zenon DEF Worker, WorkerRuns, IntervalExpires, Emit, Enter, EnqueueValue, EnqueueEnds
<1>3. ASSUME NEW t, Notify(t) PROVE UNCHANGED <<guiVars, qsession>>
  BY <1>3, Zenon DEF Notify
<1>4. ASSUME NEW s, Drain(s) PROVE UNCHANGED <<guiVars, qsession>>
  BY <1>4, Zenon DEF Drain
<1>5. ASSUME NotifyRoom \/ RouteValue \/ StopWorker \/ UNCHANGED vars
      PROVE  UNCHANGED <<guiVars, qsession>>
  BY <1>5, Zenon DEF NotifyRoom, RouteValue, StopWorker, vars
<1> QED
  BY <1>1, <1>2, <1>3, <1>4, <1>5, Zenon DEF Next, Gui

LEMMA CommandersNext == TypeOK /\ CommandersOK /\ [Next]_vars => CommandersOK'
<1> SUFFICES ASSUME TypeOK, CommandersOK, [Next]_vars PROVE CommandersOK'
  OBVIOUS
<1> USE DEF CommandersOK, guiVars
<1>0. /\ sessions \in 0..MaxSessions /\ qsession \in Nat
      /\ cmdr \in [Session -> {"none", "live", "closing", "closed", "gone"}]
  BY DEF TypeOK, QueuesOK, ControlOK
<1>1. CASE UNCHANGED <<guiVars, qsession>>
  BY <1>1, Zenon
<1>2. ASSUME NEW k \in Session, CommanderCloses(k) \/ CommanderDeleted(k) PROVE CommandersOK'
  <2>1. /\ UNCHANGED <<gui, conn, sessions, qsession>> /\ cmdr[k] \in {"closing", "closed"}
        /\ \/ cmdr' = [cmdr EXCEPT ![k] = "closed"]
           \/ cmdr' = [cmdr EXCEPT ![k] = "gone"]
    BY <1>2, Zenon DEF CommanderCloses, CommanderDeleted, routerVars
  <2>2. \A j \in Session : cmdr[j] \in {"none", "live"} => cmdr'[j] = cmdr[j]
    BY <1>0, <2>1
  <2> QED
    BY <2>1, <2>2, Zenon
<1>3. CASE BeginSession
  <2>1. /\ gui' = "begun" /\ sessions' = sessions + 1 /\ qsession' = qsession + 1 /\ cmdr' = cmdr
        /\ sessions < MaxSessions
    BY <1>3, Zenon DEF BeginSession, NewQueueSession
  <2>2. /\ sessions + 1 \in Session /\ qsession + 1 > 0
        /\ \A k \in Session : k > sessions + 1 => k > sessions
    <3>1. sessions \in 0..MaxSessions /\ sessions < MaxSessions /\ qsession \in Nat
      BY <1>0, <2>1
    <3> QED
      BY <3>1, PipelineAssumption DEF Session, PipelineAssumption
  <2>3. \A k \in Session : k > sessions + 1 => cmdr[k] = "none"
    BY <2>2, Zenon
  <2>4. cmdr[sessions + 1] = "none"
    <3>1. sessions + 1 > sessions
      BY <1>0
    <3> QED
      BY <2>2, <3>1, Zenon
  <2> QED
    BY <2>1, <2>2, <2>3, <2>4, Zenon
<1>4. CASE ConnectQueue
  <2>1. /\ gui = "begun" /\ gui' = "up" /\ conn' = qsession
        /\ cmdr' = [cmdr EXCEPT ![sessions] = "live"] /\ UNCHANGED <<sessions, qsession>>
    BY <1>4, Zenon DEF ConnectQueue, routerVars
  <2>2. \A k \in Session : k > sessions => k # sessions
    BY <1>0 DEF Session
  <2> QED
    BY <1>0, <2>1, <2>2, Zenon
<1>5. CASE Deactivate \/ Disconnected
  BY <1>5, Zenon DEF Deactivate, Disconnected, routerVars
<1>6. CASE CancelSession
  <2>1. /\ gui = "ending" /\ gui' = "closing" /\ sessions' = sessions
        /\ cmdr' = [cmdr EXCEPT ![sessions] = "closing"]
    BY <1>6, Zenon DEF CancelSession
  <2>2. \A k \in Session : k > sessions => k # sessions
    BY <1>0 DEF Session
  <2> QED
    BY <1>0, <2>1, <2>2, Zenon
<1> QED
  BY <1>1, <1>2, <1>3, <1>4, <1>5, <1>6, SteadyGui, Zenon

\* A Commander that has handled an event keeps its place in the order of sessions.
LEMMA OpenedNext ==
  ASSUME TypeOK, CommandersOK, [Next]_vars
  PROVE  \A s \in Session : /\ cmdr[s] # "none" => cmdr'[s] # "none"
                            /\ cmdr[s] = "gone" => cmdr'[s] = "gone"
<1>0. cmdr \in [Session -> {"none", "live", "closing", "closed", "gone"}]
  BY DEF TypeOK, ControlOK
<1>1. CASE UNCHANGED <<guiVars, qsession>>
  BY <1>1, Zenon DEF guiVars
<1>2. ASSUME NEW k \in Session, CommanderCloses(k) \/ CommanderDeleted(k)
      PROVE  \A s \in Session : /\ cmdr[s] # "none" => cmdr'[s] # "none"
                                /\ cmdr[s] = "gone" => cmdr'[s] = "gone"
  <2>1. /\ cmdr[k] \in {"closing", "closed"}
        /\ \/ cmdr' = [cmdr EXCEPT ![k] = "closed"]
           \/ cmdr' = [cmdr EXCEPT ![k] = "gone"]
    BY <1>2, Zenon DEF CommanderCloses, CommanderDeleted
  <2> QED
    BY <1>0, <2>1
<1>3. CASE BeginSession \/ Deactivate \/ Disconnected
  BY <1>3, Zenon DEF BeginSession, Deactivate, Disconnected
<1>4. CASE ConnectQueue \/ CancelSession
  <2>1. /\ sessions \in Session /\ cmdr[sessions] \in {"none", "live"}
        /\ \/ cmdr' = [cmdr EXCEPT ![sessions] = "live"]
           \/ cmdr' = [cmdr EXCEPT ![sessions] = "closing"]
    BY <1>4, Zenon DEF ConnectQueue, CancelSession, CommandersOK
  <2> QED
    BY <1>0, <2>1
<1> QED
  BY <1>1, <1>2, <1>3, <1>4, SteadyGui, Zenon

\* What becomes of the values that the radio-worker thread and the queue's
\* thread hold.
LEMMA BatchMoves ==
  [Next]_vars => \/ wbatch' = wbatch \/ wbatch' = <<>> \/ wbatch' = items
                 \/ wbatch # <<>> /\ wbatch' = Tail(wbatch)
<1> USE DEF queueVars, workerVars, routerVars, sinkVars, guiVars, counters
<1>1. ASSUME NEW k \in Session, Radio(k) PROVE wbatch' = wbatch
  BY <1>1, Zenon DEF Radio, ReceiveValue, AddCommand, CommanderCloses, CommanderDeleted
<1>2. ASSUME NEW woke, Turn(woke) PROVE wbatch' = wbatch \/ wbatch' = items
  BY <1>2, Zenon DEF Turn
<1>3. CASE WorkerRuns \/ IntervalExpires
  BY <1>2, <1>3, Zenon DEF WorkerRuns, IntervalExpires
<1>4. ASSUME NEW t, Notify(t) PROVE wbatch' = wbatch \/ wbatch' = items
  BY <1>2, <1>4, Zenon DEF Notify
<1>5. CASE Emit \/ Enter \/ EnqueueEnds
  BY <1>5, Zenon DEF Emit, Enter, EnqueueEnds
<1>6. CASE EnqueueValue
  BY <1>6, Zenon DEF EnqueueValue
<1>7. ASSUME NEW s, Drain(s) PROVE wbatch' = wbatch
  BY <1>7, Zenon DEF Drain
<1>8. CASE NotifyRoom \/ RouteValue \/ UNCHANGED vars
  BY <1>8, Zenon DEF NotifyRoom, RouteValue, vars
<1>9. CASE Gui
  BY <1>9, Zenon DEF Gui, BeginSession, ConnectQueue, Deactivate, CancelSession, Disconnected,
                     StopWorker, Released
<1> QED
  BY <1>1, <1>3, <1>4, <1>5, <1>6, <1>7, <1>8, <1>9, Zenon DEF Next, Worker

LEMMA ItemsMove ==
  [Next]_vars => \/ items' = items \/ items' = <<>>
                 \/ \E k \in Session, key \in Keys \cup {Event} : ReceiveValue(k, key)
<1> USE DEF queueVars, workerVars, routerVars, sinkVars, guiVars, counters
<1>1. ASSUME NEW k \in Session, Radio(k), \A key \in Keys \cup {Event} : ~ReceiveValue(k, key)
      PROVE  items' = items \/ items' = <<>>
  BY <1>1, Zenon DEF Radio, AddCommand, CommanderCloses, CommanderDeleted
<1>2. ASSUME NEW woke, Turn(woke) PROVE items' = items \/ items' = <<>>
  BY <1>2, Zenon DEF Turn
<1>3. CASE Worker
  BY <1>2, <1>3, Zenon DEF Worker, WorkerRuns, IntervalExpires, Emit, Enter, EnqueueValue,
                           EnqueueEnds
<1>4. ASSUME NEW t, Notify(t) PROVE items' = items \/ items' = <<>>
  BY <1>2, <1>4, Zenon DEF Notify
<1>5. ASSUME NEW s, Drain(s) PROVE items' = items
  BY <1>5, Zenon DEF Drain
<1>6. CASE NotifyRoom \/ RouteValue \/ UNCHANGED vars
  BY <1>6, Zenon DEF NotifyRoom, RouteValue, vars
<1>7. CASE Gui
  BY <1>7, Zenon DEF Gui, BeginSession, ConnectQueue, Deactivate, CancelSession, Disconnected,
                     StopWorker
<1> QED
  BY <1>1, <1>3, <1>4, <1>5, <1>6, <1>7, Zenon DEF Next

LEMMA SourcesNext == TypeOK /\ CommandersOK /\ SourcesOK /\ [Next]_vars => SourcesOK'
<1> SUFFICES ASSUME TypeOK, CommandersOK, SourcesOK, [Next]_vars PROVE SourcesOK'
  OBVIOUS
<1>0. /\ items \in Seq(Value) /\ wbatch \in Seq(Value)
      /\ \A i \in 1..Len(items) : items[i] \in Value
      /\ \A i \in 1..Len(wbatch) : wbatch[i] \in Value
  <2>1. items \in Seq(Value) /\ wbatch \in Seq(Value)
    BY DEF TypeOK, QueuesOK
  <2> QED
    BY <2>1, ElementOfSeq
<1> DEFINE Then(s) == /\ s \in Session /\ cmdr'[s] # "none"
                      /\ \A j \in Session : j < s => cmdr'[j] = "gone"
<1>1. \A v \in Value : v.s \in Session
  BY DEF Value
<1>2. \A s : Opened(s) => Then(s) /\ cmdr'[s] # "none"
  BY OpenedNext, Zenon DEF Opened
<1> HIDE DEF Then
<1>3. \A i \in 1..Len(<<>>) : FALSE
  BY EmptySeq
<1>4. \A i \in 1..Len(items') : Then(items'[i].s)
  <2>1. CASE items' = items
    BY <1>2, <2>1, Zenon DEF SourcesOK
  <2>2. CASE items' = <<>>
    BY <1>3, <2>2, Zenon
  <2>3. ASSUME NEW k \in Session, NEW key \in Keys \cup {Event}, ReceiveValue(k, key)
        PROVE  \A i \in 1..Len(items') : Then(items'[i].s)
    <3> DEFINE v == [n |-> parsed + 1, s |-> k, key |-> key]
    <3>1. items' = Append(items, v) /\ Opened(k)
      BY <2>3, Zenon DEF ReceiveValue, Runs, Opened
    <3>2. v \in Value /\ v.s = k
      BY DEF Value, TypeOK, QueuesOK
    <3> HIDE DEF v
    <3>3. /\ Len(items') = Len(items) + 1 /\ Len(items) \in Nat
          /\ \A i \in 1..Len(items) : items'[i] = items[i]
          /\ items'[Len(items) + 1] = v
      BY <1>0, <3>1, <3>2, AppendProperties, LenProperties
    <3>4. \A i \in 1..Len(items') : i \in 1..Len(items) \/ i = Len(items) + 1
      BY <3>3
    <3> QED
      BY <1>2, <3>1, <3>2, <3>3, <3>4, Zenon DEF SourcesOK
  <2> QED
    BY <2>1, <2>2, <2>3, ItemsMove, Zenon
<1>5. \A i \in 1..Len(wbatch') : cmdr'[wbatch'[i].s] # "none"
  <2>1. \A i \in 1..Len(wbatch) : cmdr'[wbatch[i].s] # "none"
    BY <1>0, <1>1, OpenedNext, Zenon DEF SourcesOK
  <2>2. CASE wbatch' = wbatch
    BY <2>1, <2>2, Zenon
  <2>3. CASE wbatch' = <<>>
    BY <1>3, <2>3, Zenon
  <2>4. CASE wbatch' = items
    BY <1>2, <2>4, Zenon DEF SourcesOK
  <2>5. CASE wbatch # <<>> /\ wbatch' = Tail(wbatch)
    <3>1. /\ Len(wbatch) \in Nat /\ Len(wbatch') = Len(wbatch) - 1
          /\ \A i \in 1..Len(wbatch') : wbatch'[i] = wbatch[i + 1]
      BY <1>0, <2>5, HeadTailProperties, LenProperties
    <3>2. \A i \in 1..Len(wbatch') : i + 1 \in 1..Len(wbatch)
      BY <3>1
    <3> QED
      BY <2>1, <3>1, <3>2, Zenon
  <2> QED
    BY <2>2, <2>3, <2>4, <2>5, BatchMoves, Zenon
<1> QED
  BY <1>4, <1>5, Zenon DEF SourcesOK, Opened, Then

\* A worker at the router's door came from the connection of the session it
\* names, and holds its batch until it is let in or turned away.
LEMMA AtTheDoor ==
  [Next]_vars /\ worker' = "enter"
     => \/ worker = "enter" /\ wbatch' = wbatch /\ wsession' = wsession
        \/ conn # 0 /\ wsession' = conn /\ UNCHANGED <<qsession, guiVars>>
<1> SUFFICES ASSUME [Next]_vars, worker' = "enter"
             PROVE  \/ worker = "enter" /\ wbatch' = wbatch /\ wsession' = wsession
                    \/ conn # 0 /\ wsession' = conn /\ UNCHANGED <<qsession, guiVars>>
  OBVIOUS
<1> USE DEF queueVars, workerVars, routerVars, sinkVars, guiVars, counters
<1>1. ASSUME NEW k \in Session, Radio(k) PROVE UNCHANGED workerVars
  BY <1>1, Zenon DEF Radio, ReceiveValue, AddCommand, CommanderCloses, CommanderDeleted
<1>2. ASSUME NEW woke, Turn(woke) PROVE worker' # "enter"
  BY <1>2, Zenon DEF Turn
<1>3. CASE WorkerRuns \/ IntervalExpires
  BY <1>2, <1>3, Zenon DEF WorkerRuns, IntervalExpires
<1>4. ASSUME NEW t, Notify(t) PROVE UNCHANGED workerVars
  BY <1>2, <1>4, Zenon DEF Notify
<1>5. CASE Emit
  BY <1>5, Zenon DEF Emit
<1>6. CASE Enter \/ EnqueueValue \/ EnqueueEnds
  BY <1>6, Zenon DEF Enter, EnqueueValue, EnqueueEnds
<1>7. ASSUME NEW s, Drain(s) PROVE UNCHANGED workerVars
  BY <1>7, Zenon DEF Drain
<1>8. CASE NotifyRoom \/ RouteValue \/ UNCHANGED vars
  BY <1>8, Zenon DEF NotifyRoom, RouteValue, vars
<1>9. CASE Gui
  BY <1>9, Zenon DEF Gui, BeginSession, ConnectQueue, Deactivate, CancelSession, Disconnected,
                     StopWorker, Released
<1> QED
  BY <1>1, <1>3, <1>4, <1>5, <1>6, <1>7, <1>8, <1>9, Zenon DEF Next, Worker

LEMMA StrangersNext ==
  TypeOK /\ SessionOK /\ CommandersOK /\ SourcesOK /\ StrangersOnly /\ [Next]_vars
      => StrangersOnly'
<1> SUFFICES ASSUME TypeOK, SessionOK, CommandersOK, SourcesOK, StrangersOnly, [Next]_vars,
                    worker' = "enter", wsession' # qsession', gui' = "up"
             PROVE  \A i \in 1..Len(wbatch') : wbatch'[i].s # sessions'
  BY DEF StrangersOnly
<1>1. CASE conn # 0 /\ wsession' = conn /\ UNCHANGED <<qsession, guiVars>>
  BY <1>1, Zenon DEF SessionOK
<1>2. CASE worker = "enter" /\ wbatch' = wbatch /\ wsession' = wsession
  <2>1. CASE gui = "up"
    <3>1. UNCHANGED <<qsession, sessions>>
      BY <2>1, SteadyGui, Zenon DEF guiVars, routerVars, CommanderCloses, CommanderDeleted, BeginSession,
         ConnectQueue, Deactivate, CancelSession, Disconnected
    <3> QED
      BY <1>2, <2>1, <3>1, Zenon DEF StrangersOnly
  <2>2. CASE gui # "up"
    <3>1. gui = "begun" /\ sessions' = sessions
      BY <2>2, SteadyGui, Zenon DEF guiVars, CommanderCloses, CommanderDeleted, BeginSession,
         ConnectQueue, Deactivate, CancelSession, Disconnected
    <3> QED
      BY <1>2, <3>1, Zenon DEF SourcesOK, CommandersOK
  <2> QED
    BY <2>1, <2>2
<1> QED
  BY <1>1, <1>2, AtTheDoor, Zenon

LEMMA WaitNext == TypeOK /\ SessionOK /\ WaitInv /\ [Next]_vars => WaitInv'
BY TakenNext, CommandersNext, SourcesNext, StrangersNext, Zenon DEF WaitInv

LEMMA WaitInit == Init => WaitInv
<1> SUFFICES ASSUME Init PROVE WaitInv
  OBVIOUS
<1>1. BatchTaken /\ StrangersOnly
  BY Zenon DEF Init, BatchTaken, StrangersOnly
<1>2. CommandersOK
  BY Zenon DEF Init, CommandersOK
<1>3. \A i \in 1..Len(<<>>) : FALSE
  BY EmptySeq
<1> QED
  BY <1>1, <1>2, <1>3, Zenon DEF WaitInv, SourcesOK, Init

-----------------------------------------------------------------------------
(* The four queues as one sequence.                                        *)

\* The first element put back before the rest.
LEMMA HeadThenTail ==
  ASSUME NEW S, NEW q \in Seq(S), q # <<>>
  PROVE  <<Head(q)>> \o Tail(q) = q /\ <<Head(q)>> \in Seq(S)
<1>1. Len(q) \in Nat \ {0} /\ Head(q) \in S /\ Head(q) = q[1]
  BY EmptySeq, LenProperties, HeadTailProperties
<1>2. Tail(q) = SubSeq(q, 2, Len(q))
  BY TailIsSubSeq
<1>3. SubSeq(q, 1, Len(q)) = <<q[1]>> \o SubSeq(q, 1 + 1, Len(q))
  BY <1>1, SubSeqRecursiveFirst
<1>4. SubSeq(q, 1, Len(q)) = q
  BY SubSeqFull
<1>5. 1 + 1 = 2
  OBVIOUS
<1>6. <<Head(q)>> \in Seq(S)
  BY <1>1
<1> QED
  BY <1>1, <1>2, <1>3, <1>4, <1>5, <1>6, Zenon

\* The first element of a sequence, and what follows it.
LEMMA FirstOfConcat ==
  ASSUME NEW S, NEW h \in S, NEW q \in Seq(S)
  PROVE  <<h>> \o q # <<>> /\ Head(<<h>> \o q) = h /\ Tail(<<h>> \o q) = q
<1> DEFINE c == <<h>> \o q
<1>1. <<h>> \in Seq(S) /\ Len(<<h>>) = 1 /\ <<h>>[1] = h /\ Len(q) \in Nat
  BY LenProperties
<1>2. /\ c \in Seq(S) /\ Len(c) = 1 + Len(q)
      /\ \A k \in 1..(1 + Len(q)) : c[k] = IF k <= 1 THEN <<h>>[k] ELSE q[k - 1]
  <2>1. /\ c \in Seq(S) /\ Len(c) = Len(<<h>>) + Len(q)
        /\ \A k \in 1..(Len(<<h>>) + Len(q)) :
              c[k] = IF k <= Len(<<h>>) THEN <<h>>[k] ELSE q[k - Len(<<h>>)]
    BY <1>1, ConcatProperties, Zenon
  <2> QED
    BY <1>1, <2>1
<1> HIDE DEF c
<1>3. c # <<>>
  BY <1>1, <1>2, EmptySeq
<1>4. Head(c) = c[1] /\ c[1] = h
  BY <1>1, <1>2, <1>3, HeadTailProperties
<1>5. /\ Tail(c) \in Seq(S) /\ Len(Tail(c)) = Len(c) - 1
      /\ \A k \in 1..Len(Tail(c)) : Tail(c)[k] = c[k + 1]
  BY <1>2, <1>3, HeadTailProperties
<1>6. Tail(c) = q
  <2>1. Len(Tail(c)) = Len(q)
    BY <1>1, <1>2, <1>5
  <2>2. \A k \in 1..Len(q) : /\ k + 1 \in 1..(1 + Len(q)) /\ ~(k + 1 <= 1) /\ (k + 1) - 1 = k
    BY <1>1
  <2>3. \A k \in 1..Len(q) : c[k + 1] = q[(k + 1) - 1]
    BY <1>2, <2>2, Zenon
  <2>4. \A k \in 1..Len(Tail(c)) : Tail(c)[k] = q[k]
    BY <1>5, <2>1, <2>2, <2>3, Zenon
  <2> QED
    BY <1>5, <2>1, <2>4, SeqEqual
<1> QED
  BY <1>3, <1>4, <1>6, Zenon DEF c

\* The ways in which four sequences in a row can be put together.
LEMMA FourParts ==
  ASSUME NEW S, NEW a \in Seq(S), NEW b \in Seq(S), NEW c \in Seq(S), NEW d \in Seq(S)
  PROVE  /\ a \o b \in Seq(S) /\ b \o c \in Seq(S) /\ c \o d \in Seq(S)
         /\ a \o b \o c \in Seq(S) /\ b \o c \o d \in Seq(S) /\ a \o b \o c \o d \in Seq(S)
         /\ a \o b \o c \o d = (a \o b) \o (c \o d)
         /\ a \o b \o c \o d = a \o (b \o c) \o d
<1>1. a \o b \in Seq(S) /\ b \o c \in Seq(S) /\ c \o d \in Seq(S)
  BY ConcatProperties
<1>2. a \o b \o c \in Seq(S) /\ b \o c \o d \in Seq(S)
  BY <1>1, ConcatProperties
<1>3. a \o b \o c \o d \in Seq(S)
  BY <1>2, ConcatProperties
<1>4. a \o b \o c = a \o (b \o c)
  BY ConcatAssociative, SMTT(20)
<1>5. a \o b \o c \o d = (a \o b) \o (c \o d)
  BY <1>1, ConcatAssociative, SMTT(20)
<1> QED
  BY <1>1, <1>2, <1>3, <1>4, <1>5, Zenon

\* q with v written over its i-th element.
Written(q, i, v) == [q EXCEPT ![i] = v]
SameWritten(a, b, i, v) == Written(a \o b, Len(a) + i, v) = a \o Written(b, i, v)

\* Changing an element of the second of two sequences.
LEMMA ExceptInConcat ==
  ASSUME NEW S, NEW a \in Seq(S), NEW b \in Seq(S), NEW i \in 1..Len(b), NEW v \in S
  PROVE  SameWritten(a, b, i, v)
<1> DEFINE c == a \o b
           e == [b EXCEPT ![i] = v]
           f == [c EXCEPT ![Len(a) + i] = v]
           g == a \o e
<1>1. Len(a) \in Nat /\ Len(b) \in Nat
  BY LenProperties
<1>2. /\ c \in Seq(S) /\ Len(c) = Len(a) + Len(b)
      /\ \A k \in 1..(Len(a) + Len(b)) : c[k] = IF k <= Len(a) THEN a[k] ELSE b[k - Len(a)]
  BY ConcatProperties
<1>3. /\ e \in Seq(S) /\ Len(e) = Len(b)
      /\ \A k \in 1..Len(b) : e[k] = IF k = i THEN v ELSE b[k]
  BY ExceptSeq
<1> HIDE DEF c, e
<1>4. /\ f \in Seq(S) /\ Len(f) = Len(c)
      /\ \A k \in 1..Len(c) : f[k] = IF k = Len(a) + i THEN v ELSE c[k]
  <2>1. Len(a) + i \in 1..Len(c)
    BY <1>1, <1>2
  <2>2. \A n \in 1..Len(c) :
           /\ [c EXCEPT ![n] = v] \in Seq(S) /\ Len([c EXCEPT ![n] = v]) = Len(c)
           /\ \A k \in 1..Len(c) : [c EXCEPT ![n] = v][k] = IF k = n THEN v ELSE c[k]
    BY <1>2, ExceptSeq
  <2> QED
    BY <2>1, <2>2, Zenon
<1>5. /\ g \in Seq(S) /\ Len(g) = Len(a) + Len(e)
      /\ \A k \in 1..(Len(a) + Len(e)) : g[k] = IF k <= Len(a) THEN a[k] ELSE e[k - Len(a)]
  BY <1>3, ConcatProperties
<1> HIDE DEF f, g
<1>6. ASSUME NEW k \in 1..Len(f) PROVE f[k] = g[k]
  <2>1. k \in 1..Len(c) /\ k \in 1..(Len(a) + Len(b)) /\ k \in 1..(Len(a) + Len(e))
    BY <1>2, <1>3, <1>4
  <2>2. CASE k <= Len(a)
    <3>1. k # Len(a) + i
      BY <1>1, <2>2
    <3> QED
      BY <1>2, <1>4, <1>5, <2>1, <2>2, <3>1, Zenon
  <2>3. CASE ~(k <= Len(a))
    <3>1. k - Len(a) \in 1..Len(b) /\ (k = Len(a) + i <=> k - Len(a) = i)
      BY <1>1, <2>1, <2>3
    <3> QED
      BY <1>2, <1>3, <1>4, <1>5, <2>1, <2>3, <3>1, Zenon
  <2> QED
    BY <2>2, <2>3
<1>7. f = g
  BY <1>2, <1>3, <1>4, <1>5, <1>6, SeqEqual
<1> QED
  BY <1>7, Zenon DEF f, g, c, e, Written, SameWritten

-----------------------------------------------------------------------------
(* Every step of the pipeline is one of ValueDelivery, or none.            *)

LEMMA QueueTypes ==
  ASSUME TypeOK
  PROVE  /\ batch \in Seq(Value) /\ pending \in Seq(Value) /\ wbatch \in Seq(Value)
         /\ items \in Seq(Value) /\ <<>> \in Seq(Value) /\ Waits \in Seq(Value)
         /\ parsed \in Nat /\ sessions \in Nat
<1>1. /\ batch \in Seq(Value) /\ pending \in Seq(Value) /\ wbatch \in Seq(Value)
      /\ items \in Seq(Value) /\ <<>> \in Seq(Value)
  BY EmptySeq DEF TypeOK, QueuesOK
<1>2. Waits \in Seq(Value)
  BY <1>1, FourParts, Zenon DEF Waits
<1>3. parsed \in Nat /\ sessions \in Nat
  BY PipelineAssumption DEF TypeOK, QueuesOK, PipelineAssumption
<1> QED
  BY <1>1, <1>2, <1>3, Zenon

\* The two ways in which they are put together below.
LEMMA Regrouped ==
  ASSUME TypeOK
  PROVE  /\ batch \o pending \in Seq(Value) /\ wbatch \o items \in Seq(Value)
         /\ pending \o wbatch \in Seq(Value)
         /\ Waits = (batch \o pending) \o (wbatch \o items)
         /\ Waits = batch \o (pending \o wbatch) \o items
<1>1. /\ batch \in Seq(Value) /\ pending \in Seq(Value) /\ wbatch \in Seq(Value)
      /\ items \in Seq(Value)
  BY QueueTypes
<1>2. /\ batch \o pending \in Seq(Value) /\ wbatch \o items \in Seq(Value)
      /\ pending \o wbatch \in Seq(Value)
  BY <1>1, ConcatProperties
<1>3. batch \o pending \o wbatch \o items = (batch \o pending) \o (wbatch \o items)
  BY <1>1, <1>2, ConcatAssociative, SMTT(20)
<1>4. batch \o pending \o wbatch = batch \o (pending \o wbatch)
  BY <1>1, ConcatAssociative, SMTT(20)
<1> QED
  BY <1>2, <1>3, <1>4, Zenon DEF Waits

\* A step that moves no value past another and ends or opens no connection.
LEMMA SameWaits ==
  ASSUME UNCHANGED <<parsed, routed>>, Waits' = Waits, Live' = Live
  PROVE  UNCHANGED Delivery!vars
BY Zenon DEF Delivery!vars, Waits, Live

\* The part m of the waiting values, none of the connected session, is dropped.
LEMMA DropStep ==
  ASSUME UNCHANGED <<parsed, routed>>, Live' = Live,
         NEW p \in Seq(Value), NEW m \in Seq(Value), NEW r \in Seq(Value),
         Waits = p \o m \o r, Waits' = p \o r, \A x \in 1..Len(m) : m[x].s # Live
  PROVE  Delivery!Drop \/ UNCHANGED Delivery!vars
<1>1. CASE m = <<>>
  <2>1. Waits' = Waits
    BY <1>1, ConcatEmptySeq
  <2> QED
    BY <2>1, SameWaits, Zenon
<1>2. CASE m # <<>>
  <2>1. PartOf(m, p \o m \o r, p \o r)
    BY <1>2, MiddleCut, Zenon
  <2>2. PartOf(m, Waits, Waits')
    BY <2>1, Zenon
  <2> DEFINE w == Waits
             u == Waits'
  <2>3. \E i, j \in DOMAIN w :
           /\ i <= j /\ \A k \in i..j : w[k].s # Live
           /\ u = Cut(w, i, j)
    <3>1. PartOf(m, w, u)
      BY <2>2
    <3> HIDE DEF w, u
    <3> QED
      BY <3>1, Zenon DEF PartOf
  <2> QED
    BY <2>3, Zenon DEF Delivery!Drop, Cut, Waits, Live
<1> QED
  BY <1>1, <1>2

\* Values are of sessions that were opened, never of session 0.
LEMMA NotOfNone == \A v \in Value : v.s # 0 /\ v \in Delivery!Values
BY PipelineAssumption DEF Value, Session, Delivery!Values, PipelineAssumption

LEMMA ParseStep ==
  ASSUME TypeOK, NEW k \in Session, NEW key \in Keys \cup {Event}, ReceiveValue(k, key)
  PROVE  Delivery!Parse
<1> DEFINE v == [n |-> parsed + 1, s |-> k, key |-> key]
           x == batch \o pending \o wbatch
<1>1. /\ items' = Append(items, v) /\ parsed' = parsed + 1
      /\ UNCHANGED <<batch, pending, wbatch, routed, gui, sessions>>
  BY Zenon DEF ReceiveValue, workerVars, routerVars, sinkVars, guiVars
<1>2. v \in Value /\ v.n = parsed + 1
  BY QueueTypes DEF Value
<1> HIDE DEF v
<1>3. x \in Seq(Value) /\ items \in Seq(Value)
  BY QueueTypes, FourParts, Zenon
<1>4. Waits = x \o items /\ Waits' = x \o Append(items, v)
  BY <1>1, Zenon DEF Waits
<1> HIDE DEF x
<1>5. x \o Append(items, v) = Append(x \o items, v)
  <2>1. Append(items, v) = items \o <<v>> /\ <<v>> \in Seq(Value)
    BY <1>2, <1>3, AppendIsConcat
  <2>2. x \o items \in Seq(Value)
    BY <1>3, ConcatProperties
  <2>3. Append(x \o items, v) = (x \o items) \o <<v>>
    BY <1>2, <2>2, AppendIsConcat
  <2>4. x \o (items \o <<v>>) = (x \o items) \o <<v>>
    BY <1>3, <2>1, ConcatAssociative, SMTT(20)
  <2> QED
    BY <2>1, <2>3, <2>4, Zenon
<1>6. /\ Waits' = Append(Waits, v) /\ Len(Waits') = Len(Waits) + 1
      /\ Waits'[Len(Waits) + 1] = v
  <2>1. Waits \in Seq(Value)
    BY QueueTypes
  <2>2. Waits' = Append(Waits, v)
    BY <1>4, <1>5, Zenon
  <2> QED
    BY <1>2, <2>1, <2>2, AppendProperties
<1>7. /\ parsed' = parsed + 1 /\ Len(Waits') = Len(Waits) + 1
      /\ Waits'[Len(Waits) + 1] \in Delivery!Values /\ Waits'[Len(Waits) + 1].n = parsed'
      /\ Waits' = Append(Waits, Waits'[Len(Waits) + 1])
      /\ routed' = routed /\ Live' = Live
  BY <1>1, <1>2, <1>6, NotOfNone, Zenon DEF Live
<1> QED
  BY <1>7, Zenon DEF Delivery!Parse, Waits, Live

LEMMA RouteStep == TypeOK /\ RouteValue => Delivery!Route
<1> SUFFICES ASSUME TypeOK, RouteValue PROVE Delivery!Route
  OBVIOUS
<1> DEFINE x == pending \o wbatch
           y == x \o items
           h == Head(batch)
           t == Tail(batch)
<1>1. /\ batch # <<>> /\ routed' = Append(routed, h) /\ batch' = t
      /\ UNCHANGED <<parsed, pending, wbatch, items, gui, sessions>>
  BY Zenon DEF RouteValue, queueVars, workerVars, routerVars, guiVars, counters
<1>2. h \in Value /\ t \in Seq(Value) /\ <<h>> \o t = batch /\ <<h>> \in Seq(Value)
  <2>1. h \in Value /\ t \in Seq(Value)
    BY <1>1, QueueTypes, HeadTailProperties
  <2>2. <<h>> \o t = batch /\ <<h>> \in Seq(Value)
    BY <1>1, QueueTypes, HeadThenTail
  <2> QED
    BY <2>1, <2>2
<1> HIDE DEF h, t
<1>3. y \in Seq(Value) /\ Waits = batch \o y /\ Waits' = t \o y
  <2>1. x \in Seq(Value) /\ items \in Seq(Value)
    BY QueueTypes, ConcatProperties
  <2>2. ASSUME NEW q \in Seq(Value) PROVE q \o pending \o wbatch = q \o x
    <3>1. pending \in Seq(Value) /\ wbatch \in Seq(Value)
      BY QueueTypes
    <3> QED
      BY <3>1, ConcatAssociative, SMTT(20)
  <2> HIDE DEF x
  <2>3. y \in Seq(Value) /\ \A q \in Seq(Value) : q \o x \o items = q \o y
    BY <2>1, ConcatProperties, ConcatAssociative, SMTT(20)
  <2>4. \A q \in Seq(Value) : q \o pending \o wbatch \o items = q \o y
    BY <2>2, <2>3, Zenon
  <2> QED
    BY <1>1, <1>2, <2>3, <2>4, QueueTypes, Zenon DEF Waits
<1> HIDE DEF y
<1>4. Waits = <<h>> \o (t \o y) /\ t \o y \in Seq(Value)
  <2>1. t \o y \in Seq(Value)
    BY <1>2, <1>3, ConcatProperties
  <2>2. (<<h>> \o t) \o y = <<h>> \o (t \o y)
    BY <1>2, <1>3, ConcatAssociative, SMTT(20)
  <2> QED
    BY <1>2, <1>3, <2>1, <2>2, Zenon
<1>5. Waits # <<>> /\ Head(Waits) = h /\ Tail(Waits) = t \o y
  BY <1>2, <1>4, FirstOfConcat, Zenon
<1>6. /\ Waits # <<>> /\ routed' = Append(routed, Head(Waits)) /\ Waits' = Tail(Waits)
      /\ parsed' = parsed /\ Live' = Live
  BY <1>1, <1>3, <1>5, Zenon DEF Live
<1> QED
  BY <1>6, Zenon DEF Delivery!Route, Waits, Live

\* The queue's thread takes the values: they wait in wbatch instead of items.
LEMMA TakenTogether ==
  ASSUME TypeOK, wbatch = <<>>, wbatch' = items, items' = <<>>, UNCHANGED <<batch, pending>>
  PROVE  Waits' = Waits
<1> DEFINE x == batch \o pending
<1>1. x \in Seq(Value) /\ items \in Seq(Value)
  BY QueueTypes, ConcatProperties
<1>2. Waits = x \o <<>> \o items /\ Waits' = x \o items \o <<>>
  BY Zenon DEF Waits
<1> HIDE DEF x
<1>3. x \o <<>> = x /\ x \o items \in Seq(Value)
  BY <1>1, ConcatEmptySeq, ConcatProperties
<1>4. x \o items \o <<>> = x \o items
  BY <1>3, ConcatEmptySeq
<1> QED
  BY <1>2, <1>3, <1>4, Zenon

\* A drain takes the pending values: they wait in batch instead.
LEMMA DrainedTogether ==
  ASSUME TypeOK, batch = <<>>, batch' = pending, pending' = <<>>, UNCHANGED <<wbatch, items>>
  PROVE  Waits' = Waits
<1>1. pending \in Seq(Value)
  BY QueueTypes
<1>2. <<>> \o pending = pending \o <<>>
  BY <1>1, ConcatEmptySeq
<1> QED
  BY <1>2, Zenon DEF Waits

\* A value is added to the pending ones: it is still behind the older ones.
LEMMA EnqueuedInOrder ==
  ASSUME TypeOK, wbatch # <<>>, pending' = Append(pending, Head(wbatch)),
         wbatch' = Tail(wbatch), UNCHANGED <<batch, items>>
  PROVE  Waits' = Waits
<1> DEFINE h == Head(wbatch)
           t == Tail(wbatch)
           x == batch \o pending
<1>0. batch \in Seq(Value) /\ pending \in Seq(Value) /\ wbatch \in Seq(Value)
  BY QueueTypes
<1>1. h \in Value /\ t \in Seq(Value) /\ <<h>> \o t = wbatch /\ <<h>> \in Seq(Value)
  BY <1>0, HeadTailProperties, HeadThenTail
<1>2. Waits' = batch \o Append(pending, h) \o t \o items /\ Waits = x \o wbatch \o items
  BY Zenon DEF Waits
<1> HIDE DEF h, t
<1>3. Append(pending, h) = pending \o <<h>>
  BY <1>0, <1>1, AppendIsConcat
<1>4. batch \o (pending \o <<h>>) = x \o <<h>> /\ x \in Seq(Value)
  BY <1>0, <1>1, ConcatAssociative, ConcatProperties
<1> HIDE DEF x
<1>5. x \o <<h>> \o t = x \o (<<h>> \o t)
  BY <1>1, <1>4, ConcatAssociative, SMTT(20)
<1> QED
  BY <1>1, <1>2, <1>3, <1>4, <1>5, Zenon

\* Values of another session than the connected one, and those of any session
\* while none is connected.
LEMMA AllStrangers ==
  ASSUME NEW q \in Seq(Value), Live = 0
  PROVE  \A x \in 1..Len(q) : q[x].s # Live
BY ElementOfSeq, NotOfNone

LEMMA BatchDropped ==
  ASSUME TypeOK, wbatch' = <<>>, UNCHANGED <<batch, pending, items, parsed, routed>>,
         Live' = Live, \A i \in 1..Len(wbatch) : wbatch[i].s # Live
  PROVE  Delivery!Drop \/ UNCHANGED Delivery!vars
<1> DEFINE x == batch \o pending
<1>1. x \in Seq(Value) /\ wbatch \in Seq(Value) /\ items \in Seq(Value)
  BY QueueTypes, ConcatProperties
<1>2. Waits = x \o wbatch \o items /\ Waits' = x \o <<>> \o items
  BY Zenon DEF Waits
<1> HIDE DEF x
<1>3. x \o <<>> = x
  BY <1>1, ConcatEmptySeq
<1>4. Waits' = x \o items
  BY <1>2, <1>3, Zenon
<1> QED
  BY <1>1, <1>2, <1>4, DropStep, Zenon

LEMMA ItemsDropped ==
  ASSUME TypeOK, items' = <<>>, UNCHANGED <<batch, pending, wbatch, parsed, routed>>,
         Live' = Live, \A i \in 1..Len(items) : items[i].s # Live
  PROVE  Delivery!Drop \/ UNCHANGED Delivery!vars
<1> DEFINE x == batch \o pending \o wbatch
<1>1. x \in Seq(Value) /\ items \in Seq(Value) /\ <<>> \in Seq(Value)
  BY QueueTypes, FourParts, Zenon
<1>2. Waits = x \o items /\ Waits' = x \o <<>>
  BY Zenon DEF Waits
<1> HIDE DEF x
<1>3. x \o items \o <<>> = x \o items
  <2>1. x \o items \in Seq(Value)
    BY <1>1, ConcatProperties
  <2> QED
    BY <2>1, ConcatEmptySeq
<1>4. Waits = x \o items \o <<>>
  BY <1>2, <1>3, Zenon
<1> QED
  BY <1>1, <1>2, <1>4, DropStep, Zenon

\* A new session of the router: its pending values are dropped, and the batch of
\* a thread that waits for room.
LEMMA SessionDrops ==
  ASSUME TypeOK, NewQueueSession, Released, UNCHANGED <<batch, items, parsed, routed>>,
         Live = 0, Live' = 0
  PROVE  Delivery!Drop \/ UNCHANGED Delivery!vars
<1>0. /\ batch \in Seq(Value) /\ pending \in Seq(Value) /\ wbatch \in Seq(Value)
      /\ items \in Seq(Value) /\ pending' = <<>>
  BY QueueTypes, Zenon DEF NewQueueSession
<1>1. CASE wbatch' = wbatch
  <2> DEFINE r == wbatch \o items
  <2>1. r \in Seq(Value) /\ Waits = (batch \o pending) \o r
    BY Regrouped, Zenon
  <2>2. Waits' = batch \o <<>> \o wbatch \o items /\ batch \o <<>> = batch
    <3>1. batch \o <<>> = batch
      BY <1>0, ConcatEmptySeq
    <3> QED
      BY <1>0, <1>1, <3>1, Zenon DEF Waits
  <2>3. batch \o wbatch \o items = batch \o r
    BY <1>0, ConcatAssociative, SMTT(20)
  <2>4. Waits' = batch \o r
    BY <2>2, <2>3, Zenon
  <2>5. \A x \in 1..Len(pending) : pending[x].s # Live
    BY <1>0, AllStrangers, Zenon
  <2> HIDE DEF r
  <2> QED
    BY <1>0, <2>1, <2>4, <2>5, DropStep, Zenon
<1>2. CASE wbatch' = <<>>
  <2> DEFINE m == pending \o wbatch
  <2>1. m \in Seq(Value) /\ Waits = batch \o m \o items
    BY Regrouped, Zenon
  <2>2. batch \o <<>> = batch
    BY <1>0, ConcatEmptySeq
  <2>3. Waits' = batch \o items
    BY <1>0, <1>2, <2>2, Zenon DEF Waits
  <2> HIDE DEF m
  <2>4. \A x \in 1..Len(m) : m[x].s # Live
    BY <2>1, AllStrangers, Zenon
  <2> QED
    BY <1>0, <2>1, <2>3, <2>4, DropStep, Zenon
<1> QED
  BY <1>1, <1>2, Zenon DEF Released

\* A value written over the newest older one of its kind.
LEMMA SupersedeStep ==
  ASSUME TypeOK, wbatch # <<>>, NEW i \in Replaceable(Head(wbatch)),
         pending' = [pending EXCEPT ![i] = Head(wbatch)], wbatch' = Tail(wbatch),
         UNCHANGED <<batch, items, parsed, routed>>, Live' = Live
  PROVE  Delivery!Next
<1> DEFINE h == Head(wbatch)
           t == Tail(wbatch)
           x == batch \o pending
           r == wbatch \o items
           n == Len(batch)
<1>0. /\ batch \in Seq(Value) /\ pending \in Seq(Value) /\ wbatch \in Seq(Value)
      /\ items \in Seq(Value) /\ Len(batch) \in Nat /\ Len(pending) \in Nat
      /\ DOMAIN pending = 1..Len(pending)
  BY QueueTypes, LenProperties
<1>1. /\ i \in 1..Len(pending) /\ h.key # Event /\ pending[i].key = h.key
      /\ \A j \in (i + 1)..Len(pending) : pending[j].key # Event /\ pending[j].key # h.key
  BY <1>0, Zenon DEF Replaceable
<1>2. h \in Value /\ t \in Seq(Value) /\ <<h>> \o t = wbatch /\ <<h>> \in Seq(Value)
  BY <1>0, HeadTailProperties, HeadThenTail
<1>3. x \in Seq(Value) /\ r \in Seq(Value) /\ Waits = x \o r
  BY Regrouped, Zenon
<1>4. [x EXCEPT ![n + i] = h] = batch \o [pending EXCEPT ![i] = h]
  <2>1. SameWritten(batch, pending, i, h)
    BY <1>0, <1>1, <1>2, ExceptInConcat, Zenon
  <2> QED
    BY <2>1, Zenon DEF SameWritten, Written
<1>5. Waits' = (batch \o [pending EXCEPT ![i] = h]) \o (t \o items)
  <2>1. [pending EXCEPT ![i] = h] \in Seq(Value)
    BY <1>0, <1>1, <1>2, ExceptSeq
  <2> DEFINE e == [pending EXCEPT ![i] = h]
  <2>2. Waits' = batch \o e \o t \o items
    BY Zenon DEF Waits
  <2> HIDE DEF e, t
  <2>3. batch \o e \o t \o items = (batch \o e) \o (t \o items)
    <3> DEFINE y == batch \o e
    <3>1. y \in Seq(Value)
      BY <1>0, <2>1, ConcatProperties DEF e
    <3> HIDE DEF y
    <3>2. t \in Seq(Value) /\ items \in Seq(Value)
      BY <1>0, <1>2
    <3>3. y \o t \o items = y \o (t \o items)
      BY <3>1, <3>2, ConcatAssociative, SMTT(20)
    <3> QED
      BY <3>3 DEF y
  <2> QED
    BY <2>2, <2>3, Zenon DEF e
<1>6. r # <<>> /\ Head(r) = h /\ Tail(r) = t \o items
  <2> HIDE DEF h, t
  <2>1. t \o items \in Seq(Value)
    BY <1>0, <1>2, ConcatProperties
  <2>2. r = <<h>> \o (t \o items)
    <3>1. (<<h>> \o t) \o items = <<h>> \o (t \o items)
      BY <1>0, <1>2, ConcatAssociative, SMTT(20)
    <3> QED
      BY <1>2, <3>1, Zenon
  <2> QED
    BY <1>2, <2>1, <2>2, FirstOfConcat, Zenon
<1>7. /\ Len(x) = n + Len(pending)
      /\ \A k \in 1..(n + Len(pending)) : x[k] = IF k <= n THEN batch[k] ELSE pending[k - n]
  BY <1>0, ConcatProperties
<1> HIDE DEF h, t, x, r
<1> DEFINE I == n + i
           J == Len(x) + 1
<1>8. I \in 1..Len(x) /\ I \in Nat /\ J \in Nat /\ I < J
  BY <1>0, <1>1, <1>7
<1>9. /\ Waits' = Overwritten(Waits, I, J)
      /\ J \in 1..Len(Waits) /\ Len(Waits) = Len(x) + Len(r)
      /\ Waits[J] = h /\ \A k \in 1..Len(x) : Waits[k] = x[k]
  <2> HIDE DEF I
  <2>1. /\ [x EXCEPT ![I] = Head(r)] \o Tail(r) = Overwritten(x \o r, I, Len(x) + 1)
        /\ Len(x) + 1 \in 1..Len(x \o r) /\ Len(x \o r) = Len(x) + Len(r)
        /\ (x \o r)[Len(x) + 1] = Head(r) /\ \A k \in 1..Len(x) : (x \o r)[k] = x[k]
    BY <1>3, <1>6, <1>8, HeadOverwrites
  <2>2. Waits' = [x EXCEPT ![I] = Head(r)] \o Tail(r)
    BY <1>4, <1>5, <1>6, Zenon DEF I
  <2> QED
    BY <1>3, <1>6, <2>1, <2>2, Zenon
<1>10. Waits[I] = pending[i]
  <2>1. I <= n + Len(pending) /\ I \in 1..(n + Len(pending)) /\ ~(I <= n) /\ I - n = i
    BY <1>0, <1>1
  <2> QED
    BY <1>7, <1>8, <1>9, <2>1, Zenon
<1>11. ASSUME NEW k \in (I + 1)..(J - 1)
       PROVE  Waits[k].key # Event /\ Waits[k].key # h.key
  <2>1. /\ k \in 1..Len(x) /\ k \in 1..(n + Len(pending)) /\ ~(k <= n)
        /\ k - n \in (i + 1)..Len(pending)
    BY <1>0, <1>1, <1>7
  <2>2. Waits[k] = pending[k - n]
    BY <1>7, <1>9, <2>1, Zenon
  <2> QED
    BY <1>1, <2>1, <2>2, Zenon
<1>12. \A k \in I..J : k = I \/ k = J \/ k \in (I + 1)..(J - 1)
  BY <1>8
<1>13. /\ I < J /\ Waits[I].key = Waits[J].key
       /\ \A k \in I..J : Waits[k].key # Event
       /\ \A k \in (I + 1)..(J - 1) : Waits[k].key # Waits[I].key
  BY <1>1, <1>8, <1>9, <1>10, <1>11, <1>12, Zenon
<1>14. I \in DOMAIN Waits /\ J \in DOMAIN Waits
  <2>1. DOMAIN Waits = 1..Len(Waits)
    BY QueueTypes, LenProperties
  <2>2. Len(Waits) \in Nat
    BY QueueTypes, LenProperties
  <2>3. I \in 1..Len(Waits)
    BY <1>8, <1>9, <2>2
  <2> QED
    BY <1>9, <2>1, <2>3, Zenon
<1> HIDE DEF I, J
<1>15. Delivery!Supersede(I, J)
  BY <1>9, <1>13, Zenon DEF Delivery!Supersede, Overwritten, Waits, Live
<1>16. \E a, b \in DOMAIN Waits : Delivery!Supersede(a, b)
  BY <1>14, <1>15, Zenon
<1> QED
  BY <1>16, Zenon DEF Delivery!Next, Waits

\* A step that leaves the queues of values and the connection alone.
LEMMA SameQueues ==
  ASSUME UNCHANGED <<batch, pending, wbatch, items, parsed, routed, gui, sessions>>
  PROVE  UNCHANGED Delivery!vars
<1>1. Waits' = Waits /\ Live' = Live
  BY Zenon DEF Waits, Live
<1> QED
  BY <1>1, SameWaits, Zenon

LEMMA RadioStep ==
  ASSUME TypeOK, WaitInv, NEW k \in Session, Radio(k)
  PROVE  [Delivery!Next]_(Delivery!vars)
<1> USE DEF queueVars, workerVars, routerVars, sinkVars, guiVars, counters
<1>1. ASSUME NEW key \in Keys \cup {Event}, ReceiveValue(k, key) PROVE Delivery!Next
  BY <1>1, ParseStep, Zenon DEF Delivery!Next
<1>2. ASSUME NEW c \in Commands, AddCommand(k, c) PROVE UNCHANGED Delivery!vars
  BY <1>2, SameQueues, Zenon DEF AddCommand
<1>3. CASE CommanderCloses(k)
  <2>1. /\ items' = <<>> /\ UNCHANGED <<batch, pending, wbatch, parsed, routed>>
        /\ UNCHANGED <<gui, sessions>>
        /\ cmdr[k] = "closing"
    BY <1>3, Zenon DEF CommanderCloses
  <2>2. \A i \in 1..Len(items) : items[i].s # Live
    <3> SUFFICES ASSUME NEW i \in 1..Len(items), items[i].s = Live PROVE FALSE
      OBVIOUS
    <3>1. /\ items[i].s \in Session /\ cmdr[items[i].s] # "none"
          /\ \A j \in Session : j < items[i].s => cmdr[j] = "gone"
      BY Zenon DEF WaitInv, SourcesOK, Opened
    <3>2. gui = "up" /\ items[i].s = sessions
      BY <3>1, PipelineAssumption DEF Live, Session, PipelineAssumption
    <3>3. cmdr[sessions] = "live" /\ \A j \in Session : j > sessions => cmdr[j] = "none"
      BY <3>2, Zenon DEF WaitInv, CommandersOK
    <3>4. k < sessions \/ k = sessions \/ k > sessions
      <4>1. sessions \in Nat /\ k \in Nat
        BY QueueTypes DEF Session
      <4> QED
        BY <4>1
    <3> QED
      BY <2>1, <3>1, <3>2, <3>3, <3>4, Zenon
  <2>3. Live' = Live
    BY <2>1, Zenon DEF Live
  <2> QED
    BY <2>1, <2>2, <2>3, ItemsDropped, Zenon DEF Delivery!Next
<1>4. CASE CommanderDeleted(k)
  BY <1>4, SameQueues, Zenon DEF CommanderDeleted
<1> QED
  BY <1>1, <1>2, <1>3, <1>4, Zenon DEF Radio

\* A turn of the queue's thread, whoever woke it.
LEMMA TurnStep ==
  ASSUME TypeOK, WaitInv, NEW woke, Turn(woke), worker \in {"run", "wait", "timed"},
         UNCHANGED <<batch, pending, parsed, routed, gui, sessions>>
  PROVE  UNCHANGED Delivery!vars
<1>1. CASE aborted
  <2>1. UNCHANGED <<wbatch, items>>
    BY <1>1, Zenon DEF Turn, queueVars
  <2> QED
    BY <2>1, SameQueues, Zenon
<1>2. CASE ~aborted
  <2>1. wbatch = <<>> /\ wbatch' = items /\ items' = <<>>
    BY <1>2, Zenon DEF Turn, WaitInv, BatchTaken
  <2>2. Waits' = Waits /\ Live' = Live
    BY <2>1, TakenTogether, Zenon DEF Live
  <2> QED
    BY <2>2, SameWaits, Zenon
<1> QED
  BY <1>1, <1>2

LEMMA WorkerStep ==
  ASSUME TypeOK, SessionOK, WaitInv, Worker
  PROVE  [Delivery!Next]_(Delivery!vars)
<1> USE DEF queueVars, workerVars, routerVars, sinkVars, guiVars, counters
<1>1. CASE WorkerRuns
  <2>1. worker = "run" /\ UNCHANGED <<batch, pending, parsed, routed, gui, sessions>>
    BY <1>1, Zenon DEF WorkerRuns
  <2>2. CASE Turn(TRUE)
    BY <2>1, <2>2, TurnStep, Zenon
  <2>3. CASE UNCHANGED <<wbatch, items>>
    BY <2>1, <2>3, SameQueues, Zenon
  <2> QED
    BY <1>1, <2>2, <2>3, Zenon DEF WorkerRuns
<1>2. CASE IntervalExpires
  <2>1. /\ worker = "timed" /\ UNCHANGED <<batch, pending, parsed, routed, gui, sessions>>
        /\ Turn(FALSE)
    BY <1>2, Zenon DEF IntervalExpires
  <2> QED
    BY <2>1, TurnStep, Zenon
<1>3. CASE Emit
  <2>1. UNCHANGED <<batch, pending, items, parsed, routed, gui, sessions>>
    BY <1>3, Zenon DEF Emit
  <2>2. CASE conn = 0
    <3>1. gui # "up"
      <4>1. gui = "up" => conn = qsession /\ qsession > 0
        BY Zenon DEF WaitInv, CommandersOK
      <4>2. ~(0 > 0)
        OBVIOUS
      <4> QED
        BY <2>2, <4>1, <4>2, Zenon
    <3>2. Live = 0 /\ Live' = Live /\ wbatch' = <<>> /\ wbatch \in Seq(Value)
      BY <1>3, <2>1, <2>2, <3>1, QueueTypes, Zenon DEF Live, Emit
    <3>3. \A i \in 1..Len(wbatch) : wbatch[i].s # Live
      BY <3>2, AllStrangers, Zenon
    <3> QED
      BY <2>1, <3>2, <3>3, BatchDropped, Zenon DEF Delivery!Next
  <2>3. CASE conn # 0
    <3>1. wbatch' = wbatch
      BY <1>3, <2>3, Zenon DEF Emit
    <3> QED
      BY <2>1, <3>1, SameQueues, Zenon
  <2> QED
    BY <2>2, <2>3
<1>4. CASE Enter
  <2>1. /\ worker = "enter" /\ UNCHANGED <<batch, pending, items, parsed, routed, gui, sessions>>
    BY <1>4, Zenon DEF Enter
  <2>2. CASE wsession # qsession
    <3>1. wbatch' = <<>> /\ wbatch \in Seq(Value) /\ Live' = Live
      BY <1>4, <2>1, <2>2, QueueTypes, Zenon DEF Enter, SessionMatches, Live
    <3>2. \A i \in 1..Len(wbatch) : wbatch[i].s # Live
      <4>1. CASE gui = "up"
        BY <2>1, <2>2, <4>1, Zenon DEF Live, WaitInv, StrangersOnly
      <4>2. CASE gui # "up"
        <5>1. Live = 0
          BY <4>2, Zenon DEF Live
        <5> QED
          BY <3>1, <5>1, AllStrangers, Zenon
      <4> QED
        BY <4>1, <4>2
    <3> QED
      BY <2>1, <3>1, <3>2, BatchDropped, Zenon DEF Delivery!Next
  <2>3. CASE wsession = qsession
    <3>1. wbatch' = wbatch
      BY <1>4, <2>3, Zenon DEF Enter, SessionMatches
    <3> QED
      BY <2>1, <3>1, SameQueues, Zenon
  <2> QED
    BY <2>2, <2>3
<1>5. CASE EnqueueValue
  <2>1. /\ wbatch # <<>> /\ UNCHANGED <<batch, items, parsed, routed, gui, sessions>>
    BY <1>5, Zenon DEF EnqueueValue
  <2>2. Live' = Live
    BY <2>1, Zenon DEF Live
  <2>3. CASE Replaceable(Head(wbatch)) # {}
    <3>1. wbatch' = Tail(wbatch)
      BY <1>5, <2>3, Zenon DEF EnqueueValue
    <3>2. PICK i \in Replaceable(Head(wbatch)) : pending' = [pending EXCEPT ![i] = Head(wbatch)]
      BY <1>5, <2>3, Zenon DEF EnqueueValue
    <3> QED
      BY <2>1, <2>2, <3>1, <3>2, SupersedeStep, Zenon
  <2>4. CASE Replaceable(Head(wbatch)) = {} /\ Room
    <3>1. pending' = Append(pending, Head(wbatch)) /\ wbatch' = Tail(wbatch)
      BY <1>5, <2>4, Zenon DEF EnqueueValue
    <3>2. Waits' = Waits
      BY <2>1, <3>1, EnqueuedInOrder, Zenon
    <3> QED
      BY <2>1, <2>2, <3>2, SameWaits, Zenon
  <2>5. CASE Replaceable(Head(wbatch)) = {} /\ ~Room
    <3>1. UNCHANGED <<pending, wbatch>>
      BY <1>5, <2>5, Zenon DEF EnqueueValue
    <3> QED
      BY <2>1, <3>1, SameQueues, Zenon
  <2> QED
    BY <2>3, <2>4, <2>5, Zenon
<1>6. CASE EnqueueEnds
  BY <1>6, SameQueues, Zenon DEF EnqueueEnds
<1> QED
  BY <1>1, <1>2, <1>3, <1>4, <1>5, <1>6, Zenon DEF Worker

LEMMA DataStep ==
  ASSUME TypeOK, SessionOK, WaitInv,
         \/ \E t \in {"radio", "gui"} : Notify(t)
         \/ \E s \in drains : Drain(s)
         \/ NotifyRoom \/ RouteValue
  PROVE  [Delivery!Next]_(Delivery!vars)
<1> USE DEF queueVars, workerVars, routerVars, sinkVars, guiVars, counters
<1>1. ASSUME NEW t, Notify(t) PROVE UNCHANGED Delivery!vars
  <2>1. UNCHANGED <<batch, pending, parsed, routed, gui, sessions>>
    BY <1>1, Zenon DEF Notify
  <2>2. CASE worker \in {"wait", "timed"} /\ Turn(TRUE)
    BY <2>1, <2>2, TurnStep, Zenon
  <2>3. CASE UNCHANGED <<wbatch, items>>
    BY <2>1, <2>3, SameQueues, Zenon
  <2> QED
    BY <1>1, <2>2, <2>3, Zenon DEF Notify
<1>2. ASSUME NEW s, Drain(s) PROVE UNCHANGED Delivery!vars
  <2>1. batch = <<>> /\ UNCHANGED <<wbatch, items, parsed, routed, gui, sessions>>
    BY <1>2, Zenon DEF Drain
  <2>2. CASE s = qsession
    <3>1. batch' = pending /\ pending' = <<>>
      BY <1>2, <2>2, Zenon DEF Drain
    <3>2. Waits' = Waits /\ Live' = Live
      BY <2>1, <3>1, DrainedTogether, Zenon DEF Live
    <3> QED
      BY <2>1, <3>2, SameWaits, Zenon
  <2>3. CASE s # qsession
    <3>1. UNCHANGED <<batch, pending>>
      BY <1>2, <2>3, Zenon DEF Drain
    <3> QED
      BY <2>1, <3>1, SameQueues, Zenon
  <2> QED
    BY <2>2, <2>3
<1>3. CASE NotifyRoom
  BY <1>3, SameQueues, Zenon DEF NotifyRoom
<1>4. CASE RouteValue
  BY <1>4, RouteStep, Zenon DEF Delivery!Next
<1> QED
  BY <1>1, <1>2, <1>3, <1>4, Zenon

LEMMA GuiStep ==
  ASSUME TypeOK, SessionOK, WaitInv, Gui
  PROVE  [Delivery!Next]_(Delivery!vars)
<1> USE DEF queueVars, workerVars, routerVars, sinkVars, guiVars, counters
<1>1. CASE BeginSession \/ CancelSession
  <2>1. /\ NewQueueSession /\ Released /\ UNCHANGED <<batch, items, parsed, routed>>
        /\ gui # "up" /\ gui' # "up"
    BY <1>1, Zenon DEF BeginSession, CancelSession
  <2>2. Live = 0 /\ Live' = 0
    BY <2>1, Zenon DEF Live
  <2> QED
    BY <2>1, <2>2, SessionDrops, Zenon DEF Delivery!Next
<1>2. CASE ConnectQueue \/ Deactivate
  <2>1. /\ UNCHANGED <<batch, pending, wbatch, items, parsed, routed, sessions>>
        /\ (gui = "up") # (gui' = "up") /\ sessions \in Session
    BY <1>2, Zenon DEF ConnectQueue, Deactivate, WaitInv, CommandersOK
  <2>2. sessions \in Nat \ {0}
    BY <2>1 DEF Session
  <2>3. Live' \in Nat /\ (Live = 0) # (Live' = 0)
    BY <2>1, <2>2 DEF Live
  <2>4. Waits' = Waits
    BY <2>1, Zenon DEF Waits
  <2>5. Delivery!SessionChanges
    BY <2>1, <2>3, <2>4, Zenon DEF Delivery!SessionChanges, Waits, Live
  <2> QED
    BY <2>5, Zenon DEF Delivery!Next
<1>3. CASE Disconnected
  <2>1. /\ UNCHANGED <<batch, pending, wbatch, items, parsed, routed, sessions>>
        /\ gui # "up" /\ gui' # "up"
    BY <1>3, Zenon DEF Disconnected
  <2>2. Waits' = Waits /\ Live' = Live
    BY <2>1, Zenon DEF Waits, Live
  <2> QED
    BY <2>1, <2>2, SameWaits, Zenon
<1>4. CASE StopWorker
  BY <1>4, SameQueues, Zenon DEF StopWorker
<1> QED
  BY <1>1, <1>2, <1>3, <1>4, Zenon DEF Gui

LEMMA NextStep ==
  TypeOK /\ SessionOK /\ WaitInv /\ [Next]_vars => [Delivery!Next]_(Delivery!vars)
<1> SUFFICES ASSUME TypeOK, SessionOK, WaitInv, [Next]_vars
             PROVE  [Delivery!Next]_(Delivery!vars)
  OBVIOUS
<1>1. CASE UNCHANGED vars
  BY <1>1, SameQueues, Zenon DEF vars, queueVars, workerVars, routerVars, sinkVars, guiVars,
                                 counters
<1>2. ASSUME NEW k \in Session, Radio(k) PROVE [Delivery!Next]_(Delivery!vars)
  BY <1>2, RadioStep, Zenon
<1> QED
  BY <1>1, <1>2, WorkerStep, DataStep, GuiStep, Zenon DEF Next

LEMMA FirstStep == Init => Delivery!Init
<1> SUFFICES ASSUME Init PROVE Delivery!Init
  OBVIOUS
<1>1. <<>> \o <<>> = <<>>
  BY EmptySeq, ConcatEmptySeq
<1>2. Waits = <<>> /\ Live = 0
  BY <1>1, Zenon DEF Init, Waits, Live
<1> QED
  BY <1>2, Zenon DEF Init, Delivery!Init, Waits, Live

\* The values that wait, and where they wait, are as the steps above need them.
LEMMA PipelineInv == Spec => [](TypeOK /\ SessionOK /\ WaitInv)
<1>1. Init => SessionOK
  BY Zenon DEF Init, SessionOK, NothingKept
<1> QED
  BY <1>1, WaitInit, WaitNext, SessionNext, TypeCorrect, PTL DEF Spec

\* The queue and the router implement ValueDelivery: no value of the connected
\* session is lost, and the only one skipped is a reading that a newer one of its
\* kind overtook, through back-pressure, disconnects and a Commander that closes
\* late.
THEOREM PipelineImplements == Spec => Implements
BY PipelineInv, FirstStep, NextStep, PTL DEF Spec, Implements, Delivery!Spec

-----------------------------------------------------------------------------
(* The order of the values.                                                *)

\* The values routed and those waiting, the former before the latter, and no
\* number that is yet to be given.
OrderInv ==
    /\ parsed \in Nat /\ Waits \in Seq(Delivery!Values) /\ routed \in Seq(Delivery!Values)
    /\ \A i \in 1..Len(Waits) : Waits[i].n <= parsed
    /\ \A i \in 1..Len(routed) : routed[i].n <= parsed
    /\ InOrder(Waits) /\ InOrder(routed)
    /\ \A i \in 1..Len(routed), j \in 1..Len(Waits) : Ordered(routed[i], Waits[j])

\* The invariant only depends on which values wait and in which order.
LEMMA FewerWait ==
  ASSUME OrderInv, parsed' = parsed, routed' = routed, Waits' \in Seq(Delivery!Values),
         InOrder(Waits'),
         \A k \in 1..Len(Waits') : \E m \in 1..Len(Waits) : Waits'[k] = Waits[m]
  PROVE  OrderInv'
<1>1. \A k \in 1..Len(Waits') : Waits'[k].n <= parsed'
  BY Zenon DEF OrderInv
<1>2. \A i \in 1..Len(routed'), j \in 1..Len(Waits') : Ordered(routed'[i], Waits'[j])
  BY Zenon DEF OrderInv
<1>3. /\ parsed' \in Nat /\ routed' \in Seq(Delivery!Values)
      /\ \A i \in 1..Len(routed') : routed'[i].n <= parsed'
  BY Zenon DEF OrderInv
<1>4. \A i, j \in 1..Len(routed') : i < j => Ordered(routed'[i], routed'[j])
  BY Zenon DEF OrderInv, InOrder
<1>5. InOrder(routed)'
  BY <1>4, Zenon DEF InOrder
<1>6. InOrder(Waits)'
  BY Zenon DEF InOrder
<1> QED
  BY <1>1, <1>2, <1>3, <1>5, <1>6, Zenon DEF OrderInv

LEMMA OrderNext == OrderInv /\ [Delivery!Next]_(Delivery!vars) => OrderInv'
<1> SUFFICES ASSUME OrderInv, [Delivery!Next]_(Delivery!vars) PROVE OrderInv'
  OBVIOUS
<1>0. /\ parsed \in Nat /\ Waits \in Seq(Delivery!Values) /\ routed \in Seq(Delivery!Values)
      /\ Len(Waits) \in Nat /\ Len(routed) \in Nat /\ DOMAIN Waits = 1..Len(Waits)
  BY LenProperties DEF OrderInv
<1>1. CASE Delivery!Parse
  <2>1. PICK v \in Delivery!Values : v.n = parsed + 1 /\ Waits' = Append(Waits, v)
    BY <1>1, Zenon DEF Delivery!Parse, Waits, Live
  <2>2. /\ Waits' \in Seq(Delivery!Values) /\ Len(Waits') = Len(Waits) + 1
        /\ \A i \in 1..Len(Waits) : Waits'[i] = Waits[i]
        /\ Waits'[Len(Waits) + 1] = v
    BY <1>0, <2>1, AppendProperties
  <2>3. parsed' = parsed + 1 /\ routed' = routed /\ parsed' \in Nat
    BY <1>0, <1>1 DEF Delivery!Parse, Waits, Live
  <2>4. \A w \in Delivery!Values : w.n <= parsed => Ordered(w, v) /\ w.n <= parsed'
    BY <1>0, <2>1, <2>3 DEF Delivery!Values, Ordered
  <2>5. /\ \A i \in 1..Len(Waits) : Waits[i] \in Delivery!Values /\ Waits[i].n <= parsed
        /\ \A i \in 1..Len(routed) : routed[i] \in Delivery!Values /\ routed[i].n <= parsed
    BY <1>0, ElementOfSeq DEF OrderInv
  <2>6. \A i \in 1..Len(Waits') : i \in 1..Len(Waits) \/ i = Len(Waits) + 1
    BY <1>0, <2>2
  <2>7. \A i \in 1..Len(Waits') : Waits'[i].n <= parsed'
    <3>1. v.n <= parsed'
      BY <1>0, <2>1, <2>3
    <3> QED
      BY <2>2, <2>4, <2>5, <2>6, <3>1, Zenon
  <2>8. InOrder(Waits')
    <3>1. \A i, j \in 1..Len(Waits') : i < j => i \in 1..Len(Waits)
      BY <1>0, <2>2
    <3> QED
      BY <2>2, <2>4, <2>5, <2>6, <3>1, Zenon DEF InOrder, OrderInv
  <2>9. \A i \in 1..Len(routed), j \in 1..Len(Waits') : Ordered(routed[i], Waits'[j])
    BY <2>2, <2>4, <2>5, <2>6, Zenon DEF OrderInv
  <2>10. \A i \in 1..Len(routed) : routed[i].n <= parsed'
    BY <2>4, <2>5, Zenon
  <2> QED
    BY <2>2, <2>3, <2>7, <2>8, <2>9, <2>10, Zenon DEF OrderInv, InOrder
<1>2. CASE Delivery!Route
  <2>0. Waits # <<>> /\ 1 \in 1..Len(Waits)
    BY <1>0, <1>2, EmptySeq DEF Delivery!Route, Waits, Live
  <2>1. /\ Head(Waits) = Waits[1] /\ Head(Waits) \in Delivery!Values
        /\ Tail(Waits) \in Seq(Delivery!Values)
        /\ Len(Tail(Waits)) = Len(Waits) - 1
        /\ \A k \in 1..Len(Tail(Waits)) : Tail(Waits)[k] = Waits[k + 1]
    BY <1>0, <2>0, HeadTailProperties
  <2>2. Waits' = Tail(Waits) /\ routed' = Append(routed, Waits[1]) /\ parsed' = parsed
    BY <1>2, <2>1, Zenon DEF Delivery!Route, Waits, Live
  <2>3. \A k \in 1..Len(Waits') : k + 1 \in 1..Len(Waits) /\ 1 < k + 1
    BY <1>0, <2>1, <2>2
  <2>4. \A k, m \in 1..Len(Waits') : k < m => k + 1 < m + 1
    BY <1>0, <2>1, <2>2
  <2>5. /\ Waits' \in Seq(Delivery!Values) /\ InOrder(Waits')
        /\ \A i \in 1..Len(Waits') : Waits'[i].n <= parsed
    BY <2>1, <2>2, <2>3, <2>4, Zenon DEF OrderInv, InOrder
  <2>6. /\ routed' \in Seq(Delivery!Values) /\ Len(routed') = Len(routed) + 1
        /\ \A i \in 1..Len(routed) : routed'[i] = routed[i]
        /\ routed'[Len(routed) + 1] = Waits[1]
    BY <1>0, <2>1, <2>2, AppendProperties
  <2>7. \A i \in 1..Len(routed') : i \in 1..Len(routed) \/ i = Len(routed) + 1
    BY <1>0, <2>6
  <2>8. \A i \in 1..Len(routed') : routed'[i].n <= parsed
    BY <2>0, <2>6, <2>7, Zenon DEF OrderInv
  <2>9. InOrder(routed')
    <3>1. \A i, j \in 1..Len(routed') : i < j => i \in 1..Len(routed)
      BY <1>0, <2>6
    <3> QED
      BY <2>0, <2>6, <2>7, <3>1, Zenon DEF InOrder, OrderInv
  <2>10. \A i \in 1..Len(routed'), j \in 1..Len(Waits') : Ordered(routed'[i], Waits'[j])
    <3>1. ASSUME NEW i \in 1..Len(Waits), NEW j \in 1..Len(Waits'), i = 1
          PROVE  Ordered(Waits[i], Waits'[j])
      BY <2>0, <2>1, <2>2, <2>3, <3>1, Zenon DEF InOrder, OrderInv
    <3>2. \A i \in 1..Len(routed), j \in 1..Len(Waits') : Ordered(routed[i], Waits'[j])
      BY <2>1, <2>2, <2>3, Zenon DEF OrderInv
    <3> QED
      BY <2>0, <2>6, <2>7, <3>1, <3>2, Zenon
  <2> QED
    BY <1>0, <2>2, <2>5, <2>6, <2>8, <2>9, <2>10, Zenon DEF OrderInv, InOrder
<1>3. CASE Delivery!Drop
  <2>1. PICK i \in 1..Len(Waits), j \in 1..Len(Waits) :
           i <= j /\ Waits' = Cut(Waits, i, j)
    BY <1>0, <1>3, Zenon DEF Delivery!Drop, Cut, Waits, Live
  <2>2. j \in i..Len(Waits)
    BY <1>0, <2>1
  <2>3. /\ Waits' \in Seq(Delivery!Values) /\ InOrder(Waits')
        /\ \A k \in 1..Len(Waits') : \E m \in 1..Len(Waits) : Waits'[k] = Waits[m]
    <3>1. Cut(Waits, i, j) \in Seq(Delivery!Values)
      BY <1>0, <2>2, CutElements
    <3>2. InOrder(Waits)
      BY Zenon DEF OrderInv
    <3> QED
      BY <1>0, <2>1, <2>2, <3>1, <3>2, CutInOrder
  <2> QED
    BY <1>3, <2>3, FewerWait, Zenon DEF Delivery!Drop, Waits, Live
<1>4. ASSUME NEW i \in DOMAIN Waits, NEW j \in DOMAIN Waits, Delivery!Supersede(i, j)
      PROVE  OrderInv'
  <2>1. i \in 1..Len(Waits) /\ j \in (i + 1)..Len(Waits)
    BY <1>0, <1>4 DEF Delivery!Supersede, Waits, Live
  <2>2. Waits' = Overwritten(Waits, i, j)
    BY <1>4, Zenon DEF Delivery!Supersede, Overwritten, Waits, Live
  <2>3. /\ Waits' \in Seq(Delivery!Values) /\ InOrder(Waits')
        /\ \A k \in 1..Len(Waits') : \E m \in 1..Len(Waits) : Waits'[k] = Waits[m]
    <3>1. Overwritten(Waits, i, j) \in Seq(Delivery!Values)
      BY <1>0, <2>1, OverwrittenElements
    <3>2. /\ InOrder(Waits) /\ Waits[i].key = Waits[j].key
          /\ \A k \in i..j : Waits[k].key # Event
          /\ \A k \in (i + 1)..(j - 1) : Waits[k].key # Waits[i].key
      BY <1>4, Zenon DEF OrderInv, Delivery!Supersede, Waits, Live
    <3> DEFINE o == Overwritten(Waits, i, j)
    <3>3. /\ InOrder(o)
          /\ \A k \in 1..Len(o) : \E m \in 1..Len(Waits) : o[k] = Waits[m]
      BY <1>0, <2>1, <3>2, OverwrittenInOrder
    <3>4. Waits' = o
      BY <2>2
    <3> HIDE DEF o
    <3> QED
      BY <3>1, <3>3, <3>4, Zenon DEF o
  <2> QED
    BY <1>4, <2>3, FewerWait, Zenon DEF Delivery!Supersede, Waits, Live
<1>5. CASE Delivery!SessionChanges \/ UNCHANGED Delivery!vars
  BY <1>5, Zenon DEF Delivery!SessionChanges, Delivery!vars, OrderInv, InOrder, Waits, Live
<1> QED
  BY <1>1, <1>2, <1>3, <1>4, <1>5, Zenon DEF Delivery!Next, Waits

\* The order of all values, routed or waiting, is a relation between pairs.
LEMMA OrderOfPairs ==
  OrderInv => \A i, j \in 1..Len(routed \o Waits) :
                 i < j => Ordered((routed \o Waits)[i], (routed \o Waits)[j])
<1> SUFFICES ASSUME OrderInv, NEW i \in 1..Len(routed \o Waits),
                    NEW j \in 1..Len(routed \o Waits), i < j
             PROVE  Ordered((routed \o Waits)[i], (routed \o Waits)[j])
  OBVIOUS
<1>1. /\ Len(routed) \in Nat /\ Len(Waits) \in Nat
      /\ Len(routed \o Waits) = Len(routed) + Len(Waits)
      /\ \A k \in 1..(Len(routed) + Len(Waits)) :
            (routed \o Waits)[k] = IF k <= Len(routed) THEN routed[k]
                                     ELSE Waits[k - Len(routed)]
  BY ConcatProperties, LenProperties DEF OrderInv
<1>2. CASE j <= Len(routed)
  <2>1. i \in 1..Len(routed) /\ j \in 1..Len(routed) /\ i <= Len(routed)
    BY <1>1, <1>2
  <2> QED
    BY <1>1, <1>2, <2>1, Zenon DEF OrderInv, InOrder
<1>3. CASE i <= Len(routed) /\ ~(j <= Len(routed))
  <2>1. i \in 1..Len(routed) /\ j - Len(routed) \in 1..Len(Waits)
    BY <1>1, <1>3
  <2> QED
    BY <1>1, <1>3, <2>1, Zenon DEF OrderInv
<1>4. CASE ~(i <= Len(routed))
  <2>1. /\ i - Len(routed) \in 1..Len(Waits) /\ j - Len(routed) \in 1..Len(Waits)
        /\ i - Len(routed) < j - Len(routed) /\ ~(j <= Len(routed))
    BY <1>1, <1>4
  <2> QED
    BY <1>1, <1>4, <2>1, Zenon DEF OrderInv, InOrder
<1> QED
  BY <1>1, <1>2, <1>3, <1>4

\* Nothing is counted, routed or waiting at the start.
LEMMA OrderInit == Delivery!Init => OrderInv
<1> SUFFICES ASSUME Delivery!Init PROVE OrderInv
  OBVIOUS
<1>1. parsed = 0 /\ Waits = <<>> /\ routed = <<>>
  BY Zenon DEF Delivery!Init, Waits, Live
<1>2. <<>> \in Seq(Delivery!Values) /\ Len(<<>>) = 0
  BY EmptySeq
<1> QED
  BY <1>1, <1>2 DEF OrderInv, InOrder

-----------------------------------------------------------------------------
(* What follows for the pipeline.                                          *)

LEMMA OrderInvKept == Delivery!Spec => []OrderInv
BY OrderInit, OrderNext, PTL DEF Delivery!Spec

\* No value is routed twice, or waits again after it was routed.
RoutedOnce ==
    LET all == routed \o Waits
    IN  \A i, j \in DOMAIN all : i < j => all[i].n # all[j].n

\* No value reaches the models before an older one of its kind, and none passes
\* an event in either direction.
THEOREM PipelineOrder == Spec => []OrderKept
<1>1. OrderInv => OrderKept
  <2> SUFFICES ASSUME OrderInv PROVE OrderKept
    OBVIOUS
  <2>1. DOMAIN (routed \o Waits) = 1..Len(routed \o Waits)
    BY ConcatProperties, LenProperties DEF OrderInv
  <2>2. \A i, j \in DOMAIN (routed \o Waits) :
            i < j /\ ((routed \o Waits)[i].key = (routed \o Waits)[j].key
                        \/ Event \in {(routed \o Waits)[i].key, (routed \o Waits)[j].key})
                => (routed \o Waits)[i].n < (routed \o Waits)[j].n
    BY <2>1, OrderOfPairs, Zenon DEF Ordered
  <2> QED
    BY <2>2, Zenon DEF OrderKept, Delivery!OrderKept, Waits
<1> QED
  BY <1>1, PipelineImplements, OrderInvKept, PTL DEF Implements

\* A value that reached the models is in no queue, and reaches them only once.
THEOREM PipelineOnce == Spec => []RoutedOnce
<1>1. OrderInv => RoutedOnce
  <2> SUFFICES ASSUME OrderInv PROVE RoutedOnce
    OBVIOUS
  <2>1. DOMAIN (routed \o Waits) = 1..Len(routed \o Waits)
    BY ConcatProperties, LenProperties DEF OrderInv
  <2> QED
    BY <2>1, OrderOfPairs, Zenon DEF RoutedOnce, Ordered
<1> QED
  BY <1>1, PipelineImplements, OrderInvKept, PTL DEF Implements
=============================================================================
