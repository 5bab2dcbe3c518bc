-------------------------- MODULE CommandScheduler --------------------------
(***************************************************************************)
(* One radio, two receivers, and replies that name neither.                *)
(*                                                                         *)
(* Most CI-V commands act on the receiver the radio has selected, and their *)
(* replies do not say which one that was.  The Commander therefore         *)
(*   - keeps one read of a reply family outstanding and attributes the     *)
(*     reply to the receiver that read was for, keeping the family shut    *)
(*     for a while after each reply or timeout (the drain);                *)
(*   - wraps work on a receiver in a transaction: select it, wait 50 ms,   *)
(*     act, select the operator's receiver again, wait 25 ms;              *)
(*   - runs scheduled commands one at a time, none during a transaction or *)
(*     while an exchange of MAIN and SUB awaits its confirmation.          *)
(* RadioBackend, on the GUI thread, asks for all of this, polls the        *)
(* S-meter and gives up on a poll that is not answered, and confirms an    *)
(* exchange; the GUI shows which receiver is selected.                     *)
(*                                                                         *)
(* The record w is the radio-worker's side: the members of the Commander,  *)
(* the link and the radio.  A lambda RadioBackend posts to it runs at once: *)
(* it captures all it reads, and what overtakes it is another action of    *)
(* the worker that might as well have come first.                          *)
(***************************************************************************)
EXTENDS Integers, Sequences, FiniteSets, SequencesExt, FiniteSetsExt

CONSTANTS
    Identity,        \* reply families that identify a receiver: frequency, mode
    MaxDeferred,     \* kMaxDeferredReplyReads
    MaxScheduled,    \* kMaxScheduledCommands
    MaxStreak,       \* kMaxConsecutiveInteractiveDispatches
    MaxRetries,      \* kMaxMainSubExchangeRetries
    Steady,          \* TRUE: the operator selects a VFO between transactions only
    Metered,         \* the receivers whose S-meter is polled in this run
    Acts,            \* what the operator does in this run
    MaxUnread,       \* bound: signals the GUI thread has not read when its timers run
    MaxEvents        \* bound: these acts, losses on the link and late answers, together

ASSUME SchedulerAssumption ==
    /\ Identity \subseteq {"freq", "mode"} /\ "freq" \in Identity
    /\ {MaxDeferred, MaxScheduled, MaxStreak} \subseteq Nat \ {0}
    /\ {MaxRetries, MaxUnread, MaxEvents} \subseteq Nat
    /\ Steady \in BOOLEAN
    /\ Metered \subseteq {"main", "sub"}
    /\ Acts \subseteq {"set", "tune", "select", "exchange", "transmit"}

VARIABLES
    w,           \* the Commander, the link and the radio (see Worker)
    poll,        \* the S-meter poll: "idle", "queued" or "pending", and its receiver
    pipe,        \* S-meter values on their way through the value pipeline
    tx,          \* PttConfirmationPolicy::transmitMetersActive
    exch,        \* MainSubExchangePolicy, m_mainSubExchangePending and -Dispatched
    confirmed,   \* m_mainSubExchangeConfirmations
    retries,     \* m_mainSubExchangeRetryCount
    activeVfo,   \* RadioBackend::m_activeVfo
    shownVfo,    \* VfoSelectionController::m_selectedVfo
    selecting,   \* VfoSelectionController: the selection pending and its retries
    used         \* how many of MaxEvents have happened

exchange == <<exch, confirmed, retries>>
gui      == <<activeVfo, shownVfo, selecting>>
vars     == <<w, poll, pipe, tx, exchange, gui, used>>

Receivers == {"main", "sub"}
Other(r)  == CHOOSE q \in Receivers : q # r
Meters    == {"smeter", "swr"}
Families  == Identity \cup Meters

\* What a scheduled command does when its turn comes: a setting or a read of
\* a receiver, the snapshot of one (freq and mode), the S-meter, a
\* transmit meter, the tuning of MAIN, the settings read after an exchange.
Read    == [fam : Families, rcv : Receivers]
Command ==
    {c \in [class : {"set", "meter", "confirm"}, fam : Families \cup {"control", "split"},
            rcv : Receivers, act : {"set", "tune", "read", "state", "settings", "smeter", "swr"}] :
        c.act = "read" => c.fam \in Families}

\* How long a family stays shut: resolvedDrainMs after a reply, abandonedDrainMs
\* after a timeout.  "again" is the 20 ms retry, which the timer alone knows.
Lengths     == <<"none", "again", "resolved", "abandoned">>
Rank(d)     == CHOOSE i \in DOMAIN Lengths : Lengths[i] = d
Longer(d, e) == IF Rank(d) > Rank(e) THEN d ELSE e

\* A read on its way to the radio, then its reply on the way back: the receiver
\* it is for, the receiver the radio answers for, and the exchanges made by then.
Flight == [fam : Families \cup {"status"}, rcv : Receivers, from : Receivers, era : Nat]

\* What the Commander tells the GUI thread: an S-meter read was sent, the
\* exchange was dispatched, a value was received for a receiver.
Signal == [sig : {"sent", "dispatched", "reply"}, about : Flight]

Worker == [
    scheduled : Seq(Command),    \* m_scheduledCommands
    streak    : 0 .. MaxStreak,  \* m_consecutiveInteractiveDispatches
    active    : BOOLEAN,         \* m_receiverScopedReadActive
    window    : Seq(Command),    \* the transaction in its 50 ms wait, if any
    closing   : BOOLEAN,         \* the 25 ms wait that ends one
    smeter    : BOOLEAN,         \* m_smeterScopedReadActive (only ever for SUB)
    smTimer   : BOOLEAN,         \* the 50 ms timer of the S-meter read
    pending   : Seq(Read),       \* m_pendingReplies
    drains    : [Families -> {"none", "resolved", "abandoned"}],  \* m_replyFamilyDrains
    timer     : Range(Lengths),  \* m_replyDrainTimer: what it was started with
    deferred  : Seq(Read),       \* m_deferredReplyReads
    exQueued  : BOOLEAN,         \* m_mainSubExchangeQueued
    exPending : BOOLEAN,         \* m_mainSubExchangeConfirmationPending
    exTimer   : BOOLEAN,         \* the 75 ms timer after the exchange
    operator  : Receivers,       \* m_operatorSelectedVfo
    selected  : Receivers,       \* the receiver the radio has selected
    era       : Nat,             \* how often the radio has exchanged MAIN and SUB
    air       : Seq(Flight),     \* the link, in order
    inbox     : Seq(Signal)]     \* signals queued to the GUI thread

Init ==
    /\ w = [scheduled |-> <<>>, streak |-> 0,
            active |-> FALSE, window |-> <<>>, closing |-> FALSE,
            smeter |-> FALSE, smTimer |-> FALSE,
            pending |-> <<>>, drains |-> [f \in Families |-> "none"],
            timer |-> "none", deferred |-> <<>>,
            exQueued |-> FALSE, exPending |-> FALSE, exTimer |-> FALSE,
            operator |-> "main", selected |-> "main", era |-> 0,
            air |-> <<>>, inbox |-> <<>>]
    /\ poll = [st |-> "idle", rcv |-> "main"]
    /\ pipe = <<>> /\ tx = FALSE
    /\ exch = "idle" /\ confirmed = {} /\ retries = 0
    /\ activeVfo = "main" /\ shownVfo = "main"
    /\ selecting = [on |-> FALSE, rcv |-> "main", tries |-> 0]
    /\ used = 0

-----------------------------------------------------------------------------
(* The radio.  It executes commands in the order they are sent, and the    *)
(* waits of 50, 25 and 75 ms leave it the time: a command acts when sent.  *)

Select(s, r) == [s EXCEPT !.selected = r]

\* funcVFOSwapMS: the contents change sides, the selection stays.
Swap(s) == [s EXCEPT !.era = @ + 1]

FlightOf(s, f, r, from) == [fam |-> f, rcv |-> r, from |-> from, era |-> s.era]

Tell(s, sig, flight) == [s EXCEPT !.inbox = Append(@, [sig |-> sig, about |-> flight])]

\* The elements of q that are in S, in their order: what SelectSeq gives, as a
\* recursive function, which can be reasoned about.
Those(q, S) ==
    LET kept[i \in 0 .. Len(q)] ==
            IF i = 0 THEN <<>>
            ELSE IF q[i] \in S THEN Append(kept[i - 1], q[i]) ELSE kept[i - 1]
    IN  kept[Len(q)]

-----------------------------------------------------------------------------
(* The Commander: reply families.                                          *)

Live(s, f)    == \E i \in DOMAIN s.pending : s.pending[i].fam = f

\* Bug for the mutation test: a family is open again as soon as nothing is pending.
OnlyLive(s, f) == Live(s, f)

Blocked(s, f) == Live(s, f) \/ s.drains[f] # "none"

\* beginReplyFamilyDrain: one timer serves all families, and the drain begun
\* last decides when it fires.
BeginDrain(s, f, d) == [s EXCEPT !.drains[f] = Longer(@, d), !.timer = d]

\* Bug for the mutation test: the list of deferred reads has no limit.
DeferAlways(s, f, r) ==
    LET read == [fam |-> f, rcv |-> r]
    IN  IF read \in Range(s.deferred) THEN s ELSE [s EXCEPT !.deferred = Append(@, read)]

\* enqueueDeferredReplyRead: a full list drops the read.
Defer(s, f, r) ==
    LET read == [fam |-> f, rcv |-> r]
    IN  IF read \in Range(s.deferred) \/ Len(s.deferred) >= MaxDeferred THEN s
        ELSE [s EXCEPT !.deferred = Append(@, read)]

\* prepDataAndSend of a read the radio answers for the receiver from.
Send(s, f, r, from) ==
    [s EXCEPT !.air = Append(@, FlightOf(s, f, r, from))]

\* receiveCommand of a read: deferred while its family is shut, otherwise
\* remembered (rememberPendingReply), announced (commandTransmitted; the GUI
\* thread listens for the S-meter only) and sent.
SendReadAs(s, f, r, from) ==
    IF Blocked(s, f) THEN Defer(s, f, r)
    ELSE LET told == IF f = "smeter" THEN Tell(s, "sent", FlightOf(s, f, r, from)) ELSE s
         IN  Send([told EXCEPT !.pending = Append(@, [fam |-> f, rcv |-> r])], f, r, from)

SendRead(s, f, r) == SendReadAs(s, f, r, s.selected)

\* funcSelectedFreq, funcSelectedMode: commands 25 00 and 26 00 always mean MAIN.
SendMainRead(s, f) == SendReadAs(s, f, "main", "main")

\* The frequency is always read before the mode.
InTurn(s, families, Ask(_, _)) ==
    LET asked == IF "freq" \in families THEN Ask(s, "freq") ELSE s
    IN  IF "mode" \in families THEN Ask(asked, "mode") ELSE asked

SendReads(s, families, r)  == InTurn(s, families, LAMBDA t, f : SendRead(t, f, r))
SendMainReads(s, families) == InTurn(s, families, SendMainRead)

\* funcVFOBandMS, a read that needs no correlation: which receiver is selected.
SendStatus(s) == Send(s, "status", "main", s.selected)

-----------------------------------------------------------------------------
(* The Commander: transactions, the exchange, deferred reads.              *)

InteractivePending(s) == \E i \in DOMAIN s.scheduled : s.scheduled[i].class = "set"

\* executeReceiverScopedAction
ExecuteScoped(s, cmd) == [Select(s, cmd.rcv) EXCEPT !.active = TRUE, !.window = <<cmd>>]

ReadCommand(f, r) == [class |-> "confirm", fam |-> f, rcv |-> r, act |-> "read"]

\* requestReceiverScopedRead and dispatchReceiverScopedRead
RequestScopedRead(s, f, r) ==
    IF s.active \/ Blocked(s, f) THEN Defer(s, f, r)
    ELSE ExecuteScoped(s, ReadCommand(f, r))

RequestScopedReads(s, families, r) ==
    InTurn(s, families, LAMBDA t, f : RequestScopedRead(t, f, r))

\* Bug for the mutation test: the exchange does not wait for the identity reads.
HastyExchange(s) == ~InteractivePending(s)

ExchangeMayGo(s) == /\ ~InteractivePending(s)
                    /\ \A f \in Identity : ~Blocked(s, f)

\* dispatchMainSubExchange.  The second frequency read finds its family shut
\* and is deferred.
DispatchExchange(s) ==
    LET swapped == Select(Swap([s EXCEPT !.exQueued = FALSE, !.exPending = TRUE,
                                         !.exTimer = TRUE]), "main")
        asked   == SendMainRead(SendMainReads(swapped, Identity), "freq")
    IN  Tell(SendStatus(asked), "dispatched", FlightOf(asked, "status", "main", "main"))

\* requestMainSubExchange: one that must wait starts no timer.
RequestExchange(s) ==
    IF s.exQueued THEN s
    ELSE IF ExchangeMayGo(s) THEN DispatchExchange(s)
    ELSE [s EXCEPT !.exQueued = TRUE]

\* A read the exchange itself needs for its confirmation.
ConfirmsExchange(read) == read.rcv = "sub" /\ read.fam \in Identity

\* Bug for the mutation test: any deferred read may go during an exchange.
AnyDeferred(s, i) == ~Blocked(s, s.deferred[i].fam)

MayDispatch(s, i) == /\ s.exPending => ConfirmsExchange(s.deferred[i])
                     /\ ~Blocked(s, s.deferred[i].fam)

\* Bug for the mutation test: deferred reads do not wait for the transaction.
NeverHeld(s) == FALSE

\* The guard of dispatchDeferredReplyReads.
HeldByTransaction(s) == s.active

\* dispatchDeferredReplyReads: the exchange first, then the first deferred
\* read that may go; the timer is started again for what remains.
DispatchDeferred(s) ==
    LET ready == {i \in DOMAIN s.deferred : MayDispatch(s, i)}
        next  == IF ready = {} THEN s
                 ELSE ExecuteScoped([s EXCEPT !.deferred = RemoveAt(@, Min(ready))],
                          ReadCommand(s.deferred[Min(ready)].fam, s.deferred[Min(ready)].rcv))
    IN  IF HeldByTransaction(s) THEN [s EXCEPT !.timer = "again"]
        ELSE IF s.exQueued /\ ExchangeMayGo(s) THEN DispatchExchange(s)
        ELSE IF next.deferred # <<>> \/ next.exQueued THEN [next EXCEPT !.timer = "resolved"]
        ELSE next

\* Bug for the mutation test: the S-meter read leaves the radio on SUB.
LeaveOnSub(s) ==
    IF ~s.smeter THEN s
    ELSE [s EXCEPT !.smeter = FALSE, !.smTimer = FALSE, !.closing = TRUE]

\* finishSMeterRead; the generation count disarms the 50 ms timer.
FinishSMeter(s) ==
    IF ~s.smeter THEN s
    ELSE [Select(s, s.operator) EXCEPT !.smeter = FALSE, !.smTimer = FALSE, !.closing = TRUE]

\* discardPendingReplies
Discard(s, f) ==
    IF Live(s, f)
    THEN BeginDrain([s EXCEPT !.pending = Those(@, {read \in Read : read.fam # f})], f, "abandoned")
    ELSE s

\* abortSMeterRead
AbortSMeter(s) == FinishSMeter(Discard(s, "smeter"))

\* finishMainSubExchangeConfirmation
FinishExchange(s) ==
    LET kept == Those(s.deferred, {read \in Read : ~ConfirmsExchange(read)})
    IN  [s EXCEPT !.exPending = FALSE, !.deferred = kept,
                  !.timer = IF kept # <<>> \/ s.exQueued THEN "resolved" ELSE @]

\* enqueueScheduledAction, enqueueScheduledRead: a command of the same class,
\* family and receiver is replaced; a full list drops the new one.
Enqueue(s, cmd) ==
    LET same == {i \in DOMAIN s.scheduled :
                    /\ s.scheduled[i].class = cmd.class
                    /\ s.scheduled[i].fam = cmd.fam /\ s.scheduled[i].rcv = cmd.rcv}
    IN  IF same # {} THEN [s EXCEPT !.scheduled[Min(same)] = cmd]
        ELSE IF Len(s.scheduled) >= MaxScheduled THEN s
        ELSE [s EXCEPT !.scheduled = Append(@, cmd)]

\* requestMainVfoStateForCommand, requestSubVfoStateForCommand: the snapshot is
\* scheduled under the frequency's name.
StateCommand(r) == [class |-> "confirm", fam |-> "freq", rcv |-> r, act |-> "state"]
EnqueueStates(s) == Enqueue(Enqueue(s, StateCommand("main")), StateCommand("sub"))

\* schedulePostExchangeSettingsForCommand
SettingsCommand(r) == [class |-> "confirm", fam |-> "split", rcv |-> r, act |-> "settings"]
EnqueueSettings(s) == Enqueue(Enqueue(s, SettingsCommand("main")), SettingsCommand("sub"))

-----------------------------------------------------------------------------
(* The worker thread: the scheduler and the timers.                        *)

Unchanged == UNCHANGED <<poll, pipe, tx, exchange, gui, used>>

\* One of the bounded events: an act of the operator, or a fault.
Fault == used < MaxEvents /\ used' = used + 1

\* Something the operator does.
Operates(act) ==
    act \in Acts /\ used < MaxEvents /\ used' = used + 1

\* A timeout counts as a fault when the answer is still on its way.
TimedOut(late) == IF late THEN Fault ELSE UNCHANGED used

\* scheduleSMeterRead's action.  MAIN's meter, and any meter while SUB is the
\* operator's, is read without a transaction.
RunSMeter(s, cmd) ==
    IF Blocked(s, "smeter") THEN Enqueue(s, cmd)
    ELSE IF cmd.rcv = "main" \/ s.operator = "sub" THEN SendRead(s, "smeter", cmd.rcv)
    ELSE [Select(s, "sub") EXCEPT !.active = TRUE, !.smeter = TRUE, !.smTimer = TRUE]

\* setFrequencyHz: selects MAIN for the tuning and schedules a read that will
\* select the operator's receiver again.
RunTune(s) == Enqueue(Select(s, "main"), ReadCommand("freq", "main"))

Execute(s, cmd) ==
    CASE cmd.act = "smeter" -> RunSMeter(s, cmd)
      [] cmd.act = "swr"    -> SendRead(s, "swr", cmd.rcv)
      [] cmd.act = "tune"   -> RunTune(s)
      [] cmd.act = "read"   -> RequestScopedRead(s, cmd.fam, cmd.rcv)
      [] OTHER              -> ExecuteScoped(s, cmd)

\* Which command may be next.  Whether the meters are overdue or the background
\* work is starved is up to the clock.
Firsts(q, Test(_)) == LET i == {j \in DOMAIN q : Test(q[j])} IN IF i = {} THEN {} ELSE {Min(i)}
NextScheduled(s) ==
    LET sets   == Firsts(s.scheduled, LAMBDA c : c.class = "set")
        others == Firsts(s.scheduled, LAMBDA c : c.class # "set")
        meters == Firsts(s.scheduled, LAMBDA c : c.class = "meter")
    IN  IF sets # {} /\ (s.streak < MaxStreak \/ others = {}) THEN sets ELSE others \cup meters

\* Bug for the mutation test: commands run during a transaction.
NotConfirming(s) == ~s.exPending

\* The early return of dispatchNextScheduledCommand.
MayRun(s) == ~s.exPending /\ ~s.active

\* dispatchNextScheduledCommand
RunScheduled ==
    /\ MayRun(w)
    /\ \E i \in NextScheduled(w) :
         LET cmd  == w.scheduled[i]
             took == [w EXCEPT !.scheduled = RemoveAt(@, i),
                               !.streak = IF cmd.class # "set" THEN 0
                                          ELSE IF @ < MaxStreak THEN @ + 1 ELSE @]
             done == Execute(took, cmd)
         IN  w' = IF done.exQueued THEN DispatchDeferred(done) ELSE done
    /\ Unchanged

\* The 50 ms of a transaction are over: act, and go back to the operator's receiver.
Act(s, cmd) ==
    CASE cmd.act = "read"  -> SendRead(s, cmd.fam, cmd.rcv)
      [] cmd.act = "state" -> SendReads(s, Identity, cmd.rcv)
      [] OTHER             -> s

WindowEnds ==
    /\ w.window # <<>>
    /\ LET cmd   == Head(w.window)
           acted == Act(w, cmd)
           back  == IF cmd.rcv # w.operator THEN Select(acted, w.operator) ELSE acted
       IN  w' = [back EXCEPT !.window = <<>>, !.closing = TRUE]
    /\ Unchanged

\* The 25 ms are over: finishReceiverScopedAction.
TransactionEnds ==
    /\ w.closing
    /\ w' = DispatchDeferred([w EXCEPT !.closing = FALSE, !.active = FALSE])
    /\ Unchanged

\* The 50 ms of the S-meter read are over.
SMeterTimer ==
    /\ w.smTimer
    /\ w' = SendRead([w EXCEPT !.smTimer = FALSE], "smeter", "sub")
    /\ Unchanged

\* The 75 ms after an exchange are over.
ExchangeTimer ==
    /\ w.exTimer
    /\ LET s == [w EXCEPT !.exTimer = FALSE]
       IN  w' = IF w.exPending THEN RequestScopedReads(s, Identity, "sub") ELSE s
    /\ Unchanged

\* A drain lasts until the replies it was begun for are in.
OnAir(s, f)  == \E i \in DOMAIN s.air : s.air[i].fam = f
MayEnd(s, f) == s.drains[f] # "none" /\ ~OnAir(s, f)

\* The drain timer fires.  No drain of its length or less is still running.
DrainTimer ==
    /\ w.timer # "none"
    /\ LET over == {f \in Families : w.drains[f] # "none" /\ Rank(w.drains[f]) <= Rank(w.timer)}
       IN  /\ \A f \in over : MayEnd(w, f)
           /\ w' = DispatchDeferred([w EXCEPT
                        !.drains = [f \in Families |-> IF f \in over THEN "none" ELSE @[f]],
                        !.timer = "none"])
    /\ Unchanged

\* Another drain ends while the timer is set for a shorter or later one.
DrainEnds(f) ==
    /\ MayEnd(w, f)
    /\ w' = [w EXCEPT !.drains[f] = "none"]
    /\ Unchanged

\* discardExpiredPendingReplies
Expire ==
    /\ w.pending # <<>>
    /\ w' = BeginDrain([w EXCEPT !.pending = Tail(@)], Head(w.pending).fam, "abandoned")
    /\ TimedOut(OnAir(w, Head(w.pending).fam))
    /\ UNCHANGED <<poll, pipe, tx, exchange, gui>>

-----------------------------------------------------------------------------
(* The link and the parser.                                                *)

\* A reply of a read is attributed to the first of its family that is pending,
\* which begins the drain; a SUB S-meter reply also ends its transaction.
Matches(s, f) == Firsts(s.pending, LAMBDA read : read.fam = f)

Resolve(s, i) ==
    LET read == s.pending[i]
        left == BeginDrain([s EXCEPT !.pending = RemoveAt(@, i)], read.fam, "resolved")
    IN  IF read.fam = "smeter" /\ read.rcv = "sub" THEN FinishSMeter(left) ELSE left

\* The value is published for a receiver: an S-meter value into the pipeline,
\* and to the GUI thread, where it matters while an exchange is confirmed.
Publish(s, r, rcv) ==
    /\ w' = IF s.exPending THEN Tell(s, "reply", [r EXCEPT !.rcv = rcv]) ELSE s
    /\ pipe' = IF r.fam = "smeter" THEN Append(pipe, rcv) ELSE pipe

\* parseCommand.  Without a pending read the reply is discarded while its family
\* drains, and otherwise taken for the selected receiver's.
ParseReply ==
    /\ w.air # <<>>
    /\ LET r == Head(w.air)
           s == [w EXCEPT !.air = Tail(@)]
       IN  \/ /\ r.fam = "status"
              /\ Publish(s, r, "main")
           \/ /\ r.fam # "status" /\ Matches(s, r.fam) # {}
              /\ LET i == Min(Matches(s, r.fam)) IN Publish(Resolve(s, i), r, s.pending[i].rcv)
           \/ /\ r.fam # "status" /\ Matches(s, r.fam) = {}
              /\ IF s.drains[r.fam] # "none" THEN w' = s /\ pipe' = pipe
                 ELSE Publish(s, r, s.selected)
    /\ UNCHANGED <<poll, tx, exchange, gui, used>>

\* A read or its reply is lost.
Lose ==
    /\ w.air # <<>> /\ Fault
    /\ w' = [w EXCEPT !.air = Tail(@)]
    /\ UNCHANGED <<poll, pipe, tx, exchange, gui>>

-----------------------------------------------------------------------------
(* The GUI thread: the S-meter poll, the VFO poll, transmission.           *)

ExchangePending == exch \in {"requested", "dispatched"}    \* m_mainSubExchangePending
TimersRun == Len(w.inbox) + Len(pipe) <= MaxUnread

MeterCommand(f, r, act) == [class |-> "meter", fam |-> f, rcv |-> r, act |-> act]

\* The 100 ms timer: transmit meters; or wait for the poll, or give it up; or a
\* new poll of the active VFO or, every fifth time, of the other.
TransmitMeters ==
    /\ tx
    /\ w' = Enqueue(w, MeterCommand("swr", "main", "swr"))
    /\ UNCHANGED <<poll, pipe, tx, exchange, gui, used>>

PollTimesOut ==
    /\ ~tx /\ poll.st # "idle" /\ TimersRun
    /\ poll' = [poll EXCEPT !.st = "idle"]
    /\ w' = IF poll.st = "pending" THEN AbortSMeter(w) ELSE w
    /\ TimedOut(poll.st = "queued" \/ OnAir(w, "smeter") \/ pipe # <<>>)
    /\ UNCHANGED <<pipe, tx, exchange, gui>>

StartPoll ==
    /\ ~tx /\ poll.st = "idle" /\ ~ExchangePending /\ TimersRun
    /\ \E r \in Metered :
         /\ poll' = [st |-> "queued", rcv |-> r]
         /\ w' = Enqueue(w, MeterCommand("smeter", r, "smeter"))
    /\ UNCHANGED <<pipe, tx, exchange, gui, used>>

\* radioValueUpdated: a value of another receiver than the poll's is ignored.
TakeValue ==
    /\ pipe # <<>>
    /\ pipe' = Tail(pipe)
    /\ poll' = IF Head(pipe) = poll.rcv THEN [poll EXCEPT !.st = "idle"] ELSE poll
    /\ UNCHANGED <<w, tx, exchange, gui, used>>

\* m_vfoStatePollTimer
PollVfo ==
    /\ ~tx /\ ~ExchangePending /\ poll.st = "idle"
    /\ \E f \in Identity : w' = Enqueue(w, ReadCommand(f, activeVfo))
    /\ UNCHANGED <<poll, pipe, tx, exchange, gui, used>>

\* pttReadyChanged locks transmission during a selection or an exchange.
Transmit ==
    /\ ~tx /\ ~selecting.on /\ exch = "idle" /\ Operates("transmit")
    /\ tx' = TRUE
    /\ UNCHANGED <<w, poll, pipe, exchange, gui>>

Receive ==
    /\ tx /\ tx' = FALSE
    /\ UNCHANGED <<w, poll, pipe, exchange, gui, used>>

-----------------------------------------------------------------------------
(* The GUI thread: the operator's settings, selections and exchanges.      *)

\* routeVfoReceiverCommand for the active VFO.
Set ==
    /\ Operates("set")
    /\ w' = Enqueue(w, [class |-> "set", fam |-> "control", rcv |-> activeVfo, act |-> "set"])
    /\ UNCHANGED <<poll, pipe, tx, exchange, gui>>

\* setFrequencyHz
Tune ==
    /\ Operates("tune")
    /\ w' = Enqueue(w, [class |-> "set", fam |-> "freq", rcv |-> "main", act |-> "tune"])
    /\ UNCHANGED <<poll, pipe, tx, exchange, gui>>

\* RadioBackend::selectVfo
BackendSelects(r) ==
    /\ activeVfo' = r
    /\ w' = Select([w EXCEPT !.operator = r], r)

\* receiverPairAvailable: what must be over before the operator acts again.
PairAvailable == ~tx /\ exch = "idle" /\ ~selecting.on

\* VfoSelectionController::selectVfo
SelectVfo ==
    /\ PairAvailable /\ Operates("select")
    /\ Steady => ~w.active
    /\ BackendSelects(Other(shownVfo))
    /\ selecting' = [on |-> TRUE, rcv |-> Other(shownVfo), tries |-> 0]
    /\ UNCHANGED <<poll, pipe, tx, exchange, shownVfo>>

\* The radio reports the selection that was requested.
SelectionConfirmed ==
    /\ selecting.on
    /\ shownVfo' = selecting.rcv
    /\ selecting' = [selecting EXCEPT !.on = FALSE, !.tries = 0]
    /\ UNCHANGED <<w, poll, pipe, tx, exchange, activeVfo, used>>

\* No report within a second: try once more, then release the controls.
SelectionTimesOut ==
    /\ selecting.on /\ Fault
    /\ Steady => ~w.active
    /\ IF selecting.tries = 0
       THEN BackendSelects(selecting.rcv) /\ selecting' = [selecting EXCEPT !.tries = 1]
       ELSE UNCHANGED <<w, activeVfo>> /\ selecting' = [selecting EXCEPT !.on = FALSE, !.tries = 0]
    /\ UNCHANGED <<poll, pipe, tx, exchange, shownVfo>>

\* VfoSelectionController::requestMainSubExchange, RadioBackend::exchangeMainSub
ExchangeMainSub ==
    /\ PairAvailable /\ Operates("exchange")
    /\ exch' = "requested" /\ confirmed' = {} /\ retries' = 0
    /\ w' = RequestExchange(w)
    /\ UNCHANGED <<poll, pipe, tx, gui>>

\* What an exchange waits for: both receivers' identities, and MAIN selected.  The
\* status of the scope is asked for together with that of the radio and stands
\* for itself nowhere else: one status here means both.
AllConfirmed == (Identity \X Receivers) \cup {<<"status", "main">>}

Confirming == exch = "dispatched"     \* m_mainSubExchangeDispatched

\* The exchange is confirmed: the GUI shows MAIN, the settings are read again.
Complete ==
    /\ exch' = "scope" /\ retries' = 0 /\ shownVfo' = "main"
    /\ w' = EnqueueSettings(FinishExchange([w EXCEPT !.inbox = Tail(@)]))

\* What a reply confirms; a mode counts only after its receiver's frequency.
Confirms(about) ==
    CASE about.fam = "status" -> about.from = "main"
      [] about.fam = "mode"   -> <<"freq", about.rcv>> \in confirmed
      [] about.fam = "freq"   -> TRUE
      [] OTHER                -> FALSE

ReadSignal ==
    /\ w.inbox # <<>>
    /\ LET signal == Head(w.inbox)
           about  == signal.about
       IN  \/ /\ signal.sig = "sent"
              /\ poll' = IF poll = [st |-> "queued", rcv |-> about.rcv]
                         THEN [poll EXCEPT !.st = "pending"] ELSE poll
              /\ w' = [w EXCEPT !.inbox = Tail(@)]
              /\ UNCHANGED <<exchange, shownVfo>>
           \/ /\ signal.sig = "dispatched"
              /\ IF exch = "requested" THEN exch' = "dispatched" /\ confirmed' = {} /\ retries' = 0
                 ELSE UNCHANGED exchange
              /\ w' = [w EXCEPT !.inbox = Tail(@)]
              /\ UNCHANGED <<poll, shownVfo>>
           \/ /\ signal.sig = "reply"
              /\ confirmed' = IF Confirming /\ Confirms(about)
                              THEN confirmed \cup {<<about.fam, about.rcv>>} ELSE confirmed
              /\ IF Confirming /\ confirmed' = AllConfirmed THEN Complete
                 ELSE w' = [w EXCEPT !.inbox = Tail(@)] /\ UNCHANGED <<exch, retries, shownVfo>>
              /\ UNCHANGED poll
    /\ UNCHANGED <<pipe, tx, activeVfo, selecting, used>>

\* m_mainSubExchangeRetryTimer: ask again for what is missing.
AskAgain(s, missing) ==
    LET famOf(r)  == {f \in Identity : <<f, r>> \in missing}
        status    == IF <<"status", "main">> \in missing THEN SendStatus(Select(s, "main")) ELSE s
    IN  RequestScopedReads(SendMainReads(status, famOf("main")), famOf("sub"), "sub")

RetryExchange ==
    /\ Confirming /\ retries < MaxRetries
    /\ retries' = retries + 1
    /\ w' = AskAgain(w, AllConfirmed \ confirmed)
    /\ TimedOut(w.air \o w.inbox # <<>>)
    /\ UNCHANGED <<poll, pipe, tx, exch, confirmed, gui>>

\* Its last firing: the exchange has failed.
FailExchange ==
    /\ Confirming /\ retries = MaxRetries
    /\ exch' = "idle" /\ retries' = retries + 1
    /\ w' = EnqueueStates(Select(FinishExchange(w), "main"))
    /\ TimedOut(w.air \o w.inbox # <<>>)
    /\ UNCHANGED <<poll, pipe, tx, confirmed, gui>>

\* completeExchangeScopeSync, by a scope frame or a timeout.
ScopeSynced ==
    /\ exch = "scope" /\ exch' = "idle"
    /\ UNCHANGED <<w, poll, pipe, tx, confirmed, retries, gui, used>>

-----------------------------------------------------------------------------
Timers == \/ WindowEnds \/ TransactionEnds \/ SMeterTimer \/ ExchangeTimer
          \/ DrainTimer \/ Expire \/ \E f \in Families : DrainEnds(f)

Commanding == RunScheduled \/ ParseReply \/ Timers

Backend == \/ TransmitMeters \/ PollTimesOut \/ StartPoll \/ TakeValue \/ PollVfo
           \/ ReadSignal \/ RetryExchange \/ FailExchange \/ ScopeSynced

Operator == \/ Transmit \/ Receive \/ Set \/ Tune \/ SelectVfo \/ SelectionConfirmed
            \/ SelectionTimesOut \/ ExchangeMainSub

Next == Commanding \/ Backend \/ Operator \/ Lose

Spec == Init /\ [][Next]_vars

-----------------------------------------------------------------------------
(* Properties.                                                             *)

\* The state is made of what the source's members hold, and the lists keep
\* their limits.
TypeOK ==
    /\ w \in Worker
    /\ Len(w.scheduled) <= MaxScheduled /\ Len(w.deferred) <= MaxDeferred
    /\ Len(w.window) <= 1 /\ w.era \in 0 .. MaxEvents
    /\ poll \in [st : {"idle", "queued", "pending"}, rcv : Receivers]
    /\ pipe \in Seq(Receivers) /\ tx \in BOOLEAN
    /\ exch \in {"idle", "requested", "dispatched", "scope"}
    /\ confirmed \subseteq AllConfirmed /\ retries \in 0 .. MaxRetries + 1
    /\ {activeVfo, shownVfo} \subseteq Receivers
    /\ selecting \in [on : BOOLEAN, rcv : Receivers, tries : {0, 1}]

\* A reply that names no receiver is attributed to the receiver its read was
\* for, or it is discarded: when one comes in, the first read pending of its
\* family is the one it answers, and if none is pending the family drains
\* (src/radio/Commander.cpp 719-909).  It takes a timeout, a late reply and a
\* read of the other receiver to go wrong.
RepliesMeetTheirRead ==
    \A i \in DOMAIN w.air :
        LET r == w.air[i]
        IN  r.fam \in Families /\ (\A j \in 1 .. i - 1 : w.air[j].fam # r.fam) =>
              IF Live(w, r.fam) THEN w.pending[Min(Matches(w, r.fam))].rcv = r.rcv
              ELSE w.drains[r.fam] # "none"

\* At most one piece of work has the radio's receiver at a time: the gate of
\* the transactions is closed exactly while one waits or closes, which is what
\* the assertions of Commander.cpp:376 and 428 demand of five callers.
OneTransaction ==
    /\ w.active <=> w.window # <<>> \/ w.smeter \/ w.closing
    /\ ~(w.window # <<>> /\ (w.smeter \/ w.closing)) /\ ~(w.smeter /\ w.closing)

\* Work done for a receiver finds the radio on that receiver: the settings and
\* reads of a transaction when its 50 ms are over, every frequency or mode that
\* is read, and the S-meter as long as the operator's receiver is MAIN.
WorkMeetsItsReceiver == w.era = 0 =>
    /\ w.window # <<>> => w.selected = Head(w.window).rcv
    /\ \A i \in DOMAIN w.air : w.air[i].fam \in Identity => w.air[i].from = w.air[i].rcv

SMeterMeetsItsReceiver ==
    [][ w.era = 0 => \A i \in DOMAIN w'.air :
          (/\ i = Len(w'.air) /\ Len(w'.air) > Len(w.air)
           /\ w'.air[i].fam = "smeter" /\ w.operator = "main")
              => w'.air[i].from = w'.air[i].rcv ]_vars

\* The receiver transactions: one at a time, each on its receiver.
TransactionsMeetTheirReceiver == OneTransaction /\ WorkMeetsItsReceiver

\* While an exchange awaits its confirmation nothing else takes the radio's
\* receiver: no command of the scheduler starts, and a transaction that opens
\* reads SUB's identity.
ExchangeHoldsTheRadio ==
    [][ w.exPending /\ w'.exPending =>
          /\ Len(w'.scheduled) >= Len(w.scheduled)
          /\ ~w.smeter => ~w'.smeter
          /\ w.window = <<>> /\ w'.window # <<>> =>
                Head(w'.window).act = "read" /\ ConfirmsExchange(Head(w'.window)) ]_vars

\* The S-meter and the exchange keep the radio on the receiver they need.
RadioIsHeld == SMeterMeetsItsReceiver /\ ExchangeHoldsTheRadio

\* An exchange is confirmed by values the radio gave after it: a reply to a
\* read of before the exchange, late or attributed to a newer read, never
\* counts (RadioBackend.cpp:885-953).
ConfirmationsAreFresh ==
    [][ \A c \in confirmed' \ confirmed :
          c[1] \in Identity => Head(w.inbox).about.era = w.era ]_vars

\* The receiver the GUI shows as selected is the one the operator's commands
\* go to.
VfosAgree == exch = "idle" /\ ~selecting.on => activeVfo = shownVfo
=============================================================================
