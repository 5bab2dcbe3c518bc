------------------------- MODULE ReceiverControls -------------------------
(* Receiver settings from the operator's hand to the panel and back:       *)
(* RadioBackend's setters, Commander's schedule of interactive sets and    *)
(* confirmatory reads, RadioRouter::route, RadioState and its band recall, *)
(* VfoController's pending level and band, TransmitConfigurationPolicy.    *)
(*                                                                         *)
(* A receiver-scoped action is one step: that no other command falls       *)
(* between the selection of its receiver and its end is what               *)
(* CommandScheduler's WorkMeetsItsReceiver is about.  A control the        *)
(* instance leaves out of Fields is dropped from every script.             *)
EXTENDS Integers, Sequences, FiniteSets, SequencesExt

CONSTANTS
    Fields,       \* the controls of this instance; "freq" is one of them
    Requests,     \* the setters the operator uses
    MaxRequests,  \* bound: requests of the operator
    MaxPanel,     \* bound: changes made at the radio itself
    MaxLost,      \* bound: replies that never come
    Vfos,         \* the receivers the operator works with
    MaxBacklog,   \* bound: a poll comes when fewer commands and replies than this wait
    Spent         \* scenarios: <<requests, changes, lost>> used up at the start

ControlsAssumption ==
    /\ "freq" \in Fields /\ {MaxRequests, MaxPanel, MaxLost} \subseteq Nat /\ MaxBacklog \in Nat \ {0} /\ Vfos \subseteq {"MAIN", "SUB"}
    /\ Spent \subseteq (0 .. MaxRequests) \X (0 .. MaxPanel) \X (0 .. MaxLost)

VARIABLES
    backend,   \* schedule, timers and requests: see Init
    radio,     \* external: each receiver's settings
    replies,   \* readings on their way, in order
    panel,     \* RadioState and VfoController
    want,      \* history: the operator's last request, where nothing else decided since
    crossed,   \* history: a reading of one band was remembered for another
    requests, changes, lost

vars == <<backend, radio, replies, panel, want, crossed, requests, changes, lost>>

Receivers == {"MAIN", "SUB"}
Unknown == -1
\* Three frequencies on two bands; the other controls have two positions.
Frequencies == {1, 2, 3}
Bands == {1, 2}
radioBandForFrequency(hz) == (hz + 1) \div 2
radioBandDefaultFrequency == [b \in Bands |-> 2 * b - 1]
Values == {0, 1}
Positions(f) == IF f = "freq" THEN Frequencies ELSE Values

\* The fields of a BandRecall record, in the order applyVfoBandRecall sends them.
RecallOrder == <<"freq", "mode", "offset", "duplex", "tone", "tsql", "dtcs", "toneMode">>
RecallFields == ToSet(RecallOrder) \cap Fields

-----------------------------------------------------------------------------
(* What a command does: write a field, read one, leave a read to           *)
(* CachingQueue (the readback appendSetCommandValue implies), or schedule  *)
(* a read of its own.                                                      *)

Write(f, v)  == [op |-> "set", field |-> f, value |-> v]
Op(o, f)     == [op |-> o, field |-> f, value |-> Unknown]
Read(f)      == Op("get", f)
Readback(f)  == Op("implied", f)
Later(f)     == Op("schedule", f)
Each(F(_), s) == [i \in 1 .. Len(s) |-> F(s[i])]

\* A setter: its key in the schedule, what it writes, whether the readback is
\* implied, and what it reads itself.
Setter(key, writes, implied, reads) ==
    [key |-> key, writes |-> writes, implied |-> implied, reads |-> reads]
Plain(f, reads) == Setter(f, <<f>>, TRUE, reads)
Routed(f, reads) == Setter(f, <<f>>, FALSE, reads)

\* The setters that act on the active VFO or on MAIN and imply their readback.
LevelSetters == [
    nr |-> Plain("nr", <<>>), nrLevel |-> Plain("nrLevel", <<>>),
    nb |-> Plain("nb", <<>>), nbLevel |-> Plain("nbLevel", <<>>),
    preamp |-> Plain("preamp", <<"att">>), att |-> Plain("att", <<"preamp">>),
    rfGain |-> Plain("rfGain", <<>>), tuningStep |-> Plain("tuningStep", <<>>)]
ToneSetters == [
    squelch |-> Plain("squelch", <<>>), agc |-> Plain("agc", <<>>),
    autoNotch |-> Plain("autoNotch", <<>>), manualNotch |-> Plain("manualNotch", <<>>),
    duplex |-> Plain("duplex", <<"duplex">>),
    offset |-> Setter("sendOffset", <<"offset">>, TRUE, <<"offset">>),
    toneMode |-> Plain("toneMode", <<"toneMode">>),
    tone |-> Setter("tone", <<"tone", "tsql">>, TRUE, <<"tone", "tsql">>),
    dtcs |-> Plain("dtcs", <<"dtcs">>)]

\* The setters of one VFO panel: routed, with an explicit read.
VfoSetters == [
    vfoMode |-> Routed("mode", <<"mode">>), vfoFilter |-> Routed("mode", <<"mode">>),
    vfoAgc |-> Routed("agc", <<"agc">>), vfoAtt |-> Routed("att", <<"att", "preamp">>),
    vfoNb |-> Routed("nb", <<"nb">>), vfoNbLevel |-> Routed("nbLevel", <<"nbLevel">>),
    vfoNotch |-> Setter("autoNotch", <<"autoNotch", "manualNotch">>, FALSE, <<"autoNotch", "manualNotch">>),
    vfoNr |-> Routed("nr", <<"nr">>), vfoNrLevel |-> Routed("nrLevel", <<"nrLevel">>),
    vfoPreamp |-> Routed("preamp", <<"preamp", "att">>),
    vfoRfGain |-> Routed("rfGain", <<"rfGain">>), vfoSquelch |-> Routed("squelch", <<"squelch">>)]

SetterOf == LevelSetters @@ ToneSetters @@ VfoSetters

Here(script) == SelectSeq(script, LAMBDA o : o.field \in Fields)

Script(t, v) ==
    Here([i \in 1 .. Len(t.writes) |-> Write(t.writes[i], v)]
         \o (IF t.implied THEN Each(Readback, t.writes) ELSE <<>>)
         \o Each(Read, t.reads))

\* setFrequencyHz for MAIN; setVfoFrequencyHz for SUB, whose reads two timers schedule.
TuneScript(r, hz) == <<Write("freq", hz)>> \o (IF r = "MAIN" THEN <<Later("freq")>> ELSE <<>>)

\* applyVfoBandRecall: the frequency, each remembered field, then all the reads.
RecallScript(record) ==
    LET known == SelectSeq(RecallOrder, LAMBDA f : f \in Fields /\ record[f] # Unknown)
    IN  [i \in 1 .. Len(known) |-> Write(known[i], record[known[i]])]
        \o Here(Each(Later, <<"freq", "mode", "duplex", "offset", "toneMode", "tone", "tsql", "dtcs">>))

\* kReceiverSnapshotCommands behind the identity: requestVfoState.
Snapshot == <<"freq", "mode", "agc", "att", "nb", "nbLevel", "autoNotch", "manualNotch", "nr", "nrLevel",
              "preamp", "rfGain", "squelch", "duplex", "offset", "toneMode", "tone", "tsql", "dtcs">>

\* Bug for the mutation test: the squelch and the RF gain are not polled.
PolledWithoutLevels == SelectSeq(Snapshot, LAMBDA f : f \in Fields \ {"rfGain", "squelch"})

\* kVfoStatePollItems, without the three that are MAIN's alone.
Polled == SelectSeq(Snapshot, LAMBDA f : f \in Fields)

-----------------------------------------------------------------------------
Blank == [f \in Fields |-> Unknown]
Remembered(s) == [f \in Fields |-> IF f \in RecallFields THEN s[f] ELSE Unknown]

\* Both receivers on the first band, read once at start-up.
Init ==
    /\ backend = [schedule |-> <<>>,                       \* m_scheduledCommands
                  streak |-> 0,                            \* m_consecutiveInteractiveDispatches
                  implied |-> <<>>,                        \* readbacks CachingQueue holds
                  active |-> "MAIN",                       \* m_activeVfo
                  phase |-> 1,                             \* m_vfoStatePollPhase
                  timers |-> 0,                            \* SUB's delayed frequency reads
                  confirm |-> [f \in {"freq", "duplex", "offset"} |-> Unknown]] \* m_transmitConfiguration
    /\ radio = [r \in Receivers |-> [f \in Fields |-> IF f = "freq" THEN 1 ELSE 0]]
    /\ replies = <<>>
    /\ panel = [r \in Receivers |-> [band |-> 1, value |-> radio[r],
                                     recall |-> [b \in Bands |-> IF b = 1 THEN Remembered(radio[r]) ELSE Blank],
                                     pendingBand |-> 0,        \* m_pendingBandRecall
                                     settling |-> FALSE,       \* m_bandRecallSettleTimer
                                     level |-> 0,              \* m_rfGain, as shown
                                     pendingLevel |-> Unknown]] \* m_pendingRfGain
    /\ want = [r \in Receivers |-> Blank]
    /\ crossed = FALSE
    /\ \E b \in Spent : requests = b[1] /\ changes = b[2] /\ lost = b[3]

-----------------------------------------------------------------------------
(* Commander::enqueueScheduledAction                                       *)

Entry(class, key, r, script) == [class |-> class, key |-> key, rcv |-> r, script |-> script]
SameKey(e, d) == e.class = d.class /\ e.key = d.key /\ e.rcv = d.rcv

\* Bug for the mutation test: a second request for a queued control is dropped.
EnqueuedOnce(q, e) == IF \E i \in 1 .. Len(q) : SameKey(q[i], e) THEN q ELSE Append(q, e)

\* Bug for the mutation test: every request is queued behind the others.
EnqueuedAgain(q, e) == Append(q, e)

\* A queued entry of the same class, control and receiver keeps its place and
\* takes the new action.
Enqueued(q, e) ==
    IF \E i \in 1 .. Len(q) : SameKey(q[i], e)
    THEN [i \in 1 .. Len(q) |-> IF SameKey(q[i], e) THEN e ELSE q[i]]
    ELSE Append(q, e)

ReadEntry(r, f) == Entry("read", f, r, <<Read(f)>>)
SnapshotEntry(r) == Entry("read", "freq", r, Here(Each(Read, Snapshot)))

-----------------------------------------------------------------------------
(* The operator                                                            *)

Requested(r, e) ==
    /\ requests < MaxRequests /\ requests' = requests + 1
    /\ UNCHANGED <<radio, replies, crossed, changes, lost>>

Wants(r, f, v) == want' = [want EXCEPT ![r][f] = v]

\* TransmitConfigurationPolicy::requestFrequency, requestDuplexMode, requestOffset.
Expecting(b, f, v) == IF f \in {"freq", "duplex", "offset"} THEN [b EXCEPT !.confirm[f] = v] ELSE b

\* A setter of the active VFO; the duplex mode and the offset are awaited for
\* MAIN even when the active VFO is SUB.
SetActive(name, v) ==
    LET t == SetterOf[name]
        r == backend.active
        f == t.writes[1]
    IN  /\ name \notin DOMAIN VfoSetters /\ Requested(r, t)
        /\ backend' = [Expecting(backend, f, v) EXCEPT !.schedule =
                          Enqueued(@, Entry("set", t.key, r, Script(t, v)))]
        /\ Wants(r, f, v) /\ UNCHANGED panel

\* A setter of a VFO panel; requestReceiverLevel also waits for the confirmation.
SetVfo(r, name, v) ==
    LET t == SetterOf[name]
    IN  /\ name \in DOMAIN VfoSetters /\ Requested(r, t)
        /\ backend' = [backend EXCEPT !.schedule = Enqueued(@, Entry("set", t.key, r, Script(t, v)))]
        /\ panel' = IF name = "vfoRfGain" THEN [panel EXCEPT ![r].pendingLevel = v] ELSE panel
        /\ Wants(r, t.writes[1], v)

\* setVfoFrequencyHz, with setFrequencyHz for MAIN.
Tuned(b, r, hz) ==
    [(IF r = "MAIN" THEN Expecting(b, "freq", hz) ELSE [b EXCEPT !.timers = 2])
        EXCEPT !.schedule = Enqueued(@, Entry("set", "tune", r, TuneScript(r, hz)))]

Tune(r, hz) ==
    /\ "tune" \in Requests /\ hz # panel[r].value["freq"]
    /\ Requested(r, hz) /\ backend' = Tuned(backend, r, hz)
    /\ Wants(r, "freq", hz) /\ UNCHANGED panel

\* applyVfoBandRecall for MAIN awaits what it restores.
Recalled(b, r, record) ==
    [(IF r = "MAIN"
      THEN [b EXCEPT !.confirm = [f \in DOMAIN @ |-> IF f \in Fields /\ record[f] # Unknown
                                                     THEN record[f] ELSE @[f]]]
      ELSE b)
        EXCEPT !.schedule = Enqueued(@, Entry("set", "tune", r, RecallScript(record)))]

\* VfoController::selectBand
selectBand(r, band) ==
    LET record == panel[r].recall[band]
        hz == IF record["freq"] # Unknown THEN record["freq"] ELSE radioBandDefaultFrequency[band]
    IN  /\ "band" \in Requests /\ band # panel[r].band /\ panel[r].pendingBand = 0
        /\ Requested(r, band)
        /\ backend' = IF record["freq"] # Unknown THEN Recalled(backend, r, record)
                      ELSE Tuned(backend, r, hz)
        /\ panel' = [panel EXCEPT ![r].pendingBand = band, ![r].settling = FALSE]
        \* What a recall restores is no longer the operator's last request.
        /\ want' = [want EXCEPT ![r] = [f \in Fields |-> IF f = "freq" THEN hz
                                                         ELSE IF f \in RecallFields THEN Unknown ELSE @[f]]]

\* selectVfo, with the selection's own confirmation left to CommandScheduler.
selectVfo ==
    /\ "select" \in Requests /\ Requested("MAIN", 0)
    /\ backend' = [backend EXCEPT !.active = CHOOSE r \in Receivers : r # @]
    /\ UNCHANGED <<panel, want>>

-----------------------------------------------------------------------------
(* The radio, and the dispatch of the schedule                             *)

\* External: entering another band loads that band's simplex defaults; the
\* attenuator and the preamplifier exclude each other.
Applied(s, f, v) ==
    IF f = "freq" /\ radioBandForFrequency(v) # radioBandForFrequency(s["freq"])
    THEN [g \in Fields |-> IF g = "freq" THEN v ELSE 0]
    ELSE [g \in Fields |-> IF g = f THEN v
                           ELSE IF v = 1 /\ {f, g} = {"att", "preamp"} THEN 0 ELSE s[g]]

Reading(r, s, f) == [rcv |-> r, field |-> f, value |-> s[f], band |-> radioBandForFrequency(s["freq"])]

\* One command of a script: d holds the receiver's settings, the readings it
\* sends, the schedule, the implied readbacks, and the settings it replaced.
Executed(r, d, o) ==
    CASE o.op = "set"      -> LET s == Applied(d.set, o.field, o.value)
                              IN  [d EXCEPT !.set = s, !.decided = @ \cup
                                      {g \in Fields \ {o.field} : s[g] # d.set[g]}]
      [] o.op = "get"      -> [d EXCEPT !.out = Append(@, Reading(r, d.set, o.field))]
      [] o.op = "implied"  -> [d EXCEPT !.implied = IF Contains(@, <<o.field, r>>) THEN @
                                                    ELSE Append(@, <<o.field, r>>)]
      [] o.op = "schedule" -> [d EXCEPT !.queue = Enqueued(@, ReadEntry(r, o.field))]

First(class) == {i \in 1 .. Len(backend.schedule) :
                    /\ (backend.schedule[i].class = "set") = class
                    /\ \A j \in 1 .. i - 1 : (backend.schedule[j].class = "set") # class}

\* kMaxConsecutiveInteractiveDispatches
MaxStreak == 3

\* An interactive set first, but not four in a row while a read waits.
Selected == IF First(TRUE) # {} /\ (backend.streak < MaxStreak \/ First(FALSE) = {})
            THEN First(TRUE) ELSE First(FALSE)

\* dispatchNextScheduledCommand and executeReceiverScopedAction
dispatchNextScheduledCommand ==
    \E i \in Selected :
        LET e == backend.schedule[i]
            d == FoldLeft(LAMBDA x, o : Executed(e.rcv, x, o),
                          [set |-> radio[e.rcv], out |-> <<>>, implied |-> backend.implied,
                           queue |-> RemoveAt(backend.schedule, i), decided |-> {}],
                          e.script)
        IN  /\ backend' = [backend EXCEPT !.schedule = d.queue, !.implied = d.implied,
                              !.streak = IF e.class = "set" THEN (IF @ < MaxStreak THEN @ + 1 ELSE @) ELSE 0]
            /\ radio' = [radio EXCEPT ![e.rcv] = d.set]
            /\ replies' = replies \o d.out
            /\ want' = [want EXCEPT ![e.rcv] = [f \in Fields |-> IF f \in d.decided THEN Unknown ELSE @[f]]]
            /\ UNCHANGED <<panel, crossed, requests, changes, lost>>

\* CachingQueue sends an implied readback when it comes to it, outside any
\* scope: the radio answers for the receiver selected then.
ImpliedReadback ==
    /\ backend.implied # <<>>
    /\ LET h == Head(backend.implied)
       IN  replies' = Append(replies, [Reading(backend.active, radio[backend.active], h[1]) EXCEPT !.rcv = h[2]])
    /\ backend' = [backend EXCEPT !.implied = Tail(@)]
    /\ UNCHANGED <<radio, panel, want, crossed, requests, changes, lost>>

\* The 500 ms poll reads one control of the active VFO.
VfoStatePoll ==
    /\ Len(backend.schedule) + Len(replies) < MaxBacklog
    /\ backend' = [backend EXCEPT !.schedule = Enqueued(@, ReadEntry(backend.active, Polled[backend.phase])),
                                  !.phase = (@ % Len(Polled)) + 1]
    /\ UNCHANGED <<radio, replies, panel, want, crossed, requests, changes, lost>>

\* The delayed reads behind a SUB tune.
SubReadTimer ==
    /\ backend.timers > 0
    /\ backend' = [backend EXCEPT !.timers = @ - 1, !.schedule = Enqueued(@, ReadEntry("SUB", "freq"))]
    /\ UNCHANGED <<radio, replies, panel, want, crossed, requests, changes, lost>>

FrontPanel(r, f, v) ==
    /\ changes < MaxPanel /\ changes' = changes + 1 /\ radio[r][f] # v
    /\ radio' = [radio EXCEPT ![r] = Applied(@, f, v)]
    /\ want' = [want EXCEPT ![r] = [g \in Fields |-> IF radio'[r][g] # radio[r][g] THEN Unknown ELSE @[g]]]
    /\ UNCHANGED <<backend, replies, panel, crossed, requests, lost>>

Lose ==
    /\ replies # <<>> /\ lost < MaxLost /\ lost' = lost + 1
    /\ replies' = Tail(replies)
    /\ UNCHANGED <<backend, radio, panel, want, crossed, requests, changes>>

-----------------------------------------------------------------------------
(* A reading arrives: RadioRouter::route, RadioState::applyRadioValue,     *)
(* VfoController                                                           *)

\* A frequency of another band clears the receiver first.
OfBand(p, band) ==
    IF p.band = band THEN p ELSE [p EXCEPT !.band = band, !.value = Blank]

applyRadioValue(p, m) ==
    LET q == IF m.field = "freq" THEN OfBand(p, radioBandForFrequency(m.value)) ELSE p
        v == [q EXCEPT !.value[m.field] = m.value]
    IN  IF m.field \in RecallFields /\ v.band # 0 THEN [v EXCEPT !.recall[v.band][m.field] = m.value] ELSE v

\* applyReceiverLevelConfirmation: another level than the awaited one is stale.
applyReceiverLevelConfirmation(p, m) ==
    IF m.field # "rfGain" \/ (p.pendingLevel # Unknown /\ p.pendingLevel # m.value) THEN p
    ELSE [p EXCEPT !.level = m.value, !.pendingLevel = Unknown]

IdentityConfirmed(p) ==
    /\ p.pendingBand # 0 /\ p.band = p.pendingBand
    /\ \A f \in {"freq", "mode"} \cap Fields : p.value[f] # Unknown

\* VfoController::applyRadioState: one quiet period once the identity is complete.
applyRadioState(p) == [p EXCEPT !.settling = IdentityConfirmed(p)]

\* confirmFrequency, confirmDuplexMode, confirmOffset: MAIN's readings alone.
Confirmed(b, m) ==
    IF m.rcv = "MAIN" /\ m.field \in DOMAIN b.confirm /\ b.confirm[m.field] = m.value
    THEN [b EXCEPT !.confirm[m.field] = Unknown] ELSE b

route ==
    /\ replies # <<>>
    /\ LET m == Head(replies)
           p == applyRadioState(applyReceiverLevelConfirmation(applyRadioValue(panel[m.rcv], m), m))
       IN  /\ panel' = [panel EXCEPT ![m.rcv] = p]
           /\ backend' = Confirmed(backend, m)
           /\ crossed' = (crossed \/ (m.field \in RecallFields /\ p.band # m.band))
    /\ replies' = Tail(replies)
    /\ UNCHANGED <<radio, want, requests, changes, lost>>

-----------------------------------------------------------------------------
(* VfoController's timers                                                  *)

\* finishPendingBandRecall, 250 ms after the identity was complete.
BandSettles(r) ==
    /\ panel[r].settling /\ IdentityConfirmed(panel[r])
    /\ panel' = [panel EXCEPT ![r].pendingBand = 0, ![r].settling = FALSE]
    /\ UNCHANGED <<backend, radio, replies, want, crossed, requests, changes, lost>>

\* The band recall timeout, 5 s: give up and read the VFO again.
BandTimesOut(r) ==
    /\ panel[r].pendingBand # 0 /\ ~panel[r].settling
    /\ panel' = [panel EXCEPT ![r].pendingBand = 0]
    /\ backend' = [backend EXCEPT !.schedule = Enqueued(@, SnapshotEntry(r))]
    /\ UNCHANGED <<radio, replies, want, crossed, requests, changes, lost>>

\* receiverLevelConfirmationTimedOut
LevelTimesOut(r) ==
    /\ panel[r].pendingLevel # Unknown
    /\ panel' = [panel EXCEPT ![r].pendingLevel = Unknown]
    /\ backend' = [backend EXCEPT !.schedule = Enqueued(@, SnapshotEntry(r))]
    /\ UNCHANGED <<radio, replies, want, crossed, requests, changes, lost>>

-----------------------------------------------------------------------------
Next ==
    \/ \E name \in Requests \cap DOMAIN SetterOf, v \in Values :
          SetActive(name, v) \/ \E r \in Vfos : SetVfo(r, name, v)
    \/ \E r \in Vfos :
          \/ \E hz \in Frequencies : Tune(r, hz)
          \/ \E b \in Bands : selectBand(r, b)
          \/ \E f \in Fields : \E v \in Positions(f) : FrontPanel(r, f, v)
          \/ BandSettles(r) \/ BandTimesOut(r) \/ LevelTimesOut(r)
    \/ selectVfo
    \/ dispatchNextScheduledCommand \/ ImpliedReadback \/ VfoStatePoll \/ SubReadTimer
    \/ route \/ Lose

Spec == Init /\ [][Next]_vars

\* The scheduler's timer, the poll and the event loop keep running.
Fairness ==
    /\ WF_vars(dispatchNextScheduledCommand) /\ WF_vars(ImpliedReadback)
    /\ WF_vars(VfoStatePoll) /\ WF_vars(SubReadTimer) /\ WF_vars(route)
    /\ \A r \in Receivers : WF_vars(BandSettles(r)) /\ WF_vars(BandTimesOut(r)) /\ WF_vars(LevelTimesOut(r))

FairSpec == Spec /\ Fairness

-----------------------------------------------------------------------------
TypeOK ==
    /\ backend.active \in Receivers /\ backend.phase \in 1 .. Len(Polled)
    /\ \A i \in 1 .. Len(backend.schedule) : \A j \in 1 .. i - 1 :
          ~SameKey(backend.schedule[i], backend.schedule[j])
    /\ \A r \in Receivers : \A f \in Fields :
          /\ radio[r][f] \in Positions(f)
          /\ {panel[r].value[f], want[r][f]} \subseteq Positions(f) \cup {Unknown}
    /\ crossed \in BOOLEAN

Writes(e, f) == \E i \in 1 .. Len(e.script) : e.script[i].op = "set" /\ e.script[i].field = f

\* However requests replace one another in the schedule, once none of them
\* waits the radio has the operator's last one for every control, unless the
\* radio itself decided otherwise since (Commander::enqueueScheduledAction,
\* dispatchNextScheduledCommand).
LatestRequestWins ==
    \A r \in Receivers : \A f \in Fields :
        \/ want[r][f] \in {Unknown, radio[r][f]}
        \/ \E i \in 1 .. Len(backend.schedule) :
              backend.schedule[i].rcv = r /\ Writes(backend.schedule[i], f)

\* What the panel of the VFO in use shows, with the level VfoController holds.
PanelTrue(r) ==
    /\ \A f \in Fields : panel[r].value[f] = radio[r][f]
    /\ "rfGain" \in Fields => panel[r].level = radio[r]["rfGain"]
    /\ panel[r].pendingBand = 0

\* Whatever was requested, replaced, lost or turned at the radio, the panel of
\* the VFO in use comes to show the radio's settings and stays so: the poll
\* covers every control, and no pending band or level outlives its timer.
ActivePanelTrue == PanelTrue(backend.active)
PanelBecomesTrue == <>[]ActivePanelTrue

\* RadioState.cpp: the receiver is cleared on a band change "so replies from
\* the old band cannot be copied into the new band's recall record"; RadioState.h
\* calls the record "confirmed-only history for a receiver/band pair".
RecallOfItsBand == ~crossed
=============================================================================
