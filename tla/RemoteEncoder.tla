--------------------------- MODULE RemoteEncoder ---------------------------
(* The RC-28 remote encoder (IcomRC28Manager, IcomRC28Controller) and the   *)
(* two other ways the window keys the transmitter: its PTT button and the   *)
(* DTMF dialog (MainWindow).  RadioBackend::setPtt is reduced to what was   *)
(* last asked and the reports still to come; PttControl models it.          *)
EXTENDS Integers, Sequences, FiniteSets

CONSTANTS
    Modes,       \* values of the setting PTTMode that the operator chooses from
    MaxActs,     \* bound: acts of the operator's hands
    MaxPlugs,    \* bound: times an encoder is plugged in or pulled out
    MaxChanges,  \* bound: changes of PTTMode, and sessions lost
    MaxBacklog   \* bound: reports of the encoder under way

EncoderAssumption ==
    /\ Modes \subseteq {"Disabled", "Momentary", "Latched"}
    /\ {MaxActs, MaxPlugs, MaxChanges, MaxBacklog} \subseteq Nat

VARIABLES
    usb,      \* external: encoders plugged in, buttons held, reports not yet read
    hid,      \* IcomRC28Manager: device open, m_prevButtons, hot-plug timer, blocked
    gui,      \* MainWindow: see Init
    radio,    \* session ready, what setPtt last asked and for whom, reports to come
    mode,     \* PTTMode
    bounds    \* the four counters of the bounds

vars == <<usb, hid, gui, radio, mode, bounds>>

Functions == {"F1", "F2"}
Buttons == Functions \cup {"PTT"}

Init ==
    /\ usb = [count |-> 1, held |-> {}, reports |-> <<>>]
    /\ hid = [open |-> TRUE, prev |-> {}, hotplug |-> FALSE, blocked |-> FALSE]
    /\ gui = [latched |-> FALSE, button |-> FALSE, shown |-> FALSE,
              down |-> {}, timers |-> {}, consumed |-> {},
              presses |-> [f \in Functions |-> 0], actions |-> [f \in Functions |-> 0],
              dtmf |-> FALSE, offTimer |-> FALSE, leads |-> 0]
    /\ radio = [ready |-> TRUE, asked |-> FALSE, by |-> "nobody", reports |-> <<>>,
                excused |-> FALSE]
    /\ mode \in Modes
    /\ bounds = [acts |-> 0, plugs |-> 0, changes |-> 0]

Spends(what, max) == bounds[what] < max /\ bounds' = [bounds EXCEPT ![what] = @ + 1]

-----------------------------------------------------------------------------
(* Both parts of the program's state that a button can change: a pair      *)

\* RadioBackend::setPtt.  A request to transmit can be refused.  "excused" is
\* history: the request came before the last release was reported.
Asked(r, on, who) ==
    IF on = r.asked THEN r
    ELSE [r EXCEPT !.asked = on, !.by = IF on THEN who ELSE "nobody",
                   !.reports = Append(@, on), !.excused = on /\ r.reports # <<>>]

setPtt(s, on, who, refused) ==
    IF on /\ refused THEN s ELSE [s EXCEPT !.radio = Asked(@, on, who)]

\* IcomRC28Controller::setIcomRC28Ptt
setIcomRC28Ptt(s, on, refused) ==
    IF s.radio.ready THEN setPtt(s, on, "encoder", refused) ELSE s

Latches(s, on) == [s EXCEPT !.gui.latched = on]

\* handleIcomRC28Button, the PTT button.
PttButton(s, press, refused) ==
    CASE mode = "Disabled" \/ ~s.radio.ready -> s
      [] press /\ mode = "Latched" ->
            setIcomRC28Ptt(Latches(s, ~s.gui.latched), ~s.gui.latched, refused)
      [] press -> setIcomRC28Ptt(Latches(s, TRUE), TRUE, refused)
      [] mode = "Momentary" -> setIcomRC28Ptt(Latches(s, FALSE), FALSE, refused)
      [] OTHER -> s

\* dispatchIcomRC28Action: what the setting names for a short press or a hold.
Dispatched(g, f) == [g EXCEPT !.actions[f] = @ + 1]

\* Bug for the mutation test: the release does not ask whether the hold acted.
FunctionReleasedTwice(g, f) ==
    Dispatched([g EXCEPT !.down = @ \ {f}, !.timers = @ \ {f}, !.consumed = @ \ {f}], f)

\* handleIcomRC28Button, F1 or F2 released.
FunctionReleased(g, f) ==
    LET released == [g EXCEPT !.down = @ \ {f}, !.consumed = @ \ {f}]
    IN  IF f \in g.timers /\ f \notin g.consumed
        THEN Dispatched([released EXCEPT !.timers = @ \ {f}], f) ELSE released

FunctionPressed(g, f) ==
    [g EXCEPT !.down = @ \cup {f}, !.consumed = @ \ {f}, !.timers = @ \cup {f},
              !.presses[f] = @ + 1]

handleIcomRC28Button(s, b, press, refused) ==
    IF b = "PTT" THEN PttButton(s, press, refused)
    ELSE [s EXCEPT !.gui = IF press THEN FunctionPressed(@, b) ELSE FunctionReleased(@, b)]

\* buttonTransitions: the PTT button first, so that its release waits for nothing.
Order == <<"PTT", "F1", "F2">>

Transitions(s, previous, current, refused) ==
    LET After[n \in 0 .. Len(Order)] ==
            IF n = 0 THEN s
            ELSE IF (Order[n] \in previous) = (Order[n] \in current) THEN After[n - 1]
            ELSE handleIcomRC28Button(After[n - 1], Order[n], Order[n] \in current, refused)
    IN  After[Len(Order)]

State == [gui |-> gui, radio |-> radio]
Becomes(s) == gui' = s.gui /\ radio' = s.radio

\* Bug for the mutation test: a latched transmission survives the encoder.
ConnectionKept(s) == s

\* The connectionChanged(false) handler: what is latched is released.
ConnectionLost(s) ==
    IF s.gui.latched THEN setIcomRC28Ptt(Latches(s, FALSE), FALSE, FALSE) ELSE s

-----------------------------------------------------------------------------
(* IcomRC28Manager                                                         *)

\* poll: one report, or the failed read of an encoder that was pulled out.
poll ==
    /\ hid.open
    /\ \/ /\ usb.reports # <<>>
          /\ usb' = [usb EXCEPT !.reports = Tail(@)]
          /\ hid' = [hid EXCEPT !.prev = Head(usb.reports)]
          /\ \E refused \in BOOLEAN : Becomes(Transitions(State, hid.prev, Head(usb.reports), refused))
       \/ /\ usb.reports = <<>> /\ usb.count = 0
          /\ hid' = [hid EXCEPT !.open = FALSE, !.prev = {}, !.hotplug = TRUE]
          /\ Becomes(ConnectionLost(Transitions(State, hid.prev, {}, FALSE)))
          /\ UNCHANGED usb
    /\ UNCHANGED <<mode, bounds>>

\* hotplugCheck and open: two encoders are refused.
hotplugCheck ==
    /\ hid.hotplug /\ ~hid.open
    /\ hid' = [hid EXCEPT !.open = usb.count = 1, !.hotplug = usb.count # 1, !.prev = {},
                          !.blocked = usb.count = 2 \/ (usb.count = 0 /\ @)]
    /\ usb' = IF usb.count = 1 THEN [usb EXCEPT !.reports = <<>>] ELSE usb
    /\ UNCHANGED <<gui, radio, mode, bounds>>

-----------------------------------------------------------------------------
(* IcomRC28Controller and MainWindow                                       *)

\* A hold timer, 600 ms after the press.
HoldTimer(f) ==
    /\ f \in gui.timers
    /\ gui' = LET fired == [gui EXCEPT !.timers = @ \ {f}]
              IN  IF f \in gui.down /\ f \notin gui.consumed
                  THEN Dispatched([fired EXCEPT !.consumed = @ \cup {f}], f) ELSE fired
    /\ UNCHANGED <<usb, hid, radio, mode, bounds>>

onPttPressed ==
    /\ Spends("acts", MaxActs) /\ ~gui.button
    /\ \E refused \in BOOLEAN :
          Becomes(IF radio.ready THEN [setPtt(State, TRUE, "button", refused) EXCEPT !.gui.button = TRUE]
                  ELSE [State EXCEPT !.gui.button = TRUE])
    /\ UNCHANGED <<usb, hid, mode>>

onPttReleased ==
    /\ gui.button
    /\ Becomes([setPtt(State, FALSE, "button", FALSE) EXCEPT !.gui.button = FALSE])
    /\ UNCHANGED <<usb, hid, mode, bounds>>

\* onDtmfSendRequested, when the request to transmit is accepted.
onDtmfSendRequested ==
    /\ Spends("acts", MaxActs) /\ ~gui.dtmf /\ radio.ready
    /\ Becomes([setPtt(State, TRUE, "dtmf", FALSE)
                   EXCEPT !.gui.dtmf = TRUE, !.gui.offTimer = TRUE, !.gui.leads = @ + 1])
    /\ UNCHANGED <<usb, hid, mode>>

\* The lead-in of a send, which an abort does not stop.
LeadIn ==
    /\ gui.leads > 0 /\ gui' = [gui EXCEPT !.leads = @ - 1]
    /\ UNCHANGED <<usb, hid, radio, mode, bounds>>

\* m_dtmfPttOffTimer, which runs longer than any lead-in before it.
DtmfPttOff ==
    /\ gui.offTimer /\ gui.leads = 0
    /\ Becomes([setPtt(State, FALSE, "dtmf", FALSE)
                   EXCEPT !.gui.dtmf = FALSE, !.gui.offTimer = FALSE])
    /\ UNCHANGED <<usb, hid, mode, bounds>>

\* RadioModel::onPttChanged and MainWindow::onPttChanged: only changes count.
Shown(g, on) ==
    IF on = g.shown THEN g
    ELSE [g EXCEPT !.shown = on, !.latched = on, !.dtmf = on /\ @,
                   !.offTimer = (on \/ ~g.dtmf) /\ @]

\* The radio reports what was asked of it.
onPttChanged ==
    /\ radio.reports # <<>> /\ radio' = [radio EXCEPT !.reports = Tail(@)]
    /\ gui' = Shown(gui, Head(radio.reports))
    /\ UNCHANGED <<usb, hid, mode, bounds>>

\* RadioModel::onBackendDisconnected and MainWindow::onConnectionChanged(false);
\* the session's end unkeys the radio.
SessionEnds ==
    /\ radio.ready /\ Spends("changes", MaxChanges)
    /\ radio' = [radio EXCEPT !.ready = FALSE, !.asked = FALSE, !.by = "nobody",
                              !.reports = <<>>, !.excused = FALSE]
    /\ gui' = [Shown(gui, FALSE) EXCEPT !.latched = FALSE]
    /\ UNCHANGED <<usb, hid, mode>>

SessionReady ==
    /\ ~radio.ready /\ radio' = [radio EXCEPT !.ready = TRUE]
    /\ UNCHANGED <<usb, hid, gui, mode, bounds>>

\* The settings panel: PTTMode is read when a button moves.
SetMode(m) ==
    /\ m # mode /\ Spends("changes", MaxChanges) /\ mode' = m
    /\ radio' = [radio EXCEPT !.excused = @ \/ radio.by = "encoder"]
    /\ UNCHANGED <<usb, hid, gui>>

-----------------------------------------------------------------------------
(* External: hands and cables                                              *)

Move(b) ==
    /\ usb.count > 0 /\ Len(usb.reports) < MaxBacklog /\ Spends("acts", MaxActs)
    /\ LET held == (usb.held \cup {b}) \ (usb.held \cap {b})
       IN  usb' = [usb EXCEPT !.held = held, !.reports = Append(@, held)]
    /\ UNCHANGED <<hid, gui, radio, mode>>

\* Pulled out: reports not yet read can be lost.
Unplug ==
    /\ usb.count > 0 /\ Spends("plugs", MaxPlugs)
    /\ \E kept \in {usb.reports, <<>>} :
          usb' = IF usb.count = 1 THEN [count |-> 0, held |-> {}, reports |-> kept]
                 ELSE [usb EXCEPT !.count = 1]
    /\ UNCHANGED <<hid, gui, radio, mode>>

Plug ==
    /\ usb.count < 2 /\ Spends("plugs", MaxPlugs)
    /\ (usb.count = 0 => ~hid.open)
    /\ usb' = [usb EXCEPT !.count = @ + 1]
    /\ UNCHANGED <<hid, gui, radio, mode>>

-----------------------------------------------------------------------------
Next ==
    \/ poll \/ hotplugCheck
    \/ \E f \in Functions : HoldTimer(f)
    \/ onPttPressed \/ onPttReleased \/ onDtmfSendRequested \/ LeadIn \/ DtmfPttOff
    \/ onPttChanged \/ SessionEnds \/ SessionReady
    \/ \E m \in Modes : SetMode(m)
    \/ \E b \in Buttons : Move(b)
    \/ Unplug \/ Plug

Spec == Init /\ [][Next]_vars

-----------------------------------------------------------------------------
TypeOK ==
    /\ usb.count \in 0 .. 2 /\ usb.held \subseteq Buttons /\ hid.prev \subseteq Buttons
    /\ hid.open => ~hid.hotplug
    /\ radio.by \in {"nobody", "encoder", "button", "dtmf"} /\ mode \in Modes
    /\ radio.asked = (radio.by # "nobody")
    /\ gui.timers \subseteq Functions /\ gui.down \subseteq Functions

\* What holds a transmission is there to end it: the button is down, the DTMF
\* timer runs, or the encoder is plugged in with its button held or latched.
\* When a request overtook the report of the last release, or PTTMode was changed
\* during the transmission, the program does not ensure it.
HeldBySomebody ==
    (radio.asked /\ ~radio.excused) =>
        CASE radio.by = "button" -> gui.button
          [] radio.by = "dtmf" -> gui.offTimer
          [] OTHER -> hid.open /\ (gui.latched \/ "PTT" \in hid.prev)

\* A press of F1 or F2 acts once: short, held, or ended by pulling the cable.
ActsOnce ==
    \A f \in Functions :
        gui.actions[f] = gui.presses[f] - (IF f \in gui.down /\ f \notin gui.consumed THEN 1 ELSE 0)
=============================================================================
