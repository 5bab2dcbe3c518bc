----------------------------- MODULE ScopeTuning -----------------------------
(***************************************************************************)
(* Tuning at the spectrum scope and with the RC-28 encoder.  A click names *)
(* a frequency and a step of the wheel or of the encoder counts from the   *)
(* pending frequency, if there is one, so SpectrumScopeController shows    *)
(* the request at once, sends it 70 ms after the last one and gives up the *)
(* optimistic display 650 ms after it; readbacks of earlier requests       *)
(* arrive meanwhile, the operator pans or recenters the view, and another  *)
(* receiver may be selected.                                               *)
(*                                                                         *)
(* Both receivers are known and the controls unlocked.  Frequencies are    *)
(* small integers; a receiver stays on its band.                           *)
(***************************************************************************)
EXTENDS Integers, SequencesExt

CONSTANTS Bands,       \* receiver -> <<lowest, highest>> frequency
          Start,       \* receiver -> frequency
          Clicks,      \* frequencies clicked, panned to or typed
          StepHz,      \* tuningStepHz
          Sensitivity, \* encoder pulses to a step
          SnapHz,      \* unit of the encoder's automatic snap (1 kHz); 0: off
          EncoderOn,   \* receivers selected while the encoder turns or will snap
          SpanHz,      \* half the displayed span
          Repeats,     \* claim also frequencies with a readback under way
          MaxActs,     \* bound: acts of the operator
          MaxLost,     \* bound: readbacks lost
          MaxQueue     \* bound: commands on their way

TuningAssumption ==
  /\ {MaxActs, MaxLost, MaxQueue, SnapHz, SpanHz} \subseteq Nat
  /\ {StepHz, Sensitivity} \subseteq Nat \ {0} /\ DOMAIN Start = DOMAIN Bands

VARIABLES
    scope,     \* SpectrumScopeController and the window's tuning fields
    shown,     \* receiver -> confirmed frequency
    link,      \* commands to the radio and its readbacks, in order
    radio,     \* frequency of each receiver; centre of its fixed scope or 0
    want,      \* what the operator's requests amount to; 0: nothing claimed
    spent      \* acts, lost

vars == <<scope, shown, link, radio, want, spent>>

Receivers == DOMAIN Bands

Init ==
  /\ scope = [vfo |-> "main", enabled |-> TRUE,        \* selected; m_scopeFramesEnabled
              pending |-> 0,                           \* m_pendingSpectrumScopeTuneHz
              commit |-> FALSE, release |-> FALSE,     \* the two timers
              fixed |-> 0,                             \* centre of m_spectrumScopeFixedPan...
              centre |-> 0,                            \* m_spectrumScopeDisplayCenterHz
              hold |-> 0,                              \* expected centre of the frames
              recenter |-> [r \in Receivers |-> 0],    \* m_pendingMain/SubRecenterHz
              accum |-> 0, snap |-> FALSE]             \* encoder pulses; snap timer
  /\ shown = Start
  /\ link = [out |-> <<>>, in |-> <<>>]
  /\ radio = [hz |-> Start, fixed |-> 0]
  /\ want = 0
  /\ spent = [acts |-> 0, lost |-> 0]

(***************************************************************************)
(* SpectrumTuningPolicy.                                                   *)
(***************************************************************************)
Clamped(x, lo, hi) == IF x < lo THEN lo ELSE IF x > hi THEN hi ELSE x
roundFrequencyToStep(hz, step) == IF step <= 1 THEN hz ELSE ((hz + (step \div 2)) \div step) * step
clampFrequencyToBand(hz, r) == Clamped(hz, Bands[r][1], Bands[r][2])

clampScopeCenterToBand(hz, r) ==
  LET lo == Bands[r][1] + SpanHz
      hi == Bands[r][2] - SpanHz
  IN  IF lo <= hi THEN Clamped(hz, lo, hi) ELSE (Bands[r][1] + Bands[r][2]) \div 2

(***************************************************************************)
(* The backend keeps only the newest of the frequencies still waiting.     *)
(***************************************************************************)
Cmd(k, r, v) == [k |-> k, r |-> r, v |-> v]

Tuned(q, r, hz) ==
  IF \E i \in DOMAIN q : q[i].k = "set" /\ q[i].r = r
  THEN [i \in DOMAIN q |-> IF q[i].k = "set" /\ q[i].r = r THEN Cmd("set", r, hz) ELSE q[i]]
  ELSE Append(q, Cmd("set", r, hz))

CentreMode(q) == Append(q, Cmd("centre", "main", 0))
FixedRange(q, hz) == Append(q, Cmd("fixed", "main", hz))
Room == Len(link.out) + 3 <= MaxQueue

(***************************************************************************)
(* SpectrumScopeController's operations, on its state and the queue.       *)
(***************************************************************************)
\* recenterActiveVfo, which also drops a request not sent yet.
Recentered(s) == [s EXCEPT !.fixed = 0, !.pending = 0, !.hold = 0, !.centre = shown[s.vfo]]

\* panSpectrumScopeToCenter: a new range only if it moved.
Panned(s, hz) == [s EXCEPT !.centre = hz, !.fixed = hz]
PannedQueue(s, q, hz) == IF s.fixed # hz THEN FixedRange(q, hz) ELSE q

\* scheduleSpectrumScopeTune of a step, which moves the view.
SteppedTo(s, hz) ==
  [s EXCEPT !.pending = hz, !.fixed = 0, !.hold = hz, !.commit = TRUE, !.release = TRUE,
            !.centre = clampScopeCenterToBand(hz, s.vfo)]
SteppedQueue(s, q) == IF s.fixed # 0 THEN CentreMode(q) ELSE q

\* The same of a click, which keeps it: the range shown becomes a fixed one.
View(s) == clampScopeCenterToBand(IF s.centre = 0 THEN shown[s.vfo] ELSE s.centre, s.vfo)
ClickedAt(s, hz) ==
  [Panned(s, View(s)) EXCEPT !.pending = hz, !.hold = View(s), !.commit = TRUE, !.release = TRUE]

Forgotten(s) == [s EXCEPT !.pending = 0, !.centre = 0, !.fixed = 0, !.hold = 0]

(***************************************************************************)
(* The operator.  A claim on where the tuning ends is made from a          *)
(* confirmed frequency, or carried on from a pending one.                  *)
(***************************************************************************)
Quiet == link.out = <<>> /\ link.in = <<>>
Idle == Quiet /\ ~scope.commit /\ ~scope.release
Operates == spent.acts < MaxActs /\ Room /\ spent' = [spent EXCEPT !.acts = @ + 1]
Steady == scope.recenter[scope.vfo] = 0

Base == CASE scope.pending # 0 -> want
          [] scope.pending = 0 /\ Quiet /\ Steady -> shown[scope.vfo]
          [] OTHER -> 0

\* A readback of an earlier request for the same frequency ends the wait for
\* this one: if others were sent in between, its frequency need not be final.
UnderWay(hz) == \E q \in ToSet(link.out \o link.in) : q.k = "set" /\ q.r = scope.vfo /\ q.v = hz
Claim(hz) == IF Repeats \/ ~UnderWay(hz) THEN hz ELSE 0

StepTarget(from, steps) ==
  clampFrequencyToBand(roundFrequencyToStep(from + (steps * StepHz), StepHz), scope.vfo)

Step(from, steps) ==
  /\ scope' = SteppedTo(scope, StepTarget(from, steps))
  /\ link' = [link EXCEPT !.out = SteppedQueue(scope, @)]
  /\ want' = IF Base = 0 THEN 0 ELSE Claim(StepTarget(Base, steps))

Pending(other) == IF scope.pending > 0 THEN scope.pending ELSE other

Wheel(steps) ==
  /\ scope.enabled /\ Operates
  /\ Step(Pending(shown[scope.vfo]), steps)
  /\ UNCHANGED <<shown, radio>>

Click(hz) ==
  /\ scope.enabled /\ Operates
  /\ LET target == clampFrequencyToBand(hz, scope.vfo)
     IN  /\ scope' = ClickedAt(scope, target)
         /\ want' = IF Steady THEN Claim(target) ELSE 0
  /\ link' = [link EXCEPT !.out = PannedQueue(scope, @, View(scope))]
  /\ UNCHANGED <<shown, radio>>

Pan(hz) ==
  /\ Operates
  /\ LET c == clampScopeCenterToBand(hz, scope.vfo)
     IN  scope' = Panned(scope, c) /\ link' = [link EXCEPT !.out = PannedQueue(scope, @, c)]
  /\ UNCHANGED <<shown, radio, want>>

Recenter ==
  /\ Operates
  /\ scope' = Recentered(scope)
  /\ link' = [link EXCEPT !.out = CentreMode(@)]
  /\ want' = IF scope.commit THEN 0 ELSE want
  /\ UNCHANGED <<shown, radio>>

\* requestFrequencyHz: a typed frequency is sent at once and recenters when it
\* is confirmed.  One of another band, which moves the receiver, is left out.
Type(hz) ==
  LET r == scope.vfo
  IN  /\ hz # shown[r] /\ hz = clampFrequencyToBand(hz, r) /\ Operates
      /\ scope' = [scope EXCEPT !.recenter[r] = hz]
      /\ link' = [link EXCEPT !.out = Tuned(@, r, hz)]
      /\ want' = 0
      /\ UNCHANGED <<shown, radio>>

\* selectedVfoChanged closes the frame gate; ScopeGate models what opens it.
SelectVfo(r) ==
  /\ r # scope.vfo /\ scope.enabled /\ (scope.snap => r \in EncoderOn) /\ Operates
  /\ scope' = [scope EXCEPT !.vfo = r, !.enabled = FALSE]
  /\ want' = 0
  /\ UNCHANGED <<shown, link, radio>>

\* updateScopeFrameGate.
GateOpens ==
  /\ ~scope.enabled /\ Room
  /\ scope' = [Recentered(scope) EXCEPT !.enabled = TRUE]
  /\ link' = [link EXCEPT !.out = CentreMode(@)]
  /\ UNCHANGED <<shown, radio, want, spent>>

(***************************************************************************)
(* The encoder.  It counts from MAIN's frequency, with the gate open or    *)
(* not.                                                                    *)
(***************************************************************************)
\* Division in C++ truncates towards zero.
Quotient(a, b) == IF a < 0 THEN -((-a) \div b) ELSE a \div b

\* handleIcomRC28Tune: a pulse the other way forgets the fraction.
Pulses(steps) == steps + (IF scope.accum # 0 /\ ((steps > 0) # (scope.accum > 0)) THEN 0 ELSE scope.accum)

Turn(steps) ==
  LET all == IF Sensitivity > 1 THEN Pulses(steps) ELSE steps
      whole == Quotient(all, Sensitivity)
      s == [scope EXCEPT !.accum = all - (whole * Sensitivity), !.snap = SnapHz > 0]
  IN  /\ scope.vfo \in EncoderOn /\ Operates
      /\ IF whole = 0
         THEN scope' = s /\ UNCHANGED <<link, want>>
         ELSE /\ LET target == StepTarget(Pending(shown["main"]), whole)
                 IN  scope' = SteppedTo(s, target)
              /\ link' = [link EXCEPT !.out = SteppedQueue(scope, @)]
              /\ want' = IF Base = 0 \/ ~scope.enabled THEN 0 ELSE Claim(StepTarget(Base, whole))
      /\ UNCHANGED <<shown, radio>>

Snapped(hz) == clampFrequencyToBand(((hz + (SnapHz \div 2)) \div SnapHz) * SnapHz, scope.vfo)

\* snapIcomRC28FrequencyToKhz, 600 ms after the last pulse: tunes MAIN.
Snap ==
  /\ scope.snap /\ Room
  /\ LET from == Pending(shown["main"])
         s == [scope EXCEPT !.snap = FALSE]
     IN  IF Snapped(from) = from
         THEN scope' = s /\ UNCHANGED <<link, want>>
         ELSE /\ scope' = [Forgotten(s) EXCEPT !.commit = FALSE, !.release = FALSE]
              /\ link' = [link EXCEPT !.out = Tuned(@, "main", Snapped(from))]
              /\ want' = IF want = 0 \/ scope.vfo # "main" \/ (scope.pending = 0 /\ ~Quiet) THEN 0
                         ELSE Snapped(want)
  /\ UNCHANGED <<shown, radio, spent>>

(***************************************************************************)
(* The timers.  What was sent is answered before the display is given up,  *)
(* 580 ms after the last request was sent.                                 *)
(***************************************************************************)
Commit ==
  /\ scope.commit /\ Room
  /\ scope' = [scope EXCEPT !.commit = FALSE]
  /\ link' = IF scope.pending # 0 /\ scope.enabled
             THEN [link EXCEPT !.out = Tuned(@, scope.vfo, scope.pending)] ELSE link
  /\ UNCHANGED <<shown, radio, want, spent>>

Release ==
  /\ scope.release /\ ~scope.commit /\ Quiet
  /\ scope' = [Forgotten(scope) EXCEPT !.release = FALSE]
  /\ UNCHANGED <<shown, link, radio, want, spent>>

(***************************************************************************)
(* Readbacks.                                                              *)
(***************************************************************************)
\* Mutant: any readback ends the wait.
PendingAfterAny(pending, hz) == 0

spectrumTunePendingAfterReadback(pending, hz) == IF pending = hz THEN 0 ELSE pending

\* MainWindow::onFrequencyChanged, for MAIN, and onActiveVfoFrequencyChanged.
Readback ==
  /\ link.in # <<>> /\ Room
  /\ LET q == Head(link.in)
         news == shown[q.r] # q.v
         s == IF q.r = "main" /\ news /\ scope.release
              THEN [scope EXCEPT !.pending = spectrumTunePendingAfterReadback(@, q.v)] ELSE scope
         asked == news /\ q.r = scope.vfo /\ scope.recenter[q.r] = q.v
         t == [s EXCEPT !.recenter[q.r] = 0]
     IN  /\ shown' = [shown EXCEPT ![q.r] = q.v]
         /\ scope' = IF asked THEN [Recentered(t) EXCEPT !.centre = q.v] ELSE s
         /\ link' = [out |-> IF asked THEN CentreMode(link.out) ELSE link.out, in |-> Tail(link.in)]
         /\ want' = IF asked THEN 0 ELSE want
  /\ UNCHANGED <<radio, spent>>

(***************************************************************************)
(* The radio (external) reads back what it is tuned to; the session.       *)
(***************************************************************************)
RadioAnswers ==
  /\ link.out # <<>> /\ Len(link.in) < MaxQueue
  /\ LET q == Head(link.out)
     IN  /\ radio' = CASE q.k = "set"   -> [radio EXCEPT !.hz[q.r] = q.v]
                       [] q.k = "fixed" -> [radio EXCEPT !.fixed = q.v]
                       [] OTHER         -> [radio EXCEPT !.fixed = 0]
         /\ link' = [out |-> Tail(link.out),
                     in |-> IF q.k = "set" THEN Append(link.in, q) ELSE link.in]
  /\ UNCHANGED <<scope, shown, want, spent>>

\* A readback is lost; the background poll makes up for it.
Lose ==
  /\ link.in # <<>> /\ spent.lost < MaxLost
  /\ spent' = [spent EXCEPT !.lost = @ + 1]
  /\ link' = [link EXCEPT !.in = Tail(@)] /\ want' = 0
  /\ UNCHANGED <<scope, shown, radio>>

Poll ==
  /\ Quiet /\ \E r \in Receivers :
       /\ shown[r] # radio.hz[r]
       /\ link' = [link EXCEPT !.in = <<Cmd("set", r, radio.hz[r])>>]
  /\ UNCHANGED <<scope, shown, radio, want, spent>>

\* Lost and established again; the settings are applied when it is ready.
SessionLost ==
  /\ Operates
  /\ scope' = [Forgotten(scope) EXCEPT !.enabled = FALSE, !.commit = FALSE, !.release = FALSE,
                                       !.recenter = [r \in Receivers |-> 0]]
  /\ link' = [out |-> <<Cmd("centre", "main", 0)>>, in |-> <<>>]
  /\ want' = 0
  /\ UNCHANGED <<shown, radio>>

Next == \/ \E n \in {-1, 1} : Wheel(n) \/ Turn(n)
        \/ \E hz \in Clicks : Click(hz) \/ Pan(hz) \/ Type(hz)
        \/ \E r \in Receivers : SelectVfo(r)
        \/ Recenter \/ GateOpens \/ Snap \/ Commit \/ Release \/ Readback
        \/ RadioAnswers \/ Lose \/ Poll \/ SessionLost

Spec == Init /\ [][Next]_vars

TypeOK ==
  /\ scope.vfo \in Receivers
  /\ {scope.enabled, scope.commit, scope.release, scope.snap} \subseteq BOOLEAN
  /\ {scope.pending, scope.fixed, scope.centre, scope.hold, want} \subseteq Nat
  /\ scope.accum \in (1 - Sensitivity)..(Sensitivity - 1)
  /\ Len(link.out) <= MaxQueue /\ Len(link.in) <= MaxQueue

\* Clicks, steps and pulses, however they follow one another, the readbacks of
\* earlier ones and the timers, end where they add up to.
TunedAsAsked == want # 0 /\ Idle /\ scope.enabled => radio.hz[scope.vfo] = want

\* No receiver is tuned off its band: a request made for one receiver is never
\* sent to the other.
StaysOnBand == \A r \in Receivers : radio.hz[r] = clampFrequencyToBand(radio.hz[r], r)

\* A frequency shown before it is confirmed does not stay: a timer runs that
\* will withdraw it.
PendingWithdrawn == scope.pending # 0 => scope.release

\* When the view is not panned, the radio sends the scope in centre mode.
CentreRestored == Idle /\ scope.enabled /\ scope.fixed = 0 => radio.fixed = 0
=============================================================================
