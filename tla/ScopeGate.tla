------------------------------ MODULE ScopeGate ------------------------------
(***************************************************************************)
(* Which receiver the scope shows.  The radio streams the scope of one     *)
(* receiver; RadioRouter drops frames of another than the radio last said  *)
(* it streams, ScopeController keeps the newest frame until the next       *)
(* repaint, and SpectrumScopeController draws frames and takes clicks only *)
(* while its gate is open: after a selection or an exchange it closes, and *)
(* opens once the radio has confirmed the scope of the selected receiver   *)
(* and that receiver's state is published.  VfoSelectionController refuses *)
(* to select, exchange or switch dual watch while the gate is closed.      *)
(*                                                                         *)
(* Dual watch is on and the radio ready throughout; the exchange itself is *)
(* modelled by CommandScheduler and is here one request, answered or not.  *)
(***************************************************************************)
EXTENDS Integers, Sequences

CONSTANTS MaxActs,     \* bound: selections and exchanges the operator asks for
          MaxLost,     \* bound: requests and replies lost
          MaxQueue     \* bound: requests, and replies, on their way

GateAssumption == {MaxActs, MaxLost, MaxQueue} \subseteq Nat

VARIABLES
    gui,      \* VfoSelectionController and SpectrumScopeController
    radio,    \* selected receiver, receiver whose scope it streams, contents
    link,     \* requests to the radio and replies from it, in order
    router,   \* m_scopeReceiver, and ScopeController's retained frame
    acts, lost

vars == <<gui, radio, link, router, acts, lost>>

Receivers == {"main", "sub"}
Nothing == [rcv |-> "none", era |-> 0]

Init ==
  /\ gui = [selected |-> "main", requested |-> "main", pending |-> FALSE, retried |-> FALSE,
            policy |-> "Idle",              \* MainSubExchangePolicy
            era |-> 0,                      \* exchanges its frequencies reflect
            confirmed |-> TRUE,             \* m_scopeVfoConfirmed
            enabled |-> TRUE,               \* m_scopeFramesEnabled
            context |-> TRUE,               \* m_receiverContextReady
            sync |-> FALSE]                 \* m_exchangeScopeSyncPending
  /\ radio = [scope |-> "main", era |-> 0]
  /\ link = [out |-> <<>>, in |-> <<>>]
  /\ router = [scope |-> "main", held |-> Nothing]
  /\ acts = 0 /\ lost = 0

Request(l, m) == [l EXCEPT !.out = Append(@, m)]
Room == Len(link.out) + 3 <= MaxQueue /\ Len(link.in) + 3 <= MaxQueue

setScopeVfo(l, v) == Request(l, [m |-> "scope", v |-> v, read |-> TRUE])

\* updateScopeFrameGate: opening it also unlocks the controls.  The state of
\* both receivers stays published while dual watch is on.
OpenGate(g) == IF g.enabled \/ ~g.confirmed THEN g
               ELSE [g EXCEPT !.enabled = TRUE, !.context = TRUE]

resetScopeFrameGate(g) == [g EXCEPT !.confirmed = FALSE, !.enabled = FALSE, !.context = FALSE]

\* Mutant: a selection leaves the gate as it is.
GateLeftOpen(g, v) == [g EXCEPT !.selected = v, !.requested = v]

\* selectedVfoChanged.
Reselected(g, v) == resetScopeFrameGate([g EXCEPT !.selected = v, !.requested = v])

(***************************************************************************)
(* The operator.                                                           *)
(***************************************************************************)
receiverPairAvailable == gui.context /\ gui.policy = "Idle"
Operates == acts < MaxActs /\ acts' = acts + 1 /\ Room

SelectVfo(v) ==
  /\ Operates /\ receiverPairAvailable /\ ~gui.pending /\ gui.selected # v
  /\ gui' = [gui EXCEPT !.requested = v, !.pending = TRUE, !.retried = FALSE]
  /\ link' = Request(link, [m |-> "select", v |-> v, read |-> TRUE])
  /\ UNCHANGED <<radio, router, lost>>

Exchange ==
  /\ Operates /\ receiverPairAvailable /\ ~gui.pending
  /\ gui' = [gui EXCEPT !.policy = "AwaitingRadio"]
  /\ link' = Request(link, [m |-> "exchange", v |-> "main", read |-> TRUE])
  /\ UNCHANGED <<radio, router, lost>>

(***************************************************************************)
(* The radio and the link (external).  An exchange also makes MAIN the     *)
(* receiver whose scope is streamed.                                       *)
(***************************************************************************)
RadioAnswers ==
  /\ link.out # <<>>
  /\ LET q == Head(link.out)
     IN  /\ radio' = CASE q.m = "scope"    -> [radio EXCEPT !.scope = q.v]
                       [] q.m = "exchange" -> [radio EXCEPT !.scope = "main", !.era = @ + 1]
                       [] OTHER -> radio
         /\ link' = [out |-> Tail(link.out),
                     in |-> IF q.read THEN Append(link.in, [q EXCEPT !.read = FALSE]) ELSE link.in]
  /\ UNCHANGED <<gui, router, acts, lost>>

Lose ==
  /\ lost < MaxLost /\ lost' = lost + 1
  /\ \/ link.out # <<>> /\ link' = [link EXCEPT !.out = Tail(@)]
     \/ link.in # <<>> /\ link' = [link EXCEPT !.in = Tail(@)]
  /\ UNCHANGED <<gui, radio, router, acts>>

(***************************************************************************)
(* Replies reach the router first, then the GUI.                           *)
(***************************************************************************)
Confirmed(g, v) == IF v = g.selected THEN OpenGate([g EXCEPT !.confirmed = TRUE]) ELSE g

ScopeReply(v) ==
  /\ router' = [router EXCEPT !.scope = v]
  /\ gui' = Confirmed(gui, v)
  /\ link' = [link EXCEPT !.in = Tail(@)]

SelectReply(v) ==
  LET accepted == gui.pending /\ v = gui.requested
      changed == accepted /\ gui.selected # v
      g == IF accepted THEN [gui EXCEPT !.pending = FALSE, !.retried = FALSE] ELSE gui
      l == [link EXCEPT !.in = Tail(@)]
  IN  /\ gui' = IF changed THEN Reselected(g, v) ELSE g
      /\ link' = IF changed THEN setScopeVfo(l, v) ELSE l
      /\ UNCHANGED router

\* mainSubExchangeCompleted: first VfoSelectionController's handler, which
\* selects MAIN and may emit selectedVfoChanged, then the scope's.
ExchangeReply ==
  LET awaited == gui.policy = "AwaitingRadio"
      changed == awaited /\ gui.selected # "main"
      g == [gui EXCEPT !.era = @ + 1, !.policy = "AwaitingScope"]
      h == IF changed THEN Reselected(g, "main") ELSE [g EXCEPT !.requested = "main"]
      l == [link EXCEPT !.in = Tail(@)]
      m == IF changed THEN setScopeVfo(l, "main") ELSE l
  IN  IF awaited
      THEN /\ gui' = [resetScopeFrameGate(h) EXCEPT !.sync = TRUE]
           /\ link' = setScopeVfo(m, "main")
           /\ router' = [router EXCEPT !.scope = "main"]
      ELSE gui' = [gui EXCEPT !.era = @ + 1] /\ link' = l /\ UNCHANGED router

Reply ==
  /\ link.in # <<>> /\ Room
  /\ LET q == Head(link.in)
     IN  CASE q.m = "scope"    -> ScopeReply(q.v)
           [] q.m = "select"   -> SelectReply(q.v)
           [] q.m = "exchange" -> ExchangeReply
  /\ UNCHANGED <<radio, acts, lost>>

(***************************************************************************)
(* Timers.  Confirmations are awaited for a second (selection), a few      *)
(* retries (exchange) or two seconds (scope), longer than an answer takes. *)
(***************************************************************************)
Quiet == link.out = <<>> /\ link.in = <<>>

SelectionTimesOut ==
  /\ gui.pending /\ Quiet
  /\ IF gui.retried
     THEN gui' = [gui EXCEPT !.pending = FALSE, !.retried = FALSE] /\ UNCHANGED link
     ELSE /\ gui' = [gui EXCEPT !.retried = TRUE]
          /\ link' = Request(link, [m |-> "select", v |-> gui.requested, read |-> TRUE])
  /\ UNCHANGED <<radio, router, acts, lost>>

\* mainSubExchangeFailed: the radio is told to stream MAIN, the receivers are
\* read again, and the gate waits for the selected receiver's scope.
ExchangeFails ==
  /\ gui.policy = "AwaitingRadio" /\ Quiet
  /\ gui' = [resetScopeFrameGate(gui) EXCEPT !.policy = "Idle", !.sync = TRUE, !.era = radio.era]
  /\ link' = setScopeVfo(Request(link, [m |-> "scope", v |-> "main", read |-> FALSE]), gui.selected)
  /\ UNCHANGED <<radio, router, acts, lost>>

\* completeExchangeScopeSync(true) does nothing unless the policy waits for the
\* scope.
ScopeSyncTimeout ==
  /\ gui.sync /\ Quiet
  /\ LET g == OpenGate([gui EXCEPT !.sync = FALSE])
     IN  gui' = IF g.policy = "AwaitingScope" THEN [g EXCEPT !.policy = "Idle", !.context = TRUE] ELSE g
  /\ link' = setScopeVfo(link, gui.selected)
  /\ UNCHANGED <<radio, router, acts, lost>>

(***************************************************************************)
(* Frames.  A frame is known by its receiver and by the exchanges before   *)
(* it: its band differs from the one before an exchange.                   *)
(***************************************************************************)
Frame ==
  /\ router' = IF radio.scope = router.scope
               THEN [router EXCEPT !.held = [rcv |-> radio.scope, era |-> radio.era]] ELSE router
  /\ UNCHANGED <<gui, radio, link, acts, lost>>

\* The band a frame shows is that of the operator's receiver if both the
\* receiver and the exchanges made agree, or if neither does.
BandsMatch(f) == (f.rcv = gui.selected) <=> ((f.era - gui.era) % 2 = 0)

\* onSpectrumReady: a frame of the other band does not end the wait for an
\* exchange's scope.
Draw ==
  /\ router.held # Nothing
  /\ router' = [router EXCEPT !.held = Nothing]
  /\ gui' = IF gui.enabled /\ gui.sync /\ BandsMatch(router.held)
            THEN [gui EXCEPT !.sync = FALSE, !.policy = IF @ = "AwaitingScope" THEN "Idle" ELSE @]
            ELSE gui
  /\ UNCHANGED <<radio, link, acts, lost>>

Next == \/ \E v \in Receivers : SelectVfo(v)
        \/ Exchange \/ RadioAnswers \/ Lose \/ Reply
        \/ SelectionTimesOut \/ ExchangeFails \/ ScopeSyncTimeout \/ Frame \/ Draw

Spec == Init /\ [][Next]_vars

TypeOK ==
  /\ gui.selected \in Receivers /\ gui.requested \in Receivers
  /\ gui.policy \in {"Idle", "AwaitingRadio", "AwaitingScope"}
  /\ \A f \in {"pending", "retried", "confirmed", "enabled", "context", "sync"} : gui[f] \in BOOLEAN
  /\ radio.scope \in Receivers /\ router.scope \in Receivers
  /\ Len(link.out) <= MaxQueue /\ Len(link.in) <= MaxQueue

\* While the operator can click in the scope, and no exchange is under way,
\* the frames that pass the router are those of the receiver a click tunes:
\* the GUI's gate and the router's filter, on two threads, agree.
ClicksMeetTheirReceiver == gui.enabled /\ gui.policy # "AwaitingRadio" => router.scope = gui.selected

\* Nothing under way that could still open the gate: no request, reply or timer.
Settled == Quiet /\ ~gui.sync /\ ~gui.pending /\ gui.policy = "Idle"

\* "A scope timeout must not strand the radio-routing controls behind
\* SpectrumScopeController's still-locked frame gate": when nothing is left to
\* wait for, the operator may select a receiver.
ControlsNotStranded == Settled => gui.context

\* As long as no request or reply is lost, the controls always come back: the
\* closing and the opening of the gate by a selection, an exchange, its failure
\* and its timeout never miss each other.
ControlsReturn == lost = 0 => ControlsNotStranded
=============================================================================
