----------------------------- MODULE DualWatch -----------------------------
(* The dual-watch transition: RadioBackend::setDualWatchEnabled with        *)
(* DualWatchTransitionPolicy, its retry timer and its reply handler, the    *)
(* SUB receiver of RadioState, and VfoSelectionController's part in it.     *)
EXTENDS Integers, Sequences, FiniteSets

CONSTANTS
    Retries,      \* kMaxDualWatchRetries, 8
    MaxRequests,  \* bound: requests of the operator
    MaxPanel,     \* bound: dual watch switched at the radio itself
    MaxFaults     \* bound: commands or replies lost

DualAssumption == Retries \in Nat \ {0} /\ {MaxRequests, MaxPanel, MaxFaults} \subseteq Nat

VARIABLES
    dual,       \* external: dual watch at the radio
    link,       \* commands on their way
    replies,    \* readings on their way
    policy,     \* m_dualWatchTransition with its timer: see Init
    state,      \* RadioState: dual watch, and what is known of SUB
    selection,  \* VfoSelectionController: selected, and pending
    requests, changes, faults

vars == <<dual, link, replies, policy, state, selection, requests, changes, faults>>

Identity == {"frequency", "mode"}
\* One control stands for the seventeen of scheduleSubVfoControlRefresh.
Controls == {"control"}
Idle == [pending |-> FALSE, requested |-> FALSE, confirmed |-> {}, asked |-> FALSE, retries |-> 0]

Init ==
    /\ dual \in BOOLEAN
    /\ link = <<>> /\ replies = <<>> /\ policy = Idle
    /\ state = [dual |-> dual, sub |-> IF dual THEN Identity \cup Controls ELSE {}]
    /\ selection = [vfo |-> "MAIN", pending |-> FALSE]
    /\ requests = 0 /\ changes = 0 /\ faults = 0

Command    == [cmd |-> "readState", on |-> FALSE, field |-> ""]
ReadState  == Command
Switch(on) == [Command EXCEPT !.cmd = "switch", !.on = on]
ReadSub(f) == [Command EXCEPT !.cmd = "readSub", !.field = f]
SelectMain == [Command EXCEPT !.cmd = "selectMain"]

missingConfirmations(p) ==
    (IF p.requested THEN {"state"} \cup Identity ELSE {"state"}) \ p.confirmed

-----------------------------------------------------------------------------
\* VfoSelectionController::requestDualWatch and setDualWatchEnabled
setDualWatchEnabled(on) ==
    /\ requests < MaxRequests /\ ~policy.pending /\ ~selection.pending
    /\ policy' = [Idle EXCEPT !.pending = TRUE, !.requested = on]
    /\ link' = link \o <<Switch(on), ReadState>>
    /\ requests' = requests + 1
    /\ UNCHANGED <<dual, replies, state, selection, changes, faults>>

\* VfoSelectionController::selectVfo: SUB only while dual watch is on.
selectVfo(vfo) ==
    /\ requests < MaxRequests /\ requests' = requests + 1
    /\ state.dual /\ ~policy.pending /\ ~selection.pending /\ selection.vfo # vfo
    /\ selection' = [vfo |-> vfo, pending |-> FALSE]
    /\ UNCHANGED <<dual, link, replies, policy, state, changes, faults>>

\* Bug for the mutation test: the retry timer never gives up.
RetryForever == FALSE

RetriesSpent == policy.retries >= Retries

\* The retry timer, 150 ms after the last attempt.
DualWatchRetry ==
    /\ policy.pending
    /\ IF RetriesSpent
       THEN policy' = Idle /\ UNCHANGED link
       ELSE /\ policy' = [policy EXCEPT !.retries = IF @ < Retries THEN @ + 1 ELSE @]
            /\ link' = link \o
                  (IF "state" \in missingConfirmations(policy) THEN <<Switch(policy.requested), ReadState>>
                   ELSE IF missingConfirmations(policy) = Identity
                        THEN <<ReadSub("frequency"), ReadSub("mode")>>
                   ELSE <<ReadSub(CHOOSE f \in missingConfirmations(policy) : TRUE)>>)
    \* 150 ms are enough for what was sent before to reach the radio.  Bound: and
    \* for all but a few of its answers to be read.
    /\ link = <<>> /\ Len(replies) <= 2 * Retries
    /\ UNCHANGED <<dual, replies, state, selection, requests, changes, faults>>

\* A poll of SUB's frequency or of a control, while SUB is the VFO in use.
VfoStatePoll(f) ==
    /\ ~policy.pending /\ selection.vfo = "SUB" /\ link = <<>> /\ replies = <<>>
    /\ link' = <<ReadSub(f)>>
    /\ UNCHANGED <<dual, replies, policy, state, selection, requests, changes, faults>>

-----------------------------------------------------------------------------
(* External: the radio                                                     *)

\* The radio answers for SUB as long as dual watch is on.
RadioActs ==
    /\ link # <<>> /\ link' = Tail(link)
    /\ LET c == Head(link)
       IN  /\ dual' = IF c.cmd = "switch" THEN c.on ELSE dual
           /\ replies' = CASE c.cmd = "readState" -> Append(replies, [func |-> "dual", on |-> dual])
                           [] c.cmd = "readSub" /\ dual -> Append(replies, [func |-> c.field, on |-> TRUE])
                           [] OTHER -> replies
           \* VfoSelectionController's request for MAIN is confirmed with it.
           /\ selection' = IF c.cmd = "selectMain" THEN [vfo |-> "MAIN", pending |-> FALSE] ELSE selection
    /\ UNCHANGED <<policy, state, requests, changes, faults>>

FrontPanel ==
    /\ changes < MaxPanel /\ changes' = changes + 1 /\ dual' = ~dual
    /\ UNCHANGED <<link, replies, policy, state, selection, requests, faults>>

\* A switch command or a reply is lost; the selection has its own retries.
Lose ==
    /\ faults < MaxFaults /\ faults' = faults + 1
    /\ \/ link # <<>> /\ Head(link).cmd # "selectMain" /\ link' = Tail(link) /\ UNCHANGED replies
       \/ replies # <<>> /\ replies' = Tail(replies) /\ UNCHANGED link
    /\ UNCHANGED <<dual, policy, state, selection, requests, changes>>

-----------------------------------------------------------------------------
(* A reply: first RadioState and VfoSelectionController, then RadioBackend *)

\* Bug for the mutation test: late replies of SUB fill the receiver again.
AcceptsLate(s, f) == [s EXCEPT !.sub = @ \cup {f}]

\* RadioState::applyRadioValue: SUB's replies count only while dual watch is on.
AppliedSub(s, f) == IF s.dual THEN [s EXCEPT !.sub = @ \cup {f}] ELSE s

AppliedDual(s, on) == [dual |-> on, sub |-> IF on THEN s.sub ELSE {}]

\* The selection returns to MAIN when dual watch goes off.
LeavesSub(on) == ~on /\ selection.vfo # "MAIN"

\* The policy's part: observeState, observeSubFrequency, observeSubMode.
Observed(m) ==
    IF m.func = "dual"
    THEN IF m.on = policy.requested THEN [policy EXCEPT !.confirmed = @ \cup {"state"}] ELSE policy
    ELSE IF policy.requested /\ m.func \in Identity THEN [policy EXCEPT !.confirmed = @ \cup {m.func}]
    ELSE policy

radioReplyReceived ==
    /\ replies # <<>> /\ replies' = Tail(replies)
    /\ LET m == Head(replies)
           p == IF policy.pending THEN Observed(m) ELSE policy
           confirms == policy.pending /\ m.func = "dual" /\ m.on = policy.requested
           leaves == m.func = "dual" /\ LeavesSub(m.on)
           asks == confirms /\ m.on /\ ~policy.asked
           done == p.pending /\ missingConfirmations(p) = {}
       IN  /\ state' = IF m.func = "dual" THEN AppliedDual(state, m.on) ELSE AppliedSub(state, m.func)
           /\ selection' = IF leaves THEN [selection EXCEPT !.pending = TRUE] ELSE selection
           /\ policy' = IF done THEN Idle ELSE [p EXCEPT !.asked = @ \/ asks]
           /\ link' = link
                \o (IF leaves \/ (confirms /\ ~m.on) THEN <<SelectMain>> ELSE <<>>)
                \o (IF asks THEN <<ReadSub("frequency"), ReadSub("mode")>> ELSE <<>>)
                \o (IF done /\ p.requested THEN <<ReadSub("control")>> ELSE <<>>)
    /\ UNCHANGED <<dual, requests, changes, faults>>

-----------------------------------------------------------------------------
Next ==
    \/ \E on \in BOOLEAN : setDualWatchEnabled(on)
    \/ \E vfo \in {"MAIN", "SUB"} : selectVfo(vfo)
    \/ DualWatchRetry \/ \E f \in {"frequency", "control"} : VfoStatePoll(f)
    \/ RadioActs \/ FrontPanel \/ Lose \/ radioReplyReceived

Spec == Init /\ [][Next]_vars

\* The timer, the event loop and the radio keep running.
Fairness == WF_vars(DualWatchRetry) /\ WF_vars(RadioActs) /\ WF_vars(radioReplyReceived)

FairSpec == Spec /\ Fairness

-----------------------------------------------------------------------------
TypeOK ==
    /\ dual \in BOOLEAN /\ state.dual \in BOOLEAN
    /\ policy.retries \in 0 .. Retries /\ policy.confirmed \subseteq {"state"} \cup Identity
    /\ selection.vfo \in {"MAIN", "SUB"}

\* A SUB receiver that is known to be off shows nothing, whatever replies were
\* on their way when it went off (RadioState::applyRadioValue).
SubEmptyWhileOff == ~state.dual => state.sub = {}

\* A transition ends: confirmed, or given up after its retries; it locks the
\* receiver controls and PTT meanwhile.
Switching == policy.pending
TransitionSettles == []<>~Switching
=============================================================================
