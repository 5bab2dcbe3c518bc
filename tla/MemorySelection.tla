--------------------------- MODULE MemorySelection ---------------------------
(***************************************************************************)
(* Selecting a memory of the radio.  MemorySelectionController sends the   *)
(* selection, RadioBackend routes it to MAIN or SUB and reads everything   *)
(* back twice; MainWindow remembers the memory MAIN is on, so that a       *)
(* manual change can take the radio out of memory mode.  It must keep that *)
(* memory through the routing tune to another band, the stale reports      *)
(* still on their way and the shifted frequencies of a transmission, and   *)
(* forget it when somebody really leaves it.                               *)
(*                                                                         *)
(* The radio is ready, the controls are unlocked, the receivers at rest.   *)
(* VfoModel emits changes only.  Of the fields of a memory those in Fields *)
(* are modelled; duplex is 0 (simplex), 1 or -1, and tone 0 is none (tone  *)
(* and DTCS have the same handler).  The radio's SUB receiver is its band. *)
(***************************************************************************)
EXTENDS Integers, SequencesExt

CONSTANTS Memories,    \* id -> record of freq, duplex, offset, tone
          Fields,      \* the fields reported, "freq" among them
          BandWidth,   \* a frequency's band is its quotient by this
          Start,       \* record: what MAIN shows before any selection
          SubBand,     \* band of SUB, dual watch on; 0: off
          Elsewhere,   \* a frequency no memory has
          MaxActs,     \* bound: operator's actions, here and at the radio
          MaxLost,     \* bound: messages lost
          MaxQueue     \* bound: messages on their way

SelectionAssumption ==
  /\ {MaxActs, MaxLost, MaxQueue} \subseteq Nat /\ "freq" \in Fields

VARIABLES
    win,       \* MainWindow's active memory and PTT; VfoModel's m_txActive
    vfo,       \* VfoModel
    backend,   \* m_selectedRadioMemory, MAIN's frequency; schedule and readbacks
    link,      \* commands to the radio and reports from it, in order
    radio,     \* what MAIN is on, its VFO, its memory mode and contents
    spent      \* acts, lost; the memory asked for and left alone so far, or 0;
               \* whether the operator's last act left a memory

vars == <<win, vfo, backend, link, radio, spent>>

Ids == DOMAIN Memories
None == [freq |-> 0, duplex |-> 0, offset |-> 0, tone |-> 0]
Band(hz) == hz \div BandWidth
Routing(b) == b * BandWidth        \* radioBandDefaultFrequency

Init ==
  /\ win = [active |-> 0, m |-> None, applying |-> FALSE, releasing |-> FALSE,
            gen |-> 0, settled |-> {}, awaiting |-> FALSE, ptt |-> FALSE, tx |-> FALSE, timers |-> {}]
  /\ vfo = [f \in Fields |-> Start[f]]
  /\ backend = [selected |-> 0, hz |-> Start.freq, schedule |-> <<>>, reads |-> <<>>]
  /\ link = [out |-> <<>>, in |-> <<>>]
  /\ radio = [now |-> Start, vfo |-> Start, mem |-> 0, stored |-> Ids, ptt |-> FALSE]
  /\ spent = [acts |-> 0, lost |-> 0, asked |-> 0, left |-> "no"]

(***************************************************************************)
(* MainWindow's active memory.                                             *)
(***************************************************************************)
Relevant(m) == Fields \ ((IF m.duplex = 0 THEN {"offset"} ELSE {})
                         \cup (IF m.tone = 0 THEN {"tone"} ELSE {}))

setActiveMemory(w, id, m, shown) ==
  [w EXCEPT !.active = id, !.m = m, !.awaiting = FALSE,
            !.settled = {f \in Fields : f \in Relevant(m) => shown[f] = m[f]}]

clearActiveMemory(w) ==
  [w EXCEPT !.active = 0, !.m = None, !.applying = FALSE, !.releasing = FALSE,
            !.settled = {}, !.awaiting = FALSE]

checkIfMemorySelectionComplete(w) ==
  IF w.applying /\ w.settled = Fields /\ ~w.releasing
  THEN [w EXCEPT !.releasing = TRUE, !.timers = @ \cup {[what |-> "settle", gen |-> w.gen]}]
  ELSE w

transmitMemoryHz(m) == m.freq + (m.duplex * m.offset)

preserveMemorySelection(w) == w.ptt \/ w.awaiting

\* Mutant: only the receive frequency belongs to a memory.
StrangeIfShifted(w, hz) ==
  w.active # 0 /\ ~w.applying /\ "freq" \in w.settled /\ hz # w.m.freq

\* onFrequencyChanged leaves memory mode on a frequency of nobody's.
Strange(w, hz) ==
  /\ w.active # 0 /\ ~w.applying /\ "freq" \in w.settled
  /\ hz # w.m.freq /\ ~preserveMemorySelection(w)
  /\ ~(w.m.duplex # 0 /\ hz = transmitMemoryHz(w.m))

onFrequencyChanged(w, hz) ==
  IF w.active # 0 /\ hz = w.m.freq
  THEN checkIfMemorySelectionComplete(
         [w EXCEPT !.awaiting = @ /\ w.ptt, !.settled = @ \cup {"freq"}])
  ELSE IF Strange(w, hz) THEN clearActiveMemory(w) ELSE w

\* onDuplexModeChanged, onRepeaterOffsetChanged, the tones' and the mode's.
onFieldChanged(w, f, v) ==
  CASE w.active = 0 \/ f \notin Relevant(w.m) -> w
    [] v = w.m[f] -> checkIfMemorySelectionComplete([w EXCEPT !.settled = @ \cup {f}])
    [] OTHER -> IF f \in w.settled /\ ~w.applying THEN clearActiveMemory(w) ELSE w

beginMemoryPttFrequencyTransition(w) ==
  IF w.active = 0 THEN w ELSE [w EXCEPT !.ptt = TRUE, !.awaiting = TRUE]

onPttChanged(w, on) == [w EXCEPT !.ptt = on, !.awaiting = @ \/ w.active # 0]

(***************************************************************************)
(* RadioBackend.  selectVfoMode is sent at once; selecting and tuning wait *)
(* their turn in Commander's schedule, where a newer request of the same   *)
(* kind takes the place of the older.                                      *)
(***************************************************************************)
Send(l, m) == [l EXCEPT !.out = Append(@, m)]
Cmd(k, v) == [k |-> k, v |-> v]
Room == Len(link.out) + 4 <= MaxQueue

Scheduled(q, job) ==
  IF \E i \in DOMAIN q : q[i].k = job.k
  THEN [i \in DOMAIN q |-> IF q[i].k = job.k THEN job ELSE q[i]]
  ELSE Append(q, job)

selectVfoMode(b, l) == Send(l, Cmd(IF b.selected # 0 THEN "transfer" ELSE "vfo", 0))
Unselected(b) == [b EXCEPT !.selected = 0]

Operates(left, asked) ==
  /\ spent.acts < MaxActs /\ Room
  /\ spent' = [spent EXCEPT !.acts = @ + 1, !.asked = asked, !.left = left]

\* selectMemoryById: MAIN unless only SUB is on the memory's band.  SUB's
\* selection concerns neither MainWindow nor the MAIN receiver.
SelectMemory(id) ==
  LET m == Memories[id]
      sub == SubBand = Band(m.freq) /\ Band(backend.hz) # SubBand
      w == setActiveMemory([win EXCEPT !.applying = TRUE, !.releasing = FALSE, !.gen = @ + 1],
                           id, m, vfo)
      job == [k |-> "memory", v |-> id, route |-> Band(backend.hz) # Band(m.freq)]
  IN  /\ Operates("no", IF sub THEN spent.asked ELSE id)
      /\ IF sub
         THEN backend' = [backend EXCEPT !.selected = id] /\ UNCHANGED win
         ELSE /\ backend' = [backend EXCEPT !.selected = id, !.schedule = Scheduled(@, job)]
              /\ win' = checkIfMemorySelectionComplete(
                          [w EXCEPT !.timers = @ \cup {[what |-> "timeout", gen |-> w.gen]}])
      /\ UNCHANGED <<vfo, link, radio>>

\* The next job of the schedule.  A selection tunes to the memory's band first
\* if MAIN was on another, and is read back after 150 ms and after 650 ms.
RunScheduled ==
  /\ backend.schedule # <<>> /\ Room
  /\ LET job == Head(backend.schedule)
         l == IF job.route THEN Send(link, Cmd("route", Band(Memories[job.v].freq))) ELSE link
     IN  /\ link' = Send(l, Cmd(job.k, job.v))
         /\ backend' = [backend EXCEPT !.schedule = Tail(@),
                          !.reads = IF job.k = "memory" THEN @ \o <<job.v, job.v>> ELSE @]
  /\ UNCHANGED <<win, vfo, radio, spent>>

Readback ==
  /\ backend.reads # <<>> /\ Room /\ link.in = <<>>
  /\ backend' = [backend EXCEPT !.reads = Tail(@)]
  /\ link' = Send(link, Cmd("read", Head(backend.reads)))
  /\ UNCHANGED <<win, vfo, radio, spent>>

\* pollFrequency, and the background poll.
Poll ==
  /\ Room /\ link.out = <<>>
  /\ link' = Send(link, Cmd("poll", 0))
  /\ UNCHANGED <<win, vfo, backend, radio, spent>>

(***************************************************************************)
(* The operator.                                                           *)
(***************************************************************************)
\* leaveMemoryModeForManualChange and setFrequencyHz, which itself leaves a
\* memory MainWindow does not know of, before it tunes.
Tune ==
  LET known == win.active # 0
      memory == backend.selected # 0
      l == IF known \/ memory THEN selectVfoMode(backend, link) ELSE link
  IN  /\ Operates(CASE ~(known \/ memory) -> "no"
                     [] \E i \in DOMAIN backend.schedule : backend.schedule[i].k = "memory" -> "early"
                     [] OTHER -> "yes", 0)
      /\ win' = clearActiveMemory(win)
      /\ IF memory /\ ~known
         THEN /\ link' = Send(l, Cmd("set", Elsewhere))
              /\ backend' = Unselected(backend)
         ELSE /\ link' = l
              /\ backend' = [Unselected(backend) EXCEPT
                  !.schedule = Scheduled(@, [k |-> "set", v |-> Elsewhere, route |-> FALSE])]
      /\ UNCHANGED <<vfo, radio>>

\* onPttPressed and onPttReleased; the latter does not wait for the radio.
PttPressed ==
  /\ ~win.ptt /\ Operates(spent.left, spent.asked)
  /\ win' = beginMemoryPttFrequencyTransition(win)
  /\ link' = Send(link, Cmd("ptt", 1))
  /\ UNCHANGED <<vfo, backend, radio>>

PttReleased ==
  /\ win.ptt /\ Room
  /\ win' = [win EXCEPT !.ptt = FALSE]
  /\ link' = Send(link, Cmd("ptt", 0))
  /\ UNCHANGED <<vfo, backend, radio, spent>>

\* The session ends: nothing is active, nothing on its way.
SessionLost ==
  /\ Operates("no", 0)
  /\ win' = clearActiveMemory([win EXCEPT !.ptt = FALSE, !.tx = FALSE])
  /\ backend' = [backend EXCEPT !.selected = 0, !.schedule = <<>>, !.reads = <<>>]
  /\ link' = [out |-> <<>>, in |-> <<>>]
  /\ radio' = [radio EXCEPT !.ptt = FALSE]
  /\ UNCHANGED vfo

(***************************************************************************)
(* Reports reach VfoModel, which emits what changed.                       *)
(***************************************************************************)
Taken(l) == [l EXCEPT !.in = Tail(@)]

\* A frequency outside a transmission is also the backend's.
FrequencyReported(hz) ==
  LET b == IF win.ptt THEN backend ELSE [backend EXCEPT !.hz = hz]
      leaves == vfo.freq # hz /\ Strange(win, hz)
  IN  /\ vfo' = [vfo EXCEPT !.freq = hz]
      /\ win' = IF vfo.freq = hz THEN win ELSE onFrequencyChanged(win, hz)
      /\ backend' = IF leaves THEN Unselected(b) ELSE b
      /\ link' = IF leaves THEN selectVfoMode(b, Taken(link)) ELSE Taken(link)

FieldReported(f, v) ==
  /\ vfo' = [vfo EXCEPT ![f] = v]
  /\ win' = IF vfo[f] = v THEN win ELSE onFieldChanged(win, f, v)
  /\ link' = Taken(link) /\ UNCHANGED backend

\* handleRadioMemoryReceived and applyMemoryToVfo, which emits what differs.
Applied(w, id) ==
  LET m == Memories[id]
      s == setActiveMemory(w, id, m, vfo)
  IN  IF s.settled = Fields THEN s
      ELSE checkIfMemorySelectionComplete([s EXCEPT !.settled = Fields])

MemoryReply(id, stored) ==
  /\ IF win.active # id THEN UNCHANGED <<win, vfo>>
     ELSE IF stored
          THEN /\ win' = Applied(win, id)
               /\ vfo' = [f \in Fields |-> IF f = "tone" /\ Memories[id].tone = 0
                                           THEN vfo[f] ELSE Memories[id][f]]
          ELSE /\ win' = IF win.applying THEN win ELSE clearActiveMemory(win)
               /\ UNCHANGED vfo
  /\ link' = Taken(link) /\ UNCHANGED backend

\* applyPtt asks for the frequency when the transmitter goes off.
PttReported(on) ==
  /\ win' = IF on = win.tx THEN win ELSE [onPttChanged(win, on) EXCEPT !.tx = on]
  /\ link' = IF on \/ ~win.tx THEN Taken(link) ELSE Send(Taken(link), Cmd("poll", 0))
  /\ UNCHANGED <<vfo, backend>>

Report ==
  /\ link.in # <<>> /\ Len(link.out) < MaxQueue
  /\ LET q == Head(link.in)
     IN  CASE q.k = "ptt"     -> PttReported(q.v = 1)
           [] q.k = "memory"  -> MemoryReply(q.v, TRUE)
           [] q.k = "emptied" -> MemoryReply(q.v, FALSE)
           [] q.k = "freq"    -> FrequencyReported(q.v)
           [] OTHER           -> FieldReported(q.k, q.v)
  /\ UNCHANGED <<radio, spent>>

(***************************************************************************)
(* Timers of three seconds, longer than the selection and both readbacks   *)
(* take.  That of an earlier selection does nothing.                       *)
(***************************************************************************)
Quiet == link.out = <<>> /\ link.in = <<>> /\ backend.schedule = <<>> /\ backend.reads = <<>>

Released(w, t) ==
  LET rest == [w EXCEPT !.timers = @ \ {t}]
  IN  IF t.gen = w.gen THEN [rest EXCEPT !.applying = FALSE, !.releasing = FALSE] ELSE rest

Timer ==
  /\ Quiet
  /\ \E t \in win.timers : win' = Released(win, t)
  /\ UNCHANGED <<vfo, backend, link, radio, spent>>

(***************************************************************************)
(* The radio and the link (external).                                      *)
(***************************************************************************)
ReportedHz(r) == IF r.ptt THEN transmitMemoryHz(r.now) ELSE r.now.freq
Others == Fields \ {"freq"}
Readings(r) == <<Cmd("freq", ReportedHz(r))>>
               \o [i \in 1..Cardinality(Others) |-> Cmd(SetToSeq(Others)[i], r.now[SetToSeq(Others)[i]])]

Executed(r, q) ==
  CASE q.k = "route"  -> LET c == [r.vfo EXCEPT !.freq = Routing(q.v)]
                         IN  [r EXCEPT !.now = c, !.vfo = c, !.mem = 0]
    [] q.k = "memory" -> IF q.v \in r.stored THEN [r EXCEPT !.now = Memories[q.v], !.mem = q.v] ELSE r
    [] q.k = "transfer" -> [r EXCEPT !.vfo = r.now, !.mem = 0]
    [] q.k = "vfo"    -> [r EXCEPT !.now = r.vfo, !.mem = 0]
    [] q.k = "set"    -> [r EXCEPT !.now.freq = q.v, !.vfo.freq = IF r.mem = 0 THEN q.v ELSE @]
    [] q.k = "ptt"    -> [r EXCEPT !.ptt = q.v = 1]
    [] OTHER -> r

Answer(r, q) ==
  CASE q.k = "read" -> (IF q.v \in Ids
                        THEN <<Cmd(IF q.v \in r.stored THEN "memory" ELSE "emptied", q.v)>> ELSE <<>>)
                       \o Readings(r)
    [] q.k = "ptt"  -> <<Cmd("freq", ReportedHz(Executed(r, q))), q>>
    [] q.k \in {"poll", "set"} -> <<Cmd("freq", ReportedHz(Executed(r, q)))>>
    [] OTHER -> <<>>

RadioAnswers ==
  /\ link.out # <<>> /\ Len(link.in) + Cardinality(Fields) + 1 <= MaxQueue
  /\ LET q == Head(link.out)
     IN  /\ radio' = Executed(radio, q)
         /\ link' = [out |-> Tail(link.out), in |-> link.in \o Answer(radio, q)]
  /\ UNCHANGED <<win, vfo, backend, spent>>

\* Somebody turns the dial of the radio, or empties the memory there.
AtTheRadio ==
  /\ spent.acts < MaxActs /\ Len(link.in) < MaxQueue
  /\ spent' = [spent EXCEPT !.acts = @ + 1, !.asked = 0, !.left = "no"]
  /\ \/ /\ radio' = [radio EXCEPT !.now.freq = Elsewhere,
                                  !.vfo.freq = IF radio.mem = 0 THEN Elsewhere ELSE @]
        /\ link' = [link EXCEPT !.in = Append(@, Cmd("freq", Elsewhere))]
     \/ \E id \in radio.stored : radio' = [radio EXCEPT !.stored = @ \ {id}] /\ UNCHANGED link
  /\ UNCHANGED <<win, vfo, backend>>

Lose ==
  /\ spent.lost < MaxLost
  /\ spent' = [spent EXCEPT !.lost = @ + 1, !.asked = 0, !.left = "no"]
  /\ \/ link.out # <<>> /\ link' = [link EXCEPT !.out = Tail(@)]
     \/ link.in # <<>> /\ link' = [link EXCEPT !.in = Tail(@)]
  /\ UNCHANGED <<win, vfo, backend, radio>>

Next == \/ \E id \in Ids : SelectMemory(id)
        \/ RunScheduled \/ Readback \/ Poll \/ Tune \/ PttPressed \/ PttReleased
        \/ SessionLost \/ Report \/ Timer \/ RadioAnswers \/ AtTheRadio \/ Lose

Spec == Init /\ [][Next]_vars

TypeOK ==
  /\ win.active \in Ids \cup {0} /\ win.settled \subseteq Fields
  /\ {win.applying, win.releasing, win.awaiting, win.ptt, win.tx} \subseteq BOOLEAN
  /\ {t.gen : t \in win.timers} \subseteq 0..win.gen
  /\ backend.selected \in Ids \cup {0} /\ Len(backend.schedule) <= 2 /\ Range(backend.reads) \subseteq Ids
  /\ Len(link.out) <= MaxQueue /\ Len(link.in) <= MaxQueue

\* A memory MAIN was put on stays the active one while nobody leaves it: not
\* the routing tune, not reports older than the selection, not the shifted
\* frequency of a transmission and not a timer of an earlier selection ends it.
SelectionKept == spent.asked # 0 => win.active = spent.asked

\* When the operator tunes away from a memory, the radio leaves memory mode, so
\* that the frequency is the VFO's and not a change of the memory.
LeavesMemory == spent.left = "yes" /\ Quiet => radio.mem = 0

\* The same of a memory whose selection still waits in the schedule: the code
\* sends the way out at once and the way in afterwards.
LeavesMemoryAlways == spent.left # "no" /\ Quiet => radio.mem = 0
=============================================================================
