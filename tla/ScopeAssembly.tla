--------------------------- MODULE ScopeAssembly ---------------------------
(***************************************************************************)
(* Commander::parseSpectrum: the scope sweeps of the two receivers arrive  *)
(* interleaved, each as wave information (sequence 1) and numbered chunks  *)
(* of pixels, over a link that loses and repeats packets.  The parser      *)
(* keeps, per receiver, the partial frame, the chunk it expects next and   *)
(* a clock started by the wave information.                                *)
(***************************************************************************)
EXTENDS Integers, Sequences

CONSTANTS
    SeqMax,        \* spectSeqMax: the chunks of a sweep
    LenMax,        \* spectLenMax: the pixels of a frame, in chunks here
    MaxSweeps,     \* bound: sweeps of each receiver
    MaxFaults      \* bound: chunks lost or repeated

AssemblyAssumption == /\ SeqMax \in Nat /\ SeqMax > 2
                             /\ {LenMax, MaxSweeps, MaxFaults} \subseteq Nat

VARIABLES
    expected,      \* m_expectedScopeSequences
    stored,        \* mainScopeData.data and subScopeData.data, as <<sweep, chunk>>
    clock,         \* m_scopeAssemblyClocks: "invalid", "running", or "late" (> 250 ms)
    air,           \* next chunk of the sweep each receiver is sending, and its kind
    frame,         \* the frame the last chunk published, or Nothing
    faults

vars == <<expected, stored, clock, air, frame, faults>>

Receivers == {"main", "sub"}
Nothing == [nothing |-> TRUE]

\* A sweep is a multi-packet one, one out of range (a frame of zeros at once)
\* or, from a radio set for it, a single packet.
Kinds == {"multi", "outOfRange", "single", "tooMany"}

Init == /\ expected = [r \in Receivers |-> 0]
        /\ stored = [r \in Receivers |-> <<>>]
        /\ clock = [r \in Receivers |-> "invalid"]
        /\ air = [r \in Receivers |-> [sweep |-> 0, chunk |-> 1, kind |-> "multi"]]
        /\ frame = Nothing
        /\ faults = 0

appendScopePixels(data, pixel) == IF Len(data) < LenMax THEN Append(data, pixel) ELSE data

\* Mutant: a gap in the chunks goes unnoticed.
AcceptsAny(r, chunk) == clock[r] = "running" /\ expected[r] # 0

Continues(r, chunk) == clock[r] = "running" /\ expected[r] = chunk

Published(r, data) == [receiver |-> r, data |-> data]

Keep == UNCHANGED <<stored, clock>>

\* Wave information: an out-of-range sweep publishes zeros and leaves the
\* partial frame as it is; else a new partial frame begins.
WaveInfo(r, kind) ==
  IF kind = "outOfRange"
  THEN frame' = Published(r, <<>>) /\ Keep /\ UNCHANGED expected
  ELSE /\ stored' = [stored EXCEPT ![r] = <<>>]
       /\ clock' = [clock EXCEPT ![r] = "running"]
       /\ expected' = [expected EXCEPT ![r] = 2]
       /\ frame' = Nothing

\* A chunk out of turn or too late ends the assembly; the last one publishes,
\* and the stored part is left behind.
Chunk(r, sweep, n) ==
  IF ~Continues(r, n)
  THEN expected' = [expected EXCEPT ![r] = 0] /\ frame' = Nothing /\ Keep
  ELSE LET data == appendScopePixels(stored[r], <<sweep, n>>)
       IN  IF n < SeqMax
           THEN /\ stored' = [stored EXCEPT ![r] = data]
                /\ expected' = [expected EXCEPT ![r] = n + 1]
                /\ frame' = Nothing
                /\ UNCHANGED clock
           ELSE /\ expected' = [expected EXCEPT ![r] = 0]
                /\ frame' = Published(r, data)
                /\ Keep

parseSpectrum(r, sweep, n, kind) ==
  CASE kind = "tooMany" -> expected' = [expected EXCEPT ![r] = 0] /\ frame' = Nothing /\ Keep
    [] kind = "single" -> /\ expected' = [expected EXCEPT ![r] = 0]
                          /\ frame' = Published(r, <<>>) /\ Keep
    [] kind \in {"multi", "outOfRange"} -> IF n = 1 THEN WaveInfo(r, kind) ELSE Chunk(r, sweep, n)

\* The radio's next chunk: a sweep of another kind is one packet.
Advance(r, kind) ==
  LET a == air[r]
      last == kind # "multi" \/ a.chunk = SeqMax
  IN  /\ a.sweep < MaxSweeps
      /\ a.chunk > 1 => kind = "multi"
      /\ air' = [air EXCEPT ![r] =
                   IF last THEN [sweep |-> a.sweep + 1, chunk |-> 1, kind |-> kind]
                   ELSE [a EXCEPT !.chunk = @ + 1, !.kind = kind]]

Arrive(r) == \E kind \in Kinds : /\ Advance(r, kind)
                                 /\ parseSpectrum(r, air[r].sweep, air[r].chunk, kind)
                                 /\ UNCHANGED faults

Fault == faults < MaxFaults /\ faults' = faults + 1

LoseChunk(r) == /\ Fault /\ Advance(r, "multi") /\ frame' = Nothing
                /\ UNCHANGED <<expected, stored, clock>>

\* The chunk sent last arrives once more.
Repeat(r) == /\ Fault /\ air[r].chunk > 1
             /\ parseSpectrum(r, air[r].sweep, air[r].chunk - 1, "multi")
             /\ UNCHANGED air

\* The chunks of a sweep follow each other closely; 250 ms pass only when the
\* link stalls.
Stall(r) == /\ Fault /\ clock[r] = "running"
            /\ clock' = [clock EXCEPT ![r] = "late"]
            /\ frame' = Nothing
            /\ UNCHANGED <<expected, stored, air>>

\* resetSessionState, at the start and at the end of a session.
NewSession == /\ \E r \in Receivers : clock[r] # "invalid"
              /\ expected' = [r \in Receivers |-> 0]
              /\ stored' = [r \in Receivers |-> <<>>]
              /\ clock' = [r \in Receivers |-> "invalid"]
              /\ frame' = Nothing
              /\ UNCHANGED <<air, faults>>

Next == NewSession \/ \E r \in Receivers : Arrive(r) \/ LoseChunk(r) \/ Repeat(r) \/ Stall(r)

Spec == Init /\ [][Next]_vars

TypeOK == /\ expected \in [Receivers -> 0 .. SeqMax]
          /\ clock \in [Receivers -> {"invalid", "running", "late"}]
          /\ \A r \in Receivers : Len(stored[r]) <= LenMax
          /\ faults \in 0 .. MaxFaults

\* A frame assembled from chunks has every pixel in its place whatever was
\* lost or repeated on the way: the chunks 2 .. SeqMax in order, as many as
\* the frame holds, and the sweeps they come from in order.  (They may be of
\* two sweeps: losing the end of one and the same length of the next leaves a
\* sequence without a gap, inside 250 ms.)
PixelsInPlace ==
  frame # Nothing /\ frame.data # <<>> =>
    LET d == frame.data
    IN  /\ Len(d) = IF SeqMax - 1 < LenMax THEN SeqMax - 1 ELSE LenMax
        /\ \A i \in DOMAIN d : d[i][2] = i + 1
        /\ \A i, j \in DOMAIN d : i < j => d[i][1] <= d[j][1]
=============================================================================
