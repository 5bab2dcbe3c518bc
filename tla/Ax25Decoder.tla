----------------------------- MODULE Ax25Decoder -----------------------------
(* The decoder of AX.25 packets (Ax25Decoder.cpp).  Audio is sampled several *)
(* times per symbol and each sampling instant within a symbol, a lane, has   *)
(* an HDLC receiver of its own; the tone of a window and the level meter are *)
(* left out, so that a step is one sample and what a lane hears of the tones *)
(* on the air is chosen: with a delay, with tones inverted, with the decoder *)
(* reset in between.                                                         *)
(*                                                                           *)
(* A byte is the sequence of its bits, the lowest first.                     *)
EXTENDS Integers, Sequences, SequencesExt, FiniteSets, FiniteSetsExt

CONSTANTS
    SamplesPerSymbol,   \* lanes
    Talks,              \* what may be on the air: sequences of Items
    Hearings,           \* how the lanes may hear it: [delay, inverted, resets]
    MaxRawBits          \* 16384 in the code

VARIABLES
    decoder,   \* the decoder's members
    frames,    \* packets it returned, the oldest first
    air        \* the transmission: [tones, meant, proper, spans, hearing, at]

packetVars == <<decoder, frames, air>>

Lanes == 1 .. SamplesPerSymbol
PacketAssumption == SamplesPerSymbol \in Nat \ {0} /\ MaxRawBits \in Nat \ {0}

(* Bits and bytes.                                                           *)
Value(bits) == SumSet({2 ^ (i - 1) : i \in {j \in DOMAIN bits : bits[j]}})
Bits(n, width) == [i \in 1 .. width |-> (n \div 2 ^ (i - 1)) % 2 = 1]
Zeros(n) == [i \in 1 .. n |-> FALSE]
Ones(n) == [i \in 1 .. n |-> TRUE]

\* The generator 0x8408.
Polynomial == Bits(33800, 16)

Xor(a, b) == <<>> \o [i \in DOMAIN a |-> a[i] # b[i]]
Shifted(crc) ==
    LET moved == Append(Tail(crc), FALSE)
    IN  IF Head(crc) THEN Xor(moved, Polynomial) ELSE moved

Registers == [1 .. 16 -> BOOLEAN]

\* The register after eight shifts, of which i remain.
Eight[i \in 0 .. 8, crc \in Registers] ==
    IF i = 0 THEN crc ELSE Eight[i - 1, Shifted(crc)]

ByteAdded(crc, byte) == Eight[8, Xor(crc, byte \o Zeros(8))]

\* The check sequence of bytes, as the two bytes that follow them.
frameCheckSequence(bytes) ==
    LET from[k \in 1 .. Len(bytes) + 1, crc \in Registers] ==
            IF k > Len(bytes) THEN crc ELSE from[k + 1, ByteAdded(crc, bytes[k])]
        crc == from[1, Ones(16)]
    IN  << [i \in 1 .. 8 |-> ~crc[i]], [i \in 1 .. 8 |-> ~crc[i + 8]] >>

-----------------------------------------------------------------------------
(* The fields of a frame.                                                    *)
Blank == 32
NotPrintable == 183      \* the middle dot shown instead
MinimumFrameBytes == 18
MaxAddresses == 10

Character(byte) == Value(SubSeq(byte, 2, 8))
AddressField(bytes, k) == SubSeq(bytes, 7 * k - 6, 7 * k)

decodeAddress(field, digipeater) ==
    [ call |-> SelectSeq([i \in 1 .. 6 |-> Character(field[i])], LAMBDA c : c # Blank),
      ssid |-> Value(SubSeq(field[7], 2, 5)),
      repeated |-> digipeater /\ field[7][8] ]

isValidAddress(field) ==
    /\ \A i \in 1 .. 6 :
          /\ ~field[i][1]
          /\ Character(field[i]) \in {Blank} \cup (65 .. 90) \cup (48 .. 57)
    /\ \E i \in 1 .. 6 : Character(field[i]) # Blank
    /\ field[7][6] /\ field[7][7]

\* Addresses up to and including the first one marked as the last; 0 when
\* none is marked.
AddressCount(bytes) ==
    LET marked == {k \in 1 .. Len(bytes) \div 7 : bytes[7 * k][1]}
    IN  IF marked = {} THEN 0 ELSE Min(marked)

structurallyValid(bytes) ==
    LET n == AddressCount(bytes)
    IN  /\ Len(bytes) >= 16
        /\ n \in 2 .. MaxAddresses
        /\ \A k \in 1 .. n : isValidAddress(AddressField(bytes, k))
        /\ 7 * n < Len(bytes)

FrameType(control) ==
    CASE Value(control) = 3 -> "UI"
      [] ~control[1] -> "I"
      [] control[1] /\ ~control[2] -> "S"
      [] OTHER -> "U"

printablePayload(bytes) ==
    [i \in DOMAIN bytes |-> LET b == Value(bytes[i])
                            IN  IF b >= 32 /\ b < 127 THEN b ELSE NotPrintable]

parseFrame(bytes) ==
    LET n == AddressCount(bytes)
        type == FrameType(bytes[7 * n + 1])
        pid == type \in {"UI", "I"} /\ 7 * n + 1 < Len(bytes)
    IN  [ destination |-> decodeAddress(AddressField(bytes, 1), FALSE),
          source |-> decodeAddress(AddressField(bytes, 2), FALSE),
          path |-> [k \in 1 .. n - 2 |-> decodeAddress(AddressField(bytes, k + 2), TRUE)],
          type |-> type,
          payload |-> printablePayload(SubSeq(bytes, 7 * n + (IF pid THEN 3 ELSE 2), Len(bytes))) ]

-----------------------------------------------------------------------------
(* The receiver of a lane.                                                   *)
Flag == <<FALSE, TRUE, TRUE, TRUE, TRUE, TRUE, TRUE, FALSE>>

NewLane == [haveTone |-> FALSE, previousTone |-> FALSE, inFrame |-> FALSE,
            shiftRegister |-> Zeros(8), rawBits |-> <<>>]

Fresh == [ sampleIndex |-> 0, lanes |-> [l \in Lanes |-> NewLane],
           candidates |-> 0, decoded |-> 0, fcsFailures |-> 0, malformed |-> 0,
           lastFrame |-> <<>>, lastFrameAt |-> -1, lastRejectedAt |-> -1, lastMalformedAt |-> -1 ]

\* Consecutive ones before bit i.
OnesBefore(bits, i) == i - 1 - Max({0} \cup {j \in 1 .. i - 1 : ~bits[j]})

\* Seven ones in a row occur in no frame.
Malformed(bits) == \E i \in DOMAIN bits : bits[i] /\ OnesBefore(bits, i) = 6

\* Mutant: a zero is taken for stuffing after six ones.
StuffingLate(bits, i) == ~bits[i] /\ OnesBefore(bits, i) = 6

\* A zero the sender inserted after five ones.
Stuffing(bits, i) == ~bits[i] /\ OnesBefore(bits, i) = 5

Unstuffed(bits) ==
    LET kept == SelectSeq([i \in DOMAIN bits |-> i], LAMBDA i : ~Stuffing(bits, i))
    IN  <<>> \o [k \in DOMAIN kept |-> bits[kept[k]]]

Octets(bits) == [k \in 1 .. Len(bits) \div 8 |-> SubSeq(bits, 8 * k - 7, 8 * k)]

\* Mutant: any two equal packets are taken for one.
EverRecent(index, last) == last >= 0

\* Whether a sample lies within two symbols of the one at "last" (-1: none).
Recent(index, last) ==
    last >= 0 /\ index >= last /\ index - last <= Max({1, 2 * SamplesPerSymbol})

\* finishFrame: the decoder d after the bits between two flags, and what it
\* returned.
finishFrame(d, rawBits) ==
    LET bits == Unstuffed(rawBits)
        bytes == Octets(bits)
        frame == SubSeq(bytes, 1, Len(bytes) - 2)
        none == [decoder |-> d, frames |-> <<>>]
    IN  IF Malformed(rawBits) \/ Len(bits) % 8 # 0 \/ Len(bytes) < MinimumFrameBytes THEN none
        ELSE IF frameCheckSequence(frame) # SubSeq(bytes, Len(bytes) - 1, Len(bytes))
        THEN IF Recent(d.sampleIndex, d.lastRejectedAt) THEN none
             ELSE [none EXCEPT !.decoder.candidates = @ + 1, !.decoder.fcsFailures = @ + 1,
                               !.decoder.lastRejectedAt = d.sampleIndex]
        ELSE IF ~structurallyValid(frame)
        THEN IF Recent(d.sampleIndex, d.lastMalformedAt) THEN none
             ELSE [none EXCEPT !.decoder.candidates = @ + 1, !.decoder.malformed = @ + 1,
                               !.decoder.lastMalformedAt = d.sampleIndex]
        ELSE IF frame = d.lastFrame /\ Recent(d.sampleIndex, d.lastFrameAt) THEN none
        ELSE [ frames |-> <<parseFrame(frame)>>,
               decoder |-> [d EXCEPT !.candidates = @ + 1, !.decoded = @ + 1,
                                     !.lastFrame = frame, !.lastFrameAt = d.sampleIndex] ]

\* Mutant: a flag that closes a frame does not open the next one.
FlagClosesOnly(h) == [h EXCEPT !.inFrame = ~@, !.rawBits = <<>>]

\* The lane after a flag.
Flagged(h) == [h EXCEPT !.inFrame = TRUE, !.rawBits = <<>>]

\* The lane after a bit, before the flag is looked for.
Shifting(h, bit) ==
    LET bits == Append(h.rawBits, bit)
        moved == [h EXCEPT !.shiftRegister = Append(Tail(@), bit)]
    IN  IF ~h.inFrame THEN moved
        ELSE IF Len(bits) > MaxRawBits THEN [moved EXCEPT !.inFrame = FALSE, !.rawBits = <<>>]
        ELSE [moved EXCEPT !.rawBits = bits]

acceptBit(d, l, bit) ==
    LET h == Shifting(d.lanes[l], bit)
        ends == h.shiftRegister = Flag /\ h.inFrame /\ Len(h.rawBits) > 8
        result == IF ends THEN finishFrame(d, SubSeq(h.rawBits, 1, Len(h.rawBits) - 8))
                  ELSE [decoder |-> d, frames |-> <<>>]
    IN  [result EXCEPT !.decoder.lanes[l] = IF h.shiftRegister = Flag THEN Flagged(h) ELSE h]

acceptTone(d, l, tone) ==
    IF ~d.lanes[l].haveTone
    THEN [frames |-> <<>>,
          decoder |-> [d EXCEPT !.lanes[l].haveTone = TRUE, !.lanes[l].previousTone = tone]]
    ELSE acceptBit([d EXCEPT !.lanes[l].previousTone = tone], l, tone = d.lanes[l].previousTone)

-----------------------------------------------------------------------------
(* The sender: addresses, the check sequence, bits stuffed, flags, and a     *)
(* tone that changes for every zero.                                         *)
AddressBytes(a, last) ==
    [i \in 1 .. 7 |->
        IF i = 7 THEN <<last>> \o Bits(a.ssid, 4) \o <<TRUE, TRUE, a.repeated>>
        ELSE <<FALSE>> \o Bits(IF i <= Len(a.call) THEN a.call[i] ELSE Blank, 7)]

FrameBytes(f) ==
    LET fields == <<f.destination, f.source>> \o f.path
        n == Len(fields)
        head == [i \in 1 .. 7 * n |->
                    AddressBytes(fields[(i + 6) \div 7], i > 7 * n - 7)[1 + ((i - 1) % 7)]]
        body == head \o [i \in DOMAIN f.rest |-> Bits(f.rest[i], 8)]
    IN  body \o frameCheckSequence(body)

BitsOfBytes(bytes) == [i \in 1 .. 8 * Len(bytes) |-> bytes[(i + 7) \div 8][1 + ((i - 1) % 8)]]

\* A zero follows every fifth one of a run.
Stuffed(bits) ==
    LET places == SelectSeq([p \in 1 .. 2 * Len(bits) |-> p],
                    LAMBDA p : p % 2 = 1 \/ (bits[p \div 2] /\ OnesBefore(bits, p \div 2) % 5 = 4))
    IN  <<>> \o [k \in DOMAIN places |-> places[k] % 2 = 1 /\ bits[(places[k] + 1) \div 2]]

\* An item of a talk: a frame with its opening flag, one that uses the closing
\* flag of the frame before, "n" flags, or a tone kept for "n" symbols.
ItemBits(item) ==
    CASE item.what = "frame" -> Flag \o Stuffed(BitsOfBytes(FrameBytes(item.frame))) \o Flag
      [] item.what = "next" -> Stuffed(BitsOfBytes(FrameBytes(item.frame))) \o Flag
      [] item.what = "flags" -> [i \in 1 .. 8 * item.n |-> Flag[1 + ((i - 1) % 8)]]
      [] OTHER -> Ones(item.n)

BitsOf(talk) == FlattenSeq([k \in DOMAIN talk |-> ItemBits(talk[k])])

TonesOf(bits) ==
    [i \in 1 .. Len(bits) + 1 |-> Cardinality({j \in 1 .. i - 1 : ~bits[j]}) % 2 = 1]

FrameItems(talk) == SelectSeq([k \in DOMAIN talk |-> k], LAMBDA k : talk[k].what \in {"frame", "next"})

\* The tones from the one before the opening flag to the closing flag's last.
Span(talk, k) ==
    LET before == Len(BitsOf(SubSeq(talk, 1, k - 1)))
    IN  << IF talk[k].what = "next" THEN before - 7 ELSE before + 1,
           before + Len(ItemBits(talk[k])) + 1 >>

IsCall(a) ==
    /\ a.call # <<>>
    /\ Len(a.call) <= 6
    /\ \A i \in DOMAIN a.call : a.call[i] \in (65 .. 90) \cup (48 .. 57)

\* A packet between stations with proper calls and at most eight repeaters,
\* long enough for the decoder.
Proper(f) ==
    /\ IsCall(f.destination) /\ IsCall(f.source)
    /\ \A i \in DOMAIN f.path : IsCall(f.path[i])
    /\ Len(f.path) <= 8 /\ f.rest # <<>>
    /\ Len(FrameBytes(f)) >= MinimumFrameBytes

\* What the sender of f meant, unprintable bytes shown as dots.
Meant(f) ==
    LET type == FrameType(Bits(f.rest[1], 8))
        text == SubSeq(f.rest, IF type \in {"UI", "I"} THEN 3 ELSE 2, Len(f.rest))
    IN  [ destination |-> [f.destination EXCEPT !.repeated = FALSE],
          source |-> [f.source EXCEPT !.repeated = FALSE],
          path |-> f.path, type |-> type,
          payload |-> [i \in DOMAIN text |-> IF text[i] \in 32 .. 126 THEN text[i] ELSE NotPrintable] ]

OnAir(talk) ==
    LET ks == FrameItems(talk)
    IN  [ tones |-> TonesOf(BitsOf(talk)),
          meant |-> [i \in DOMAIN ks |-> Meant(talk[ks[i]].frame)],
          proper |-> {i \in DOMAIN ks : Proper(talk[ks[i]].frame)},
          spans |-> [i \in DOMAIN ks |-> Span(talk, ks[i])] ]

-----------------------------------------------------------------------------
Symbol == 1 + (air.at \div SamplesPerSymbol)
Lane == 1 + (decoder.sampleIndex % SamplesPerSymbol)

\* The tone the current lane hears.
Heard ==
    LET s == Symbol - air.hearing.delay[Lane]
        tone == s >= 1 /\ air.tones[Min({s, Len(air.tones)})]
    IN  tone # (s \in air.hearing.inverted[Lane])

Over == Symbol > Len(air.tones) + 1

\* A symbol that starts with a change of the receiver the decoder listens to.
Resetting ==
    /\ Symbol \in air.hearing.resets /\ air.at % SamplesPerSymbol = 0
    /\ decoder # Fresh

\* processAudio with another receiver channel, or the worker's reset.
Reset ==
    /\ ~Over /\ Resetting
    /\ decoder' = Fresh
    /\ UNCHANGED <<frames, air>>

\* One sample of processPcm16; there is no tone before the window is full.
Sample ==
    /\ ~Over /\ ~Resetting
    /\ LET result == IF decoder.sampleIndex < SamplesPerSymbol - 1
                     THEN [decoder |-> decoder, frames |-> <<>>]
                     ELSE acceptTone(decoder, Lane, Heard)
       IN  /\ decoder' = [result.decoder EXCEPT !.sampleIndex = @ + 1]
           /\ frames' = frames \o result.frames
    /\ air' = [air EXCEPT !.at = @ + 1]

\* The talk is over and heard by every lane.
Silence == Over /\ UNCHANGED packetVars

Init ==
    /\ decoder = Fresh
    /\ frames = <<>>
    /\ \E talk \in Talks, hearing \in Hearings :
          LET on == OnAir(talk)
          IN  air = [ tones |-> on.tones, meant |-> on.meant, proper |-> on.proper,
                      spans |-> on.spans, hearing |-> hearing, at |-> 0 ]

Next == Sample \/ Reset \/ Silence
Spec == Init /\ [][Next]_packetVars

-----------------------------------------------------------------------------
LaneType(h) ==
    /\ {h.haveTone, h.previousTone, h.inFrame} \subseteq BOOLEAN
    /\ Len(h.shiftRegister) = 8
    /\ Len(h.rawBits) \in 0 .. MaxRawBits
    /\ ~h.inFrame => h.rawBits = <<>>

\* Types; a lane never keeps more bits than the limit, whatever it hears.
TypeOK ==
    /\ \A l \in Lanes : LaneType(decoder.lanes[l])
    /\ {decoder.sampleIndex, decoder.candidates, decoder.decoded, decoder.fcsFailures,
        decoder.malformed} \subseteq Nat
    /\ {decoder.lastFrameAt, decoder.lastRejectedAt, decoder.lastMalformedAt} \subseteq Nat \cup {-1}
    /\ air.at \in Nat

\* A lane heard frame k without an inverted tone, a reset or an overlong wait.
IntactIn(k, l) ==
    LET first == air.spans[k][1]  last == air.spans[k][2]  d == air.hearing.delay[l]
    IN  /\ (first .. last) \cap air.hearing.inverted[l] = {}
        /\ (first + d .. last + d) \cap air.hearing.resets = {}
        /\ last - first < MaxRawBits

Passed(k, l) == Symbol > air.spans[k][2] + air.hearing.delay[l]

Sent == DOMAIN air.spans

\* The meaning of the proper packets among ks, in the order they were sent.
MeaningOf(ks) == [i \in DOMAIN ks |-> air.meant[ks[i]]]
InOrder(ks) == MeaningOf(SelectSeq([k \in Sent |-> k], LAMBDA k : k \in ks \cap air.proper))

\* Packets some lane has heard to the end, and those some lane will hear.
Done == {k \in Sent : \E l \in Lanes : IntactIn(k, l) /\ Passed(k, l)}
Coming == {k \in Sent : \E l \in Lanes : IntactIn(k, l)}

\* Every packet that at least one lane heard intact is returned once, in
\* order and as its sender meant it, and nothing else is: neither again for
\* another lane, nor out of noise, nor is a real repetition lost
\* (Ax25Decoder::finishFrame, parseFrame).
ReturnedOnce ==
    /\ IsPrefix(InOrder(Done), frames)
    /\ IsPrefix(frames, InOrder(Coming))

\* A damaged or malformed transmission counts once, not once per lane, and
\* the counts add up to the candidates (isDistinctCandidate).
CountedOnce ==
    /\ decoder.candidates = decoder.decoded + decoder.fcsFailures + decoder.malformed
    /\ decoder.fcsFailures <= Cardinality({k \in Sent : \E l \in Lanes : ~IntactIn(k, l)})
    /\ decoder.malformed <= Cardinality(Sent \ air.proper)
=============================================================================
