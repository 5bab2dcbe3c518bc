------------------------------ MODULE CivCodec ------------------------------
(***************************************************************************)
(* How a setting travels to the radio and back: Commander encodes the      *)
(* value a RadioBackend setter passes (appendSetCommandValue), frames it,  *)
(* the radio answers a read of the same register in the same coding, and   *)
(* Commander unpacks the answer (parseData, parseCommand and the reply     *)
(* parsers).  A byte is a number 0..255 and packed decimal is arithmetic   *)
(* on its two digits; a register is a "kind", all registers of one coding  *)
(* being the same kind, and one byte of command stands for its prefix.     *)
(*                                                                         *)
(* A run of the model is one setting: it is encoded, and the reply is      *)
(* delivered whole, behind a leftover fragment, without its first byte or  *)
(* cut short.                                                              *)
(***************************************************************************)
EXTENDS Integers, Sequences, SequencesExt

CONSTANT Codes     \* tone and code values tried

VARIABLES item,    \* the setting: [kind, v]
          mode,    \* class of the mode in the value cache: "AM", "RTTY", "other"
          wire,    \* bytes of the value, as sent after the command
          value    \* what the last reply published, or Nothing

codecVars == <<item, mode, wire, value>>

Nothing == [nothing |-> TRUE]
Preamble == 254
EndOfFrame == 253
Controller == 225        \* compCivAddr, 0xE1
Controllers == {Controller, 224}
Everyone == 0
Radio == 162             \* the IC-9700's address, 0xA2
Command == 20

(***************************************************************************)
(* Packed decimal.                                                         *)
(***************************************************************************)
Packed(n) == (n % 10) + 16 * (n \div 10)
Unpacked(b) == (b % 16) + 10 * (b \div 16)
bcdEncodeChar(n) == IF n > 99 THEN <<>> ELSE <<Packed(n)>>
bcdEncodeInt(n) == IF n > 9999 THEN <<>> ELSE <<Packed(n \div 100), Packed(n % 100)>>

\* Two bytes into a quint8: the thousands digit is ignored and the rest capped.
bcdHexToUChar(h, l) == LET n == (h % 16) * 100 + Unpacked(l) IN IF n > 255 THEN 255 ELSE n
bcdHexToUInt(h, l) == Unpacked(h) * 100 + Unpacked(l)

\* Frequencies are little-endian: the first byte holds the lowest two digits.
Power(b, n) == FoldLeft(LAMBDA p, i : p * b, 1, [i \in 1 .. n |-> i])
makeFreqPayload(hz, size) == [i \in 1 .. size |-> Packed((hz \div Power(100, i - 1)) % 100)]
parseFreqDataToInt(bytes) == FoldRight(LAMBDA b, hz : hz * 100 + Unpacked(b), bytes, 0)

\* Mutant: a truncating conversion.
Truncated(n, d) == n \div d

\* The value of a rounded quotient n / d, and of one rounded up (lround, ceil).
Rounded(n, d) == (2 * n + d) \div (2 * d)
RoundedUp(n, d) == (n + d - 1) \div d

(***************************************************************************)
(* Tones carry the inversion flags of transmit and receive in one byte.    *)
(***************************************************************************)
encodeTone(t) == <<t.rinv + 16 * t.tinv>> \o bcdEncodeInt(t.code)
decodeTone(b) == IF Len(b) < 3 THEN [code |-> 670, tinv |-> 0, rinv |-> 0]
                 ELSE [code |-> bcdHexToUInt(b[2], b[3]),
                       tinv |-> b[1] % 2, rinv |-> (b[1] \div 16) % 2]

(***************************************************************************)
(* Filter widths use a scale of the mode in the cache.                     *)
(***************************************************************************)
makeFilterWidth(width, m) ==
  Packed(CASE m = "AM" -> IF width < 200 THEN 0
                          ELSE IF width \div 200 - 1 > 49 THEN 49 ELSE width \div 200 - 1
           [] m # "AM" /\ width >= 600 ->
                LET calc == width \div 100 + 4
                IN  IF m = "RTTY" /\ calc > 31 THEN 31 ELSE IF calc > 40 THEN 40 ELSE calc
           [] OTHER -> width \div 50 - 1)

parseFilterWidth(b, m) ==
  LET pass == Unpacked(b)
  IN  CASE m = "AM" -> 200 + pass * 200
        [] m # "AM" /\ pass <= 10 -> 50 + pass * 50
        [] OTHER -> 600 + (pass - 10) * 100

Sign(n) == IF n < 0 THEN 1 ELSE 0
Magnitude(n) == IF n < 0 THEN 0 - n ELSE n

(***************************************************************************)
(* The coding of each kind of register, both ways.  A mode's table entry   *)
(* is looked up by its register; a data-mode write omits the filter when   *)
(* data is off, and the radio's answer holds both.                         *)
(***************************************************************************)
ModeRegisters == {0, 1, 2, 3, 4, 5, 7, 8, 17, 22}

EncodedLevel(i) ==
  CASE i.kind = "flag" -> <<i.v>>
    [] i.kind = "small" -> bcdEncodeChar(i.v)
    [] i.kind = "level" -> bcdEncodeInt(i.v)
    [] i.kind = "keySpeed" -> bcdEncodeInt(Rounded((i.v - 6) * 6071, 1000))
    [] i.kind = "cwPitch" -> bcdEncodeInt(RoundedUp((i.v - 300) * 255, 600))

EncodedFeature(i, m) ==
  CASE i.kind = "width" -> <<makeFilterWidth(i.v, m)>>
    [] i.kind = "tone" -> encodeTone(i.v)
    [] i.kind = "rit" -> makeFreqPayload(Magnitude(i.v), 2) \o <<Sign(i.v)>>
    [] i.kind = "scopeRef" -> <<0>> \o bcdEncodeInt(Magnitude(i.v) * 10) \o <<Sign(i.v)>>
    [] i.kind = "frequency" -> makeFreqPayload(i.v, 5)
    [] i.kind = "offset" -> SubSeq(makeFreqPayload(i.v, 5), 2, 4)
    [] i.kind = "mode" -> bcdEncodeChar(i.v.reg) \o <<i.v.filter>>
    [] i.kind = "dataMode" -> bcdEncodeChar(i.v.data) \o (IF i.v.data # 0 THEN <<i.v.filter>> ELSE <<>>)

LevelKinds == {"flag", "small", "level", "keySpeed", "cwPitch"}

Encoded(i, m) == IF i.kind \in LevelKinds THEN EncodedLevel(i) ELSE EncodedFeature(i, m)

\* What the radio puts in its answer to a read of the register (external).
Answered(i, bytes) ==
  IF i.kind = "dataMode" /\ Len(bytes) = 1 THEN bytes \o <<i.v.filter>> ELSE bytes

\* Bytes a reply of the kind must hold; a tone, an offset or a wave frame is
\* accepted at any length by its own parser.
Required(kind) ==
  CASE kind \in {"flag", "small", "width", "mode"} -> 1
    [] kind \in {"level", "keySpeed", "cwPitch", "dataMode"} -> 2
    [] kind = "rit" -> 3
    [] kind = "scopeRef" -> 4
    [] kind = "frequency" -> 5
    [] OTHER -> 0

DecodedLevel(kind, b) ==
  CASE kind = "flag" -> IF b[1] = 0 THEN 0 ELSE 1
    [] kind = "small" -> Unpacked(b[1])
    [] kind = "level" -> bcdHexToUChar(b[1], b[2])
    [] kind = "keySpeed" -> Rounded(bcdHexToUChar(b[1], b[2]) * 1000 + 6 * 6071, 6071)
    [] kind = "cwPitch" -> Rounded(600 * bcdHexToUChar(b[1], b[2]) + 300 * 255, 255 * 5) * 5

parseFrequencyRptOffset(b) == IF Len(b) < 3 THEN 0 ELSE parseFreqDataToInt(SubSeq(b, 1, 3)) * 100

Signed(n, s) == IF s = 0 THEN n ELSE 0 - n

\* Two bytes of a mode reply are register and filter; the rest of the entry
\* comes from the mode table.
DecodedFeature(kind, b, m) ==
  CASE kind = "width" -> parseFilterWidth(b[1], m)
    [] kind = "tone" -> decodeTone(b)
    [] kind = "rit" -> Signed(parseFreqDataToInt(SubSeq(b, 1, 2)), b[3])
    [] kind = "scopeRef" -> Signed(bcdHexToUInt(b[2], b[3]) \div 10, b[4])
    [] kind = "frequency" -> parseFreqDataToInt(b)
    [] kind = "offset" -> parseFrequencyRptOffset(b)
    [] kind = "mode" -> IF Unpacked(b[1]) \in ModeRegisters
                        THEN [reg |-> Unpacked(b[1]), filter |-> IF Len(b) = 2 THEN b[2] ELSE 1]
                        ELSE [reg |-> 255, filter |-> 0]
    [] kind = "dataMode" -> [data |-> Unpacked(b[1]), filter |-> Unpacked(b[2])]

Decoded(kind, b, m) ==
  IF Len(b) < Required(kind) THEN Nothing
  ELSE [v |-> IF kind \in LevelKinds THEN DecodedLevel(kind, b) ELSE DecodedFeature(kind, b, m)]

(***************************************************************************)
(* Frames.  parseData cuts the bytes at every end-of-frame, skips a        *)
(* fragment too short to be a frame, restores one missing first byte, and  *)
(* takes a frame addressed to this program as a reply and one the radio    *)
(* sends to everyone as an announcement, which is dropped when it could be *)
(* the frequency or the mode of either receiver; a preamble inside the     *)
(* payload spoils the frame.                                               *)
(***************************************************************************)
Frame(to, payload) == <<Preamble, Preamble, to, Radio>> \o payload \o <<EndOfFrame>>

Fragments(bytes) ==
  FoldLeft(LAMBDA acc, b : IF b = EndOfFrame
                           THEN [done |-> Append(acc.done, Append(acc.rest, b)), rest |-> <<>>]
                           ELSE [acc EXCEPT !.rest = Append(@, b)],
           [done |-> <<>>, rest |-> <<>>], bytes).done

\* Mutant: a frame whose first byte is lost is discarded.
NotRestored(f) == f

Restored(f) == IF f[1] = Preamble /\ f[2] # Preamble THEN <<Preamble>> \o f ELSE f

Ambiguous == {"frequency", "mode", "dataMode"}

IsReply(f) == /\ f[1] = Preamble /\ f[2] = Preamble
              /\ \/ f[3] \in Controllers
                 \/ f[3] = Everyone /\ f[4] # Controller /\ item.kind \notin Ambiguous
              /\ \A i \in 5 .. Len(f) : f[i] # Preamble

\* The payloads of the replies in a block of bytes, commands removed.
Replies(bytes) ==
  LET frames == SelectSeq(Fragments(bytes), LAMBDA f : Len(f) >= 4)
      whole == SelectSeq([i \in 1 .. Len(frames) |-> Restored(frames[i])], IsReply)
  IN  [i \in 1 .. Len(whole) |-> SubSeq(whole[i], 6, Len(whole[i]) - 1)]

Published(bytes) ==
  LET payloads == Replies(bytes)
  IN  IF payloads = <<>> THEN Nothing ELSE Decoded(item.kind, payloads[Len(payloads)], mode)

(***************************************************************************)
(* The settings tried: every value of the capability table for the small   *)
(* registers, the interesting ones of the wide registers.                  *)
(***************************************************************************)
Widths(m) == IF m = "AM" THEN {200 * k : k \in 1 .. 50}
             ELSE {50 * k : k \in 1 .. 10} \cup {100 * k : k \in 6 .. (IF m = "RTTY" THEN 27 ELSE 36)}

\* A tone's inversion flags are tried equal: a pair of different flags comes
\* back swapped.
Settings(m) ==
  [flag |-> 0 .. 1, small |-> 0 .. 99, level |-> 0 .. 255, keySpeed |-> 6 .. 48,
   cwPitch |-> {300 + 5 * k : k \in 0 .. 120}, width |-> Widths(m),
   tone |-> [code : Codes, tinv : 0 .. 1, rinv : 0 .. 1],
   rit |-> {-999, -100} \cup -20 .. 20 \cup {101, 999}, scopeRef |-> -20 .. 20,
   offset |-> {100 * k : k \in {0, 1, 6000, 6500, 123456}},
   frequency |-> {144000000, 145987650, 433999999, 1296000001, 1300000000},
   mode |-> [reg : ModeRegisters, filter : 1 .. 3],
   dataMode |-> [data : 0 .. 1, filter : 1 .. 3]]

Init == /\ mode \in {"AM", "RTTY", "other"}
        /\ \E kind \in DOMAIN Settings(mode) : \E v \in Settings(mode)[kind] :
              /\ kind = "tone" => v.tinv = v.rinv
              /\ item = [kind |-> kind, v |-> v]
        /\ wire = Encoded(item, mode)
        /\ value = Nothing

Reply == Frame(Controller, <<Command>> \o Answered(item, wire))

Deliver == /\ value' = Published(Reply)
           /\ UNCHANGED <<item, mode, wire>>

\* A leftover of an earlier frame ahead of the reply, in the same block.
DeliverAfterFragment ==
  /\ \E left \in {<<EndOfFrame>>, <<Radio, EndOfFrame>>, <<5, 0, 1, 2, 3, EndOfFrame>>} :
       value' = Published(left \o Reply)
  /\ UNCHANGED <<item, mode, wire>>

DeliverWithoutFirstByte == /\ value' = Published(Tail(Reply))
                           /\ UNCHANGED <<item, mode, wire>>

\* A reply cut inside its value, closed by the next end-of-frame.
DeliverShort ==
  /\ \E n \in 0 .. Len(wire) - 1 :
       value' = Published(Frame(Controller, <<Command>> \o SubSeq(wire, 1, n)))
  /\ UNCHANGED <<item, mode, wire>>

\* An announcement to everyone, and a frame between other stations.
DeliverToOthers ==
  /\ \E to \in {Everyone, Radio} : value' = Published(Frame(to, <<Command>> \o wire))
  /\ UNCHANGED <<item, mode, wire>>

Next == Deliver \/ DeliverAfterFragment \/ DeliverWithoutFirstByte \/ DeliverShort \/ DeliverToOthers

Spec == Init /\ [][Next]_codecVars

TypeOK == /\ wire \in Seq(0 .. 255)
          /\ value = Nothing \/ DOMAIN value = {"v"}

\* Kinds whose parser accepts a reply of any length of at least one byte.
Unguarded == {"tone", "offset", "mode"}

\* Every setting of the capability table comes back from the radio as it was
\* set, whatever is damaged around the reply, and a damaged reply publishes
\* nothing instead of another value: a confirmation never shows a setting the
\* operator did not make.  Left out: a width of 600 Hz, which is read as 550
\* Hz, and what a short tone, offset or mode reply publishes.
ReadsBackAsSet ==
  \/ value = Nothing
  \/ value.v = item.v
  \/ item.kind = "width" /\ item.v = 600
  \/ item.kind \in Unguarded /\ \E n \in 0 .. Len(wire) - 1 : value = Decoded(item.kind, SubSeq(wire, 1, n), mode)

\* The reply itself is always understood, also behind a fragment or without
\* its first byte.
Understood == Deliver \/ DeliverAfterFragment \/ DeliverWithoutFirstByte => value' # Nothing
=============================================================================
