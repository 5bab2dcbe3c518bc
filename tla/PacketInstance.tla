--------------------------- MODULE PacketInstance ---------------------------
(* Transmissions for Ax25Decoder: packets of every type, with a repeater,    *)
(* with a call no station has, too short, repeated, behind one flag, after a *)
(* carrier longer than the limit; and ways two lanes may hear them.          *)
EXTENDS Integers, Sequences

Call(name, ssid) == [call |-> name, ssid |-> ssid, repeated |-> FALSE]
Aprs == Call(<<65, 80, 82, 83>>, 0)
Station == Call(<<78, 48, 67, 65, 76, 76>>, 15)
Repeater == [Call(<<87, 49>>, 1) EXCEPT !.repeated = TRUE]
Nobody == Call(<<97, 98>>, 0)

Packet(from, path, rest) == [destination |-> Aprs, source |-> from, path |-> path, rest |-> rest]
Info == Packet(Station, <<>>, <<3, 240, 255, 65>>)
Other == Packet(Station, <<>>, <<0, 240, 66>>)
Supervisory == Packet(Station, <<Repeater>>, <<1>>)
Unnumbered == Packet(Station, <<Repeater>>, <<99>>)
Strange == Packet(Nobody, <<>>, <<3, 240, 65>>)
Short == Packet(Station, <<>>, <<1>>)

Item(what, frame, n) == [what |-> what, frame |-> frame, n |-> n]
Frame(f) == Item("frame", f, 0)
Again(f) == Item("next", f, 0)
Flags(n) == Item("flags", Info, n)
Carrier(n) == Item("carrier", Info, n)

PacketTalksDef ==
    { <<Flags(1), Frame(Info), Again(Info)>>,
      <<Carrier(3), Frame(Supervisory), Frame(Unnumbered)>>,
      <<Frame(Strange), Frame(Other)>>,
      <<Flags(1), Carrier(260), Frame(Short), Again(Info)>> }

\* Both lanes well; the second a symbol late; damaged in one; damaged in both;
\* the decoder reset in the middle of the first packet, or of the second.
Hearing(delay, inverted, resets) == [delay |-> delay, inverted |-> inverted, resets |-> resets]
PacketHearingsDef ==
    { Hearing(<<0, 0>>, <<{}, {}>>, {}),
      Hearing(<<0, 1>>, <<{60}, {}>>, {}),
      Hearing(<<0, 1>>, <<{}, {}>>, {90}),
      Hearing(<<0, 0>>, <<{}, {}>>, {200}),
      Hearing(<<0, 1>>, <<{61}, {61}>>, {}) }
=============================================================================
