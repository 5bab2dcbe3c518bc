--------------------------- MODULE MemoryInstance ---------------------------
(* An instance of MemoryChannels: two user channels and a satellite slot.    *)
(* Channel 1 holds a plain channel and channel 2 may hold a repeater channel;*)
(* the database is empty.  The imported file has one record, for channel 2:  *)
(* a plain one, or one whose repeater offset is not the radio's preset.      *)
EXTENDS Integers

UsersDef      == {1, 2}
SatellitesDef == {3}

NoChannel       == [name |-> "", duplex |-> FALSE, offset |-> 0]
PlainChannel    == [name |-> "plain", duplex |-> FALSE, offset |-> 0]
RepeaterChannel == [name |-> "repeater", duplex |-> TRUE, offset |-> 600000]

HoldingsDef == {<<PlainChannel, held, NoChannel>> : held \in {NoChannel, RepeaterChannel}}
CachedDef   == <<NoChannel, NoChannel, NoChannel>>

UploadPlain  == <<[slot |-> 2, m |-> [PlainChannel EXCEPT !.name = "new"]]>>
UploadOffset == <<[slot |-> 2, m |-> [name |-> "new", duplex |-> TRUE, offset |-> 700000]]>>
=============================================================================
