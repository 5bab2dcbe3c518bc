---------------------------- MODULE MemoryRecords ----------------------------
(* One memory on its way between the radio's bytes (Commander), the program's *)
(* MemoryType and MemoryRecord (MemoryRecordHelpers), a row of the CSV file   *)
(* (MemoryStore) and the form of the editor (MemoryEditorForm), and the test  *)
(* that a written memory reads back (radioMemoryReadbackDifferences).         *)
(* Frequencies and offsets are numbers of Hz, tones tenths of Hz, 0 is an     *)
(* empty text.  Channels are left out: a slot is a band.                      *)
EXTENDS Integers, Sequences, FiniteSets, SequencesExt

CONSTANTS
    Held,       \* contents that a slot of the radio can have at the start
    Rows,       \* rows of a file that was not exported by the program
    Bands,      \* the bands (memory groups) of the instance
    Edits,      \* the operator's changes in the editor: <<field, value>>
    MaxEdits    \* bound: changes in one visit of the editor

RecordsAssumption == Bands \subseteq 1 .. 3 /\ MaxEdits \in Nat

VARIABLES
    radio,      \* external: the payload the radio holds for each band's slot
    shown,      \* the record the program shows for the slot it has read
    form,       \* the editor: its fields, or NoForm
    file,       \* the CSV file: a sequence of rows
    job         \* the writes under way, the record wanted, and how it went

vars == <<radio, shown, form, file, job>>

NoRecord == [group |-> 0]
NoForm == [open |-> FALSE]
NoJob == [writes |-> <<>>, wanted |-> NoRecord, from |-> 0, lost |-> FALSE, state |-> "none",
          kept |-> FALSE]

-----------------------------------------------------------------------------
(* Bands, modes and tones                                                  *)

Modes == [lsb |-> 0, usb |-> 1, am |-> 2, cw |-> 3, rtty |-> 4, fm |-> 5, cwr |-> 6, rttyr |-> 7,
          dv |-> 12, dd |-> 14]
ModeKinds == {Modes[m] : m \in DOMAIN Modes}

\* radioBandForFrequency and its memory group; 0: none.
BandOf(hz) ==
    CASE hz \in 144000000 .. 148000000 -> 1
      [] hz \in 430000000 .. 450000000 -> 2
      [] hz \in 1240000000 .. 1300000000 -> 3
      [] OTHER -> 0

Simplex == 16
Minus == 17
Plus == 18

\* offsetPresetsForHz, in the order of the list.
offsetPresetsForHz(hz) ==
    CASE BandOf(hz) = 1 -> <<<<Minus, 600000>>, <<Plus, 600000>>>>
      [] BandOf(hz) = 2 -> <<<<Plus, 5000000>>>>
      [] BandOf(hz) = 3 -> <<<<Minus, 12000000>>, <<Minus, 20000000>>>>
      [] OTHER -> <<>>

ToneNone == 0
NN == 0
TN == 1
NT == 2
DD == 3
DN == 6
TD == 7
DT == 8
TT == 9
ToneModes == {NN, TN, NT, DD, DN, TD, DT, TT}

isDtcsToneMode(t) == t \in {DN, DD, DT}
memoryToneModeUsesTxTone(t) == t \in {TN, TT, TD}
memoryToneModeUsesRxTone(t) == t \in {NT, TT, TD, DT}

Ctcss == {670, 1000, 2541}        \* some of the radio's table of tones
DtcsCodes == {23, 754}            \* some of the radio's table of codes

memoryModeRegister(kind) ==
    CASE kind = Modes.cwr -> 7 [] kind = Modes.rttyr -> 8
      [] kind = Modes.dv -> 17 [] kind = Modes.dd -> 22 [] OTHER -> kind

memoryModeKindFromRegister(reg) ==
    CASE reg = 7 -> Modes.cwr [] reg = 8 -> Modes.rttyr
      [] reg = 17 -> Modes.dv [] reg = 22 -> Modes.dd [] OTHER -> reg

-----------------------------------------------------------------------------
(* MemoryType and the radio's bytes (Commander)                            *)

FreshMemory ==
    [group |-> 0, del |-> FALSE, scan |-> 0, hz |-> 0, mode |-> 0, filter |-> 0, data |-> 0,
     duplex |-> 0, tonemode |-> NN, dsql |-> 0, tone |-> 670, tsql |-> 670, dtcsp |-> 0,
     dtcs |-> 23, dtcspB |-> 0, dtcsB |-> 23, dvsql |-> 0, offset |-> 0, call |-> "", name |-> ""]

\* The specs of memFormat; "t" stands for the three callsigns, u and v included.
Format == <<"a", "c", "f", "g", "h", "i", "j", "m", "n", "o", "p", "q", "r", "s", "t", "z">>

\* Bug for the mutation test: the two bits of a polarity are left together.
PolarityAsIs(p) == p

PolarityByte(p) == 16 * (p \div 2) + (p % 2)
PolarityOf(byte) == 2 * (byte \div 16) + (byte % 2)

\* appendSetCommandValue, one field.  The offset loses its last two digits and
\* whatever exceeds six; "tone" and "tsql" are always in the table of tones.
WireField(spec, m) ==
    CASE spec = "a" -> m.group      [] spec = "c" -> m.scan
      [] spec = "f" -> m.hz         [] spec = "g" -> m.mode
      [] spec = "h" -> m.filter     [] spec = "i" -> m.data
      [] spec = "j" -> 16 * m.duplex + m.tonemode
      [] spec = "m" -> 16 * m.dsql
      [] spec = "n" -> m.tone       [] spec = "o" -> m.tsql
      [] spec = "p" -> PolarityByte(m.dtcsp)
      [] spec = "q" -> m.dtcs       [] spec = "r" -> m.dvsql
      [] spec = "s" -> (m.offset \div 100) % 1000000
      [] spec = "t" -> m.call       [] spec = "z" -> m.name

Encode(m) ==
    IF m.del THEN <<m.group, 255>>
    ELSE [i \in DOMAIN Format |-> WireField(Format[i], m)]

parseMemoryField(m, spec, w) ==
    CASE spec = "a" -> [m EXCEPT !.group = w]  [] spec = "c" -> [m EXCEPT !.scan = w]
      [] spec = "f" -> [m EXCEPT !.hz = w]     [] spec = "g" -> [m EXCEPT !.mode = w]
      [] spec = "h" -> [m EXCEPT !.filter = w] [] spec = "i" -> [m EXCEPT !.data = w]
      [] spec = "j" -> [m EXCEPT !.duplex = w \div 16, !.tonemode = w % 16]
      [] spec = "m" -> [m EXCEPT !.dsql = w \div 16]
      [] spec = "n" -> [m EXCEPT !.tone = IF w \in Ctcss THEN w ELSE @]
      [] spec = "o" -> [m EXCEPT !.tsql = IF w \in Ctcss THEN w ELSE @]
      [] spec = "p" -> [m EXCEPT !.dtcsp = PolarityOf(w)]
      [] spec = "q" -> [m EXCEPT !.dtcs = w]   [] spec = "r" -> [m EXCEPT !.dvsql = w]
      [] spec = "s" -> [m EXCEPT !.offset = w] [] spec = "t" -> [m EXCEPT !.call = w]
      [] spec = "z" -> [m EXCEPT !.name = w, !.scan = IF @ = 254 THEN 0 ELSE @]

\* parseMemory: an empty slot's reply is short, and parsing stops with it.
parseMemory(payload) ==
    LET Field(m, i) == parseMemoryField(m, Format[i], payload[i])
    IN  FoldLeft(Field, [FreshMemory EXCEPT !.scan = 254], [i \in DOMAIN payload |-> i])

-----------------------------------------------------------------------------
(* MemoryType and MemoryRecord (MemoryRecordHelpers)                       *)

radioMemoryIsStored(m) == ~m.del /\ m.hz > 0

\* The name that a memory without one is given: the label of its frequency.
memoryFrequencyLabel == "label"

radioMemoryWithLocalNameFallback(m) ==
    IF radioMemoryIsStored(m) /\ m.name = "" THEN [m EXCEPT !.name = memoryFrequencyLabel] ELSE m

\* A slot as the program takes it from the radio's reply.
Received(payload) == radioMemoryWithLocalNameFallback(parseMemory(payload))

defaultOffsetForModeAndHz(mode, hz) ==
    LET of == SelectSeq(offsetPresetsForHz(hz), LAMBDA p : p[1] = mode)
    IN  IF of = <<>> THEN 0 ELSE of[1][2]

\* The preset of this direction that the number is, in Hz or in hundreds of Hz.
PresetsMeant(mode, raw, hz) ==
    {p[2] : p \in {q \in ToSet(offsetPresetsForHz(hz)) : q[1] = mode /\ raw \in {q[2], q[2] \div 100}}}

normalizedOffsetForModeAndHz(mode, raw, hz) ==
    LET meant == PresetsMeant(mode, raw, hz)
    IN  CASE mode \notin {Minus, Plus} -> 0
          [] meant # {} -> CHOOSE p \in meant : TRUE
          [] raw = 0 -> defaultOffsetForModeAndHz(mode, hz)
          [] OTHER -> raw

recordDuplexModeFromRadio(d) == CASE d = 1 -> Minus [] d = 2 -> Plus [] OTHER -> Simplex
radioDuplexFromRecord(d) == CASE d = Minus -> 1 [] d = Plus -> 2 [] OTHER -> 0

recordFromRadioMemory(m) ==
    LET duplex == recordDuplexModeFromRadio(m.duplex)
    IN  [group |-> m.group, name |-> IF m.name = "" THEN memoryFrequencyLabel ELSE m.name,
         hz |-> m.hz, mode |-> memoryModeKindFromRegister(m.mode), filter |-> m.filter,
         data |-> m.data, scan |-> m.scan, duplex |-> duplex,
         offset |-> normalizedOffsetForModeAndHz(duplex, m.offset, m.hz),
         toneMode |-> m.tonemode, tone |-> m.tone, tsql |-> m.tsql, dsql |-> m.dsql,
         dtcs |-> m.dtcs, dtcsp |-> m.dtcsp, dtcsB |-> m.dtcsB, dtcspB |-> m.dtcspB,
         dvsql |-> m.dvsql, call |-> m.call]

Clamp(x, low, high) == IF x < low THEN low ELSE IF x > high THEN high ELSE x

radioMemoryFromRecord(r) ==
    LET codes == isDtcsToneMode(r.toneMode)
        Unless(used, value, otherwise) == IF used THEN value ELSE otherwise
    IN  [FreshMemory EXCEPT
            !.group = r.group, !.scan = Clamp(r.scan, 0, 3), !.hz = r.hz,
            !.mode = memoryModeRegister(r.mode), !.filter = Clamp(r.filter, 1, 3),
            !.data = Clamp(r.data, 0, 1), !.duplex = radioDuplexFromRecord(r.duplex),
            !.tonemode = r.toneMode, !.dsql = Clamp(r.dsql, 0, 2),
            !.dtcsp = Clamp(r.dtcsp, 0, 3), !.dtcspB = Clamp(r.dtcspB, 0, 3),
            !.dvsql = Clamp(r.dvsql, 0, 99), !.offset = r.offset,
            !.dtcs = Unless(codes, r.dtcs, @), !.dtcsB = Unless(codes, r.dtcsB, @),
            !.tone = Unless(memoryToneModeUsesTxTone(r.toneMode), r.tone, @),
            !.tsql = Unless(memoryToneModeUsesRxTone(r.toneMode), r.tsql, @),
            !.name = r.name, !.call = r.call]

deletedRadioMemory(group) == [FreshMemory EXCEPT !.group = group, !.del = TRUE]

\* radioMemoryReadbackDifferences # {}
ReadbackDiffers(e, a) ==
    LET direction == IF e.duplex = 1 THEN Minus ELSE Plus
        Offset(m) == normalizedOffsetForModeAndHz(direction, m.offset, m.hz)
        digital == memoryModeKindFromRegister(e.mode) \in {Modes.dv, Modes.dd}
    IN  IF e.group # a.group THEN TRUE
        ELSE IF e.del THEN radioMemoryIsStored(a)
        ELSE \/ ~radioMemoryIsStored(a)
             \/ \E f \in {"hz", "mode", "filter", "data", "scan", "duplex", "tonemode", "name"} : e[f] # a[f]
             \/ e.duplex \in {1, 2} /\ Offset(e) # Offset(a)
             \/ memoryToneModeUsesTxTone(e.tonemode) /\ e.tone # a.tone
             \/ memoryToneModeUsesRxTone(e.tonemode) /\ e.tsql # a.tsql
             \/ isDtcsToneMode(e.tonemode) /\ (e.dtcs # a.dtcs \/ e.dtcsp # a.dtcsp)
             \/ e.tonemode = DD /\ (e.dtcsB # a.dtcsB \/ e.dtcspB # a.dtcspB)
             \/ digital /\ (e.dsql # a.dsql \/ e.dvsql # a.dvsql \/ e.call # a.call)

-----------------------------------------------------------------------------
(* MemoryRecord and the CSV file (MemoryStore)                             *)

\* validateMemoryRecord: the rows that are taken.
ValidRow(r) ==
    /\ r.group \in 1 .. 3 /\ BandOf(r.hz) = r.group /\ r.mode \in ModeKinds
    /\ r.filter \in 1 .. 3 /\ r.data \in 0 .. 1 /\ r.scan \in 0 .. 3
    /\ \/ r.duplex = Simplex /\ r.offset = 0
       \/ r.duplex \in {Minus, Plus} /\ r.offset # 0
    /\ r.dsql \in 0 .. 2 /\ r.dtcsp \in 0 .. 3 /\ r.dtcspB \in 0 .. 3 /\ r.dvsql \in 0 .. 99
    /\ r.toneMode \in ToneModes
    /\ memoryToneModeUsesTxTone(r.toneMode) => r.tone # ToneNone
    /\ memoryToneModeUsesRxTone(r.toneMode) => r.tsql # ToneNone
    /\ r.tone \in Ctcss \cup {ToneNone} /\ r.tsql \in Ctcss \cup {ToneNone}
    /\ r.dtcs \in DtcsCodes /\ r.dtcsB \in DtcsCodes

\* memoriesFromCsv: every row is valid and no slot is named twice, or nothing
\* is imported (importRadioMemories gives up on any error).
memoriesFromCsv(rows) ==
    IF /\ \A i \in DOMAIN rows : ValidRow(rows[i])
       /\ \A i, k \in DOMAIN rows : rows[i].group = rows[k].group => i = k
    THEN rows ELSE <<>>

-----------------------------------------------------------------------------
(* The form of the editor (MemoryEditorForm)                               *)

Custom == -1
FamilyOff == 0
FamilyTone == 1
FamilyDtcs == 2

memoryToneFamilyForMode(t) ==
    IF isDtcsToneMode(t) THEN FamilyDtcs
    ELSE IF t \in {TN, NT, TT, TD} THEN FamilyTone ELSE FamilyOff

modeSupportsMemoryOffset(mode) == mode \in {Modes.fm, Modes.dv, Modes.dd}

\* A combo box shows its first entry when it does not have the value.
Entry(list, value) == IF value \in ToSet(list) THEN value ELSE list[1]

Options(hz, custom) ==
    <<<<Simplex, 0>>>> \o offsetPresetsForHz(hz) \o <<<<Custom, custom>>>>

\* populateOffsetOptions: what was chosen stays chosen if it is still offered.
populateOffsetOptions(f) ==
    LET was == f.offset
    IN  [f EXCEPT !.custom = was[2],
                  !.offset = IF was \in ToSet(Options(f.hz, was[2])) THEN was ELSE <<Simplex, 0>>]

setOffsetSelection(f, mode, hz) ==
    LET meant == SelectSeq(Options(f.hz, f.custom),
                           LAMBDA o : o[1] = mode /\ (o[2] = hz \/ (o[2] % 100 = 0 /\ o[2] \div 100 = hz)))
    IN  IF meant # <<>> THEN [f EXCEPT !.offset = meant[1]]
        ELSE [f EXCEPT !.offset = <<Custom, f.custom>>, !.direction = Entry(<<Plus, Minus>>, mode),
                       !.spin = (hz + 500) \div 1000]

clearTonePick(f) == [f EXCEPT !.tone = 0, !.tsql = 0, !.dtcs = 0, !.dtcsB = 0]

setDtcsPick(f, code) ==
    IF code # 0 THEN [f EXCEPT !.dtcs = code]
    ELSE [f EXCEPT !.dtcs = 0, !.dtcsB = 0, !.dtcspB = 0]

\* The four picks of applyMemoryToForm, after everything was cleared.
TonesApplied(f, r) ==
    CASE isDtcsToneMode(r.toneMode) ->
            LET tx == setDtcsPick(f, r.dtcs)
            IN  IF r.toneMode \in {DD, DT} THEN [tx EXCEPT !.dtcsB = r.dtcsB] ELSE tx
      [] r.toneMode = NN -> f
      [] OTHER -> [f EXCEPT !.tone = IF r.toneMode \in {TN, TT, TD} THEN r.tone ELSE 0,
                            !.tsql = IF r.toneMode \in {NT, TT, DT} THEN r.tsql ELSE 0]

\* The editor as it opens for a record: applyMemoryToForm.
applyMemoryToForm(r) ==
    LET plain == [open |-> TRUE, touched |-> 0, group |-> r.group, old |-> r.group, hz |-> r.hz,
                  name |-> r.name, mode |-> r.mode, filter |-> Entry(<<1, 2, 3>>, r.filter),
                  data |-> Entry(<<0, 1>>, r.data), scan |-> Entry(<<0, 1, 2, 3>>, r.scan),
                  offset |-> <<Simplex, 0>>, custom |-> 0, direction |-> Plus, spin |-> 0,
                  family |-> memoryToneFamilyForMode(r.toneMode), tone |-> 0, tsql |-> 0,
                  dtcs |-> 0, dtcsB |-> 0, dtcsp |-> Entry(<<0, 3>>, r.dtcsp),
                  dtcspB |-> Entry(<<0, 3>>, r.dtcspB), dsql |-> Entry(<<0, 1, 2>>, r.dsql),
                  dvsql |-> r.dvsql, call |-> r.call]
    IN  TonesApplied(setOffsetSelection(populateOffsetOptions(plain), r.duplex, r.offset), r)

\* What the operator changes.  A new frequency moves the memory to its band's
\* slot, and the offset to simplex when the band does not offer it.
Edited(f, field, value) ==
    CASE field = "hz" ->
            populateOffsetOptions([f EXCEPT !.hz = value,
                                            !.group = IF BandOf(value) \in Bands THEN BandOf(value) ELSE 0])
      [] field = "family" -> [clearTonePick(f) EXCEPT !.family = value]
      [] field = "dtcs" -> setDtcsPick(f, value)
      [] field = "dtcsB" -> IF f.dtcs # 0 THEN [f EXCEPT !.dtcsB = value] ELSE f
      [] field = "spin" -> IF f.offset[1] = Custom THEN [f EXCEPT !.spin = value] ELSE f
      [] field = "offset" -> IF value \in ToSet(Options(f.hz, f.custom)) THEN [f EXCEPT !.offset = value] ELSE f
      [] OTHER -> [f EXCEPT ![field] = value]

\* The tone mode that the picks make.
ToneModeOf(f) ==
    CASE f.family = FamilyTone /\ f.tsql > 0 /\ f.tone > 0 -> TT
      [] f.family = FamilyTone /\ f.tsql > 0 -> NT
      [] f.family = FamilyTone /\ f.tone > 0 -> TN
      [] f.family = FamilyDtcs /\ f.dtcs > 0 /\ f.dtcsB > 0 -> DD
      [] f.family = FamilyDtcs /\ f.dtcs > 0 -> DN
      [] OTHER -> NN

Shift(f) ==
    CASE ~modeSupportsMemoryOffset(f.mode) -> <<Simplex, 0>>
      [] f.offset[1] = Custom -> <<f.direction, 1000 * f.spin>>
      [] OTHER -> f.offset

\* The record that Save makes of the form.
RecordOf(f) ==
    [group |-> f.group, name |-> IF f.name = "" THEN memoryFrequencyLabel ELSE f.name,
     hz |-> f.hz, mode |-> f.mode, filter |-> f.filter, data |-> f.data, scan |-> f.scan,
     duplex |-> Shift(f)[1], offset |-> Shift(f)[2], toneMode |-> ToneModeOf(f),
     tone |-> f.tone, tsql |-> f.tsql, dsql |-> f.dsql, dtcs |-> f.dtcs, dtcsp |-> f.dtcsp,
     dtcsB |-> f.dtcsB, dtcspB |-> f.dtcspB, dvsql |-> f.dvsql, call |-> f.call]

-----------------------------------------------------------------------------
(* The program                                                             *)

Writes(records, removed) ==
    [i \in DOMAIN removed |-> deletedRadioMemory(removed[i])]
       \o [i \in DOMAIN records |-> radioMemoryFromRecord(records[i])]

Wanting(record, from, writes) ==
    [NoJob EXCEPT !.writes = writes, !.wanted = record, !.from = from, !.state = "writing"]

\* A memory in the radio, or an empty radio and a file of another origin: a row,
\* or the same row twice.
Init ==
    /\ \/ /\ file = <<>>
          /\ \E m \in Held :
                radio = [b \in Bands |-> IF BandOf(m.hz) = b THEN Encode([m EXCEPT !.group = b])
                                         ELSE <<b, 255>>]
       \/ /\ radio = [b \in Bands |-> <<b, 255>>]
          /\ \E r \in Rows : file \in {<<r>>, <<r, r>>}
    /\ shown = NoRecord /\ form = NoForm /\ job = NoJob

\* A slot's reply, when the slot is in use.
ReadMemory(band) ==
    /\ job = NoJob /\ ~form.open /\ file = <<>>
    /\ LET m == Received(radio[band])
       IN  /\ radioMemoryIsStored(m) /\ shown # recordFromRadioMemory(m)
           /\ shown' = recordFromRadioMemory(m)
    /\ UNCHANGED <<radio, form, file, job>>

Export ==
    /\ shown # NoRecord /\ file = <<>> /\ job = NoJob /\ ~form.open
    /\ file' = <<shown>>
    /\ UNCHANGED <<radio, shown, form, job>>

Import ==
    /\ file # <<>> /\ job = NoJob
    /\ LET records == memoriesFromCsv(file)
       IN  job' = IF records = <<>> THEN [NoJob EXCEPT !.state = "refused"]
                  ELSE Wanting(records[1], 0, Writes(records, <<>>))
    /\ UNCHANGED <<radio, shown, form, file>>

OpenEditor ==
    /\ shown # NoRecord /\ file = <<>> /\ job = NoJob /\ ~form.open
    /\ form' = applyMemoryToForm(shown)
    /\ UNCHANGED <<radio, shown, file, job>>

Edit ==
    /\ form.open /\ form.touched < MaxEdits
    /\ \E e \in Edits : form' = [Edited(form, e[1], e[2]) EXCEPT !.touched = form.touched + 1]
    /\ UNCHANGED <<radio, shown, file, job>>

\* Save: a memory that changes its band is removed from the old slot first.
Save ==
    /\ form.open /\ form.group # 0
    /\ job' = [Wanting(RecordOf(form), form.old,
                       Writes(<<RecordOf(form)>>, IF form.group # form.old THEN <<form.old>> ELSE <<>>))
                  EXCEPT !.kept = form.touched = 0]
    /\ form' = NoForm
    /\ UNCHANGED <<radio, shown, file>>

\* One write and the reply to the read that verifies it; the write can be lost.
WriteMemory ==
    /\ job.state = "writing"
    /\ LET m == Head(job.writes)
       IN  \E lost \in BOOLEAN :
              /\ radio' = IF lost THEN radio ELSE [radio EXCEPT ![m.group] = Encode(m)]
              /\ job' = [job EXCEPT
                    !.writes = Tail(@), !.lost = @ \/ lost,
                    !.state = IF ReadbackDiffers(m, Received(radio'[m.group])) THEN "differs"
                              ELSE IF Len(job.writes) = 1 THEN "verified" ELSE "writing"]
    /\ UNCHANGED <<shown, form, file>>

Next ==
    \/ \E band \in Bands : ReadMemory(band)
    \/ Export \/ Import \/ OpenEditor \/ Edit \/ Save \/ WriteMemory

Spec == Init /\ [][Next]_vars

-----------------------------------------------------------------------------
TypeOK ==
    /\ DOMAIN radio = Bands
    /\ \A b \in Bands : Len(radio[b]) \in {2, Len(Format)} /\ radio[b][1] = b
    /\ Len(file) <= 2 /\ Len(job.writes) <= 2
    /\ job.state \in {"none", "writing", "refused", "verified", "differs"}

\* What a record says of a memory: the fields that its modes leave out are blank.
InUse(r) ==
    LET digital == r.mode \in {Modes.dv, Modes.dd}
        If(used, value) == IF used THEN value ELSE 0
    IN  <<r.hz, r.mode, r.filter, r.data, r.scan, r.duplex, r.offset, r.toneMode, r.name,
          If(r.toneMode \in {TN, TT, TD}, r.tone),
          If(r.toneMode \in {NT, TT, TD, DT}, r.tsql),
          If(r.toneMode \in {DN, DD, DT}, 10 * r.dtcs + r.dtcsp),
          If(r.toneMode = DD, 10 * r.dtcsB + r.dtcspB),
          If(digital, 100 * r.dsql + r.dvsql), IF digital THEN r.call ELSE "">>

IsPreset(r) == <<r.duplex, r.offset>> \in ToSet(Options(r.hz, 1))

\* A write that verifies is in the radio as it was wanted, and nowhere else: the
\* program shows the record that was saved or imported when it reads the slot
\* again, and a memory that moved has left its old slot.  (A repeater offset of
\* zero is shown as the band's preset.)
VerifiedMeansWanted ==
    (job.state = "verified") =>
        /\ (job.wanted.duplex # Simplex => job.wanted.offset # 0) =>
              InUse(recordFromRadioMemory(Received(radio[job.wanted.group]))) = InUse(job.wanted)
        /\ (job.from \notin {0, job.wanted.group}) => ~radioMemoryIsStored(Received(radio[job.from]))

\* A record that the program accepts and the radio takes reads back as written,
\* except for an offset that is not one of the band's presets, a receiver's DTCS
\* code other than the default (the radio's format has none), and an empty name.
AcceptedVerifies ==
    (job.state = "differs" /\ ~job.lost) =>
        \/ ~IsPreset(job.wanted) \/ job.wanted.name = ""
        \/ job.wanted.toneMode = DD /\ (job.wanted.dtcsB # 23 \/ job.wanted.dtcspB # 0)

\* An exported memory is imported again as it is, unless it is a repeater whose
\* band has no preset in its direction and whose offset the radio gave as zero.
ExportImports ==
    (file = <<shown>>) =>
        /\ job.state = "refused" => (shown.duplex # Simplex /\ shown.offset = 0)
        /\ job.wanted # NoRecord => job.wanted = shown

\* Saving an editor that was opened and not touched wants the memory that was
\* shown, except where the form cannot express it: the tone modes TD and DT, the
\* DTCS polarities 1 and 2, a repeater shift in a mode without one, and an offset
\* that is not a preset and not a number of kHz.
EditorKeeps ==
    job.kept =>
        \/ InUse(job.wanted) = InUse(shown)
        \/ shown.toneMode \in {TD, DT}
        \/ isDtcsToneMode(shown.toneMode) /\ shown.dtcsp \in {1, 2}
        \/ shown.duplex # Simplex /\ ~modeSupportsMemoryOffset(shown.mode)
        \/ ~IsPreset(shown) /\ shown.offset % 1000 # 0
=============================================================================
