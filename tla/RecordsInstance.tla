--------------------------- MODULE RecordsInstance ---------------------------
(* An instance of MemoryRecords: two bands; memories that differ from a plain *)
(* FM channel in their repeater shift, in their tones, or in the fields of a  *)
(* D-STAR channel; rows of a file with one field out of the ordinary.  And of *)
(* CsvText: tables of one or two rows of two fields.                          *)
EXTENDS Integers, SequencesExt

HeldFields ==
    [del |-> FALSE, scan |-> 0, filter |-> 1, data |-> 0, dsql |-> 0, dtcsp |-> 0, dtcspB |-> 0,
     dtcsB |-> 23, dvsql |-> 0, group |-> 1, hz |-> 145000000, mode |-> 5, duplex |-> 0,
     tonemode |-> 0, tone |-> 670, tsql |-> 670, dtcs |-> 23, offset |-> 0, call |-> "", name |-> "name"]

Shifted ==
    {[HeldFields EXCEPT !.hz = hz, !.mode = mode, !.duplex = duplex, !.offset = offset] :
        hz \in {145000000, 433000000}, mode \in {5, 1, 7, 22},
        duplex \in 0 .. 2, offset \in {0, 600000, 5000000, 1600000, 12500}}

Toned ==
    {[HeldFields EXCEPT !.tonemode = tonemode, !.tone = tone, !.tsql = 2541, !.dtcs = 754, !.dtcsp = dtcsp] :
        tonemode \in {0, 1, 2, 3, 6, 7, 8, 9}, tone \in {670, 1000}, dtcsp \in 0 .. 3}

Digital ==
    {[HeldFields EXCEPT !.mode = mode, !.dsql = dsql, !.dvsql = 99, !.call = call, !.name = name,
                        !.scan = scan, !.filter = filter] :
        mode \in {8, 17}, dsql \in 0 .. 2, call \in {"", "N0CALL"}, name \in {"", "name"},
        scan \in {0, 3}, filter \in {1, 3}}

RecordsHeldDef == Shifted \cup Toned \cup Digital

RowFields ==
    [group |-> 1, name |-> "name", hz |-> 145000000, mode |-> 5, filter |-> 1, data |-> 0, scan |-> 0,
     duplex |-> 16, offset |-> 0, toneMode |-> 0, tone |-> 670, tsql |-> 670, dsql |-> 0, dtcs |-> 23,
     dtcsp |-> 0, dtcsB |-> 23, dtcspB |-> 0, dvsql |-> 0, call |-> ""]

RecordsRowsDef ==
    {[RowFields EXCEPT !.toneMode = toneMode, !.tone = tone, !.tsql = tsql, !.dtcs = dtcs, !.dtcsB = dtcsB, !.dtcsp = dtcsp] :
        toneMode \in {0, 1, 2, 3, 6, 7, 8, 9, 4}, tone \in {0, 1000, 999}, tsql \in {0, 2541},
        dtcs \in {23, 1}, dtcsB \in {23, 754}, dtcsp \in {0, 3}}
    \cup {[RowFields EXCEPT !.hz = hz, !.mode = mode, !.duplex = duplex, !.offset = offset] :
        hz \in {145000000, 433000000, 0}, mode \in {5, 6, 9}, duplex \in {16, 17, 18, 1},
        offset \in {0, 600000, 6000}}
    \cup {[RowFields EXCEPT !.filter = filter, !.data = data, !.scan = scan, !.dsql = dsql,
                            !.dtcsp = dtcsp, !.dvsql = dvsql, !.name = name, !.mode = 12] :
        filter \in {0, 2}, data \in {1, 2}, scan \in {-1, 3}, dsql \in {2, 3}, dtcsp \in {3, 4},
        dvsql \in {99, 100}, name \in {"", "name"}}

RecordsEditsDef ==
    {<<"hz", 433000000>>, <<"hz", 7000000>>, <<"mode", 12>>, <<"mode", 1>>, <<"family", 1>>, <<"family", 2>>,
     <<"tone", 1000>>, <<"tsql", 1000>>, <<"tsql", 0>>, <<"dtcs", 23>>, <<"dtcs", 0>>, <<"dtcsB", 754>>,
     <<"dtcspB", 3>>, <<"offset", <<-1, 0>>>>, <<"offset", <<18, 600000>>>>, <<"direction", 17>>,
     <<"spin", 1600>>, <<"name", "">>, <<"name", "other">>, <<"filter", 2>>, <<"dsql", 1>>}
OneLetter == BoundedSeq({"x", "comma", "quote", "cr", "lf"}, 1)
CsvFields == BoundedSeq({"x", "comma", "quote", "cr", "lf"}, 2)

TablesDef ==
    {<<<<a, b>>>> : a \in CsvFields, b \in CsvFields}
    \cup {<<<<a, b>>, <<c, a>>>> : a \in OneLetter, b \in CsvFields, c \in OneLetter}
=============================================================================
