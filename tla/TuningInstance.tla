--------------------------- MODULE TuningInstance ---------------------------
(* Instances of MemorySelection, ScopeTuning and Waterfall.  Memory 1 is a   *)
(* repeater channel on the band MAIN starts on, memory 2 a simplex one on    *)
(* SUB's band.  The bands of the scope's receivers are ten frequencies wide. *)
(* The waterfall grows and shrinks in both directions, and is panned by a    *)
(* whole and by half a pixel, reversed, and zoomed out.                      *)
EXTENDS Integers

SelectionStartDef == [freq |-> 14, duplex |-> 0, offset |-> 0, tone |-> 0]

SelectionMemoriesDef ==
    [id \in {1, 2} |-> IF id = 1
                       THEN [SelectionStartDef EXCEPT !.freq = 12, !.duplex = 1, !.offset = 3]
                       ELSE [SelectionStartDef EXCEPT !.freq = 22]]

TuningBandsDef == [main |-> <<10, 19>>, sub |-> <<30, 39>>]
TuningStartDef == [main |-> 12, sub |-> 32]

WaterfallSizesDef == {<<4, 3>>, <<7, 2>>}
WaterfallViewsDef == {<<0, 12>>, <<6, 18>>, <<20, 8>>, <<0, 24>>}
WaterfallDataDef == {<<0, 12>>, <<6, 30>>}
=============================================================================
