------------------------------- MODULE CsvText -------------------------------
(* The text of the memory file (MemoryStore): how fields are quoted when they *)
(* are written, and the automaton that reads them.  A text is a sequence of   *)
(* characters, of which only the four that mean something to the automaton    *)
(* and one other are told apart.                                              *)
EXTENDS Naturals, Sequences, SequencesExt

CONSTANTS Tables    \* the tables to be written: sequences of rows of fields

VARIABLES
    table,          \* what the file is to hold
    text,           \* the file
    rows            \* what parseCsvRows made of it, or "unread"

vars == <<table, text, rows>>

Comma == "comma"
Quote == "quote"
CR == "cr"
LF == "lf"

Quoted(field) ==
    <<Quote>> \o FlattenSeq([i \in DOMAIN field |-> IF field[i] = Quote THEN <<Quote, Quote>> ELSE <<field[i]>>])
        \o <<Quote>>

\* The program quotes where it must; another program may quote every field.
csvEscaped(field, always) ==
    IF always \/ \E i \in DOMAIN field : field[i] \in {Comma, Quote, CR, LF} THEN Quoted(field) ELSE field

csvLine(row, always) ==
    FlattenSeq([i \in DOMAIN row |-> (IF i = 1 THEN <<>> ELSE <<Comma>>) \o csvEscaped(row[i], always)])

\* memoriesExportCsv: every line, the last too, ends with a line feed.
Written(t, always, ending) ==
    FlattenSeq([i \in DOMAIN t |-> csvLine(t[i], always) \o ending])

-----------------------------------------------------------------------------
(* parseCsvRows: the loop over the characters                              *)

Start == [rows |-> <<>>, row |-> <<>>, field |-> <<>>, quoted |-> FALSE, closed |-> FALSE,
          skip |-> FALSE, error |-> FALSE]

FieldEnds(s) == [s EXCEPT !.row = Append(@, s.field), !.field = <<>>, !.closed = FALSE]
RowEnds(s) == LET f == FieldEnds(s) IN [f EXCEPT !.rows = Append(@, f.row), !.row = <<>>]

\* The character "c" when "next" follows it.  "skip" passes over the second
\* character of a doubled quote and of a line's end.
Character(s, c, next) ==
    CASE s.error -> s
      [] s.skip -> [s EXCEPT !.skip = FALSE]
      [] s.quoted /\ c = Quote /\ next = Quote -> [s EXCEPT !.field = Append(@, c), !.skip = TRUE]
      [] s.quoted /\ c = Quote -> [s EXCEPT !.quoted = FALSE, !.closed = TRUE]
      [] s.quoted -> [s EXCEPT !.field = Append(@, c)]
      [] c = Quote /\ (s.field # <<>> \/ s.closed) -> [s EXCEPT !.error = TRUE]
      [] c = Quote -> [s EXCEPT !.quoted = TRUE]
      [] c = Comma -> FieldEnds(s)
      [] c \in {LF, CR} -> [RowEnds(s) EXCEPT !.skip = c = CR /\ next = LF]
      [] s.closed -> [s EXCEPT !.error = TRUE]
      [] OTHER -> [s EXCEPT !.field = Append(@, c)]

\* No rows at all when the text is malformed.
parseCsvRows(t) ==
    LET Step(s, i) == Character(s, t[i], IF i < Len(t) THEN t[i + 1] ELSE "end")
        end == FoldLeft(Step, Start, [i \in DOMAIN t |-> i])
    IN  IF end.error \/ end.quoted THEN <<>>
        ELSE IF end.field # <<>> \/ end.row # <<>> THEN RowEnds(end).rows ELSE end.rows

-----------------------------------------------------------------------------
Init == table \in Tables /\ text = <<>> /\ rows = <<"unread">>

\* writeMemoriesCsvFile, and files with the same content from elsewhere.
Export == text = <<>> /\ text' = Written(table, FALSE, <<LF>>) /\ UNCHANGED <<table, rows>>

Elsewhere ==
    /\ text = <<>> /\ UNCHANGED <<table, rows>>
    /\ text' \in {Written(table, FALSE, <<CR, LF>>), Written(table, TRUE, <<CR>>),
                  Front(Written(table, TRUE, <<LF>>))}

\* readMemoriesCsvFile
Import == text # <<>> /\ rows = <<"unread">> /\ rows' = parseCsvRows(text) /\ UNCHANGED <<table, text>>

Next == Export \/ Elsewhere \/ Import

Spec == Init /\ [][Next]_vars

-----------------------------------------------------------------------------
\* Reading a file gives back the fields that were written, whatever they
\* contain, whoever quoted them and however the lines end.
ReadAsWritten == rows # <<"unread">> => rows = table
=============================================================================
