------------------------------ MODULE Waterfall ------------------------------
(* The history of the scope: WaterfallController keeps an image whose rows   *)
(* form a ring, the newest at firstVisibleRow, and moves them when the range *)
(* shown or the size changes; WaterfallCanvas keeps a copy of the image as a *)
(* texture of the graphics card and uploads what changed since it last drew. *)
(*                                                                           *)
(* A pixel is the frequency of the scope point it shows, colours being left  *)
(* out; with each row go the sweep it came from and how far its pixels may   *)
(* have strayed.  Frequencies and pixels are integers, lengths of ranges are *)
(* multiples of what makes points fall on them.                              *)
EXTENDS Integers, Sequences, FiniteSetsExt

CONSTANTS
    Sizes,      \* <<width, height>> the canvas may have
    Views,      \* <<start, end>> of what is shown, in either order
    DataRanges, \* <<start, end>> of a sweep
    Points,     \* numbers of points of a sweep, 0 for none
    MinRange,   \* kMinFrequencyRangeMhz
    MaxActs     \* bound on what happens

VARIABLES
    wf,       \* WaterfallController
    canvas,   \* WaterfallCanvas
    acts

waterfallVars == <<wf, canvas, acts>>

Idle == -1
NoSize == <<0, 0>>

WaterfallAssumption ==
    /\ NoSize \notin Sizes
    /\ \A d \in DataRanges, n \in Points : n > 1 => (d[2] - d[1]) % (n - 1) = 0

\* n / d rounded, halves away from zero (llround).
Rounded(n, d) == IF n >= 0 THEN (2 * n + d) \div (2 * d) ELSE -((d - 2 * n) \div (2 * d))
Within(n, low, high) == Max({low, Min({high, n})})
Length(range) == range[2] - range[1]

\* normalizeFrequencyRange
Normalized(range) == <<Min({range[1], range[2]}), Max({range[1], range[2]})>>
Usable(range) == Length(Normalized(range)) >= MinRange

-----------------------------------------------------------------------------
(* The image.                                                                *)
BlankRow(width) == [sweep |-> 0, slack |-> 0, pixels |-> [x \in 1 .. width |-> Idle]]
BlankImage(size) == [y \in 1 .. size[2] |-> BlankRow(size[1])]

Width(w) == w.size[1]
Height(w) == w.size[2]
HasImage(w) == w.size # NoSize

\* Row y of the display, the newest being 0.
DisplayRow(w, y) == w.image[1 + ((w.first + y) % Height(w))]

\* The frequency of pixel x of n over a range, times n - 1.
ScaledHz(range, x, n) == range[1] * (n - 1) + (x - 1) * Length(range)

\* Half a pixel, in twelfths, as far as a row can stray when it is moved once.
HalfPixel(w) == IF Width(w) > 1 THEN (6 * Length(w.range)) \div (Width(w) - 1) ELSE 0

\* imageChanged, as WaterfallCanvas::setWaterfallImageSource handles it.
NewImage(c) == [c EXCEPT !.first = 0, !.changed = {}, !.full = TRUE]

rebuildImage(w) ==
    [w EXCEPT !.image = BlankImage(w.canvasSize), !.size = w.canvasSize, !.first = 0,
              !.range = w.view, !.binMap = <<>>, !.binCount = 0, !.shifted = FALSE]

historyNeedsRemap(w, view) ==
    \/ ~HasImage(w) \/ Width(w) <= 1
    \/ \E i \in {1, 2}, sign \in {1, -1} :
          sign * (view[i] - w.range[i]) * (Width(w) - 1) >= Length(w.range)

\* Pixels by which the image moves when the view becomes another of its length.
PixelShift(w, view) == Rounded((view[1] - w.range[1]) * (Width(w) - 1), Length(w.range))

CanShift(w, size, view) ==
    /\ size = w.size /\ Length(view) = Length(w.range) /\ Width(w) > 1
    /\ PixelShift(w, view) # 0
    /\ PixelShift(w, view) \in 1 - Width(w) .. Width(w) - 1

Strayed(w, row) == IF row.sweep = 0 THEN 0 ELSE row.slack + HalfPixel(w)

\* The memmove of every row; firstVisibleRow stays.
Moved(w, view) ==
    LET d == PixelShift(w, view)
        row(r) == [ sweep |-> r.sweep, slack |-> Strayed(w, r),
                    pixels |-> [x \in 1 .. Width(w) |->
                                  IF x + d \in 1 .. Width(w) THEN r.pixels[x + d] ELSE Idle] ]
    IN  [w EXCEPT !.image = [y \in 1 .. Height(w) |-> row(w.image[y])],
                  !.range = view, !.shifted = TRUE]

\* The column of the old image for pixel x of a row of n over the view, or 0.
OldColumn(w, view, x, n) ==
    LET right == Max({1, n - 1})
        hz == view[1] * right + (x - 1) * Length(view)
    IN  IF hz < w.range[1] * right \/ hz > w.range[2] * right THEN 0
        ELSE 1 + Within(Rounded((hz - w.range[1] * right) * (Width(w) - 1), Length(w.range) * right),
                        0, Width(w) - 1)

\* Mutant: the ring keeps its start though the rows were unrolled.
RedrawnKeepingStart(w, size, view) ==
    LET row(r) == [ sweep |-> r.sweep, slack |-> Strayed(w, r),
                    pixels |-> [x \in 1 .. size[1] |->
                                  LET c == OldColumn(w, view, x, size[1])
                                  IN  IF c = 0 THEN Idle ELSE r.pixels[c]] ]
    IN  [w EXCEPT !.image = [y \in 1 .. size[2] |-> IF y <= Height(w) THEN row(DisplayRow(w, y - 1))
                                                    ELSE BlankRow(size[1])],
                  !.size = size, !.range = view, !.first = IF @ < size[2] THEN @ ELSE 0,
                  !.shifted = FALSE]

\* The rows drawn again, the newest becoming the first of the image.
Redrawn(w, size, view) ==
    LET row(r) == [ sweep |-> r.sweep, slack |-> Strayed(w, r),
                    pixels |-> [x \in 1 .. size[1] |->
                                  LET c == OldColumn(w, view, x, size[1])
                                  IN  IF c = 0 THEN Idle ELSE r.pixels[c]] ]
    IN  [w EXCEPT !.image = [y \in 1 .. size[2] |-> IF y <= Height(w) THEN row(DisplayRow(w, y - 1))
                                                    ELSE BlankRow(size[1])],
                  !.size = size, !.range = view, !.first = 0, !.shifted = FALSE]

remapHistory(w, size, view) ==
    IF ~HasImage(w) THEN rebuildImage(w)
    ELSE IF CanShift(w, size, view) THEN Moved(w, view)
    ELSE Redrawn(w, size, view)

-----------------------------------------------------------------------------
(* A sweep's row.                                                            *)
\* The point shown at pixel x of the canvas, or -1 where the sweep has none.
binForDisplayX(w, x, count) ==
    LET right == Max({1, w.canvasSize[1] - 1})
        hz == w.view[1] * right + (x - 1) * Length(w.view)
    IN  IF count <= 0 \/ hz < w.data[1] * right \/ hz > w.data[2] * right THEN -1
        ELSE IF count = 1 THEN 0
        ELSE Within(Rounded((hz - w.data[1] * right) * (count - 1), Length(w.data) * right),
                    0, count - 1)

ensureBinMap(w, count) ==
    IF count = w.binCount /\ Len(w.binMap) = Width(w) THEN w
    ELSE [w EXCEPT !.binMap = [x \in 1 .. Width(w) |-> binForDisplayX(w, x, count)],
                   !.binCount = count]

PointHz(w, bin, count) ==
    IF count = 1 THEN w.data[1] ELSE w.data[1] + bin * (Length(w.data) \div (count - 1))

\* Half the distance of two points and a pixel the view may be ahead of the image.
FirstSlack(w, count) ==
    (IF count > 1 THEN (6 * Length(w.data)) \div (count - 1) ELSE 12 * Length(w.data))
        + 2 * HalfPixel(w)

renderRow(w, count) ==
    LET m == IF count = 0 THEN w ELSE ensureBinMap(w, count)
        first == (w.first + Height(w) - 1) % Height(w)
        row == [ sweep |-> w.last + 1, slack |-> FirstSlack(w, count),
                 pixels |-> [x \in 1 .. Width(w) |->
                               IF count = 0 \/ m.binMap[x] < 0 THEN Idle
                               ELSE PointHz(w, m.binMap[x], count)] ]
    IN  [m EXCEPT !.image[first + 1] = row, !.first = first, !.last = @ + 1, !.shifted = FALSE]

\* rowRendered, as WaterfallCanvas::setWaterfallRow handles it.
NewRow(c, row) == [c EXCEPT !.first = row, !.changed = @ \cup {row}]

\* Mutant: only the range is stored.
DataRangeOnly(w, range) ==
    IF ~Usable(range) \/ w.data = Normalized(range) THEN w
    ELSE [w EXCEPT !.data = Normalized(range)]

setDataFrequencyRange(w, range) ==
    IF ~Usable(range) \/ w.data = Normalized(range) THEN w
    ELSE [w EXCEPT !.data = Normalized(range), !.binMap = <<>>, !.binCount = 0]

-----------------------------------------------------------------------------
Act == acts < MaxActs /\ acts' = acts + 1

SetCanvasSize(size) ==
    /\ Act
    /\ size # wf.canvasSize
    /\ LET w == [wf EXCEPT !.canvasSize = size]
       IN  wf' = IF HasImage(wf) THEN remapHistory(w, size, wf.view) ELSE rebuildImage(w)
    /\ canvas' = NewImage(canvas)

SetFrequencyRange(range) ==
    LET view == Normalized(range)
        w == [wf EXCEPT !.view = view, !.binMap = <<>>, !.binCount = 0]
        remaps == historyNeedsRemap(wf, view) /\ wf.canvasSize # NoSize
    IN  /\ Act
        /\ Usable(range) /\ view # wf.view
        /\ wf' = IF remaps THEN remapHistory(w, wf.canvasSize, view) ELSE w
        /\ canvas' = IF remaps THEN NewImage(canvas) ELSE canvas

\* onSpectrumReady: the sweep's range and then its points.
Sweep(range, count) ==
    LET w == setDataFrequencyRange(wf, range)
        shows == ~wf.paused /\ HasImage(wf)
        drawn == renderRow(w, count)
    IN  /\ Act
        /\ wf' = IF shows THEN drawn ELSE w
        /\ canvas' = IF shows THEN NewRow(canvas, drawn.first) ELSE canvas

\* The pan slider pressed or released.
SetPaused ==
    /\ Act
    /\ wf' = [wf EXCEPT !.paused = ~@]
    /\ UNCHANGED canvas

ClearDisplay ==
    /\ Act
    /\ wf' = IF HasImage(wf) THEN [wf EXCEPT !.image = BlankImage(wf.size), !.first = 0, !.shifted = FALSE]
             ELSE wf
    /\ canvas' = NewImage(canvas)

\* initialize and render, with what may have to be created first.
Uploaded ==
    IF canvas.full \/ ~canvas.valid \/ Len(canvas.texture) # Height(wf)
       \/ canvas.texture[1] = <<>> \/ Len(canvas.texture[1].pixels) # Width(wf)
    THEN wf.image
    ELSE [y \in 1 .. Height(wf) |->
            IF y - 1 \in canvas.changed THEN wf.image[y] ELSE canvas.texture[y]]

Render ==
    /\ canvas.full \/ canvas.changed # {} \/ ~canvas.valid
    /\ HasImage(wf)
    /\ canvas' = [canvas EXCEPT !.valid = TRUE, !.texture = Uploaded, !.full = FALSE, !.changed = {}]
    /\ UNCHANGED <<wf, acts>>

\* The window loses its graphics context.
ReleaseResources ==
    /\ Act
    /\ canvas.valid
    /\ canvas' = [canvas EXCEPT !.valid = FALSE, !.texture = <<>>]
    /\ UNCHANGED wf

Init ==
    /\ \E view \in Views :
          wf = [ image |-> <<>>, size |-> NoSize, canvasSize |-> NoSize, first |-> 0,
                 view |-> Normalized(view), data |-> Normalized(view), range |-> Normalized(view),
                 binMap |-> <<>>, binCount |-> 0, paused |-> FALSE, last |-> 0, shifted |-> FALSE ]
    /\ canvas = [first |-> 0, changed |-> {}, full |-> TRUE, valid |-> FALSE, texture |-> <<>>]
    /\ acts = 0

Next ==
    \/ \E size \in Sizes : SetCanvasSize(size)
    \/ \E range \in Views : SetFrequencyRange(range)
    \/ \E range \in DataRanges, count \in Points : Sweep(range, count)
    \/ SetPaused \/ ClearDisplay \/ Render \/ ReleaseResources

Spec == Init /\ [][Next]_waterfallVars

-----------------------------------------------------------------------------
\* Types.
TypeOK ==
    /\ wf.size \in Sizes \cup {NoSize} /\ wf.canvasSize \in Sizes \cup {NoSize}
    /\ Len(wf.image) = Height(wf)
    /\ \A y \in DOMAIN wf.image : Len(wf.image[y].pixels) = Width(wf)
    /\ HasImage(wf) => wf.first \in 0 .. Height(wf) - 1
    /\ Len(wf.binMap) \in {0} \cup {size[1] : size \in Sizes}
    /\ canvas.changed \subseteq 0 .. Height(wf) - 1
    /\ acts \in 0 .. MaxActs

\* Rows stand below one another in the order of their sweeps, the newest on
\* top, whatever was moved, resized or cleared in between
\* (WaterfallController::renderRow, remapHistory).
HistoryInOrder ==
    HasImage(wf) =>
        \E depth \in 0 .. Height(wf) : \A y \in 0 .. Height(wf) - 1 :
            DisplayRow(wf, y).sweep = IF y < depth THEN wf.last - y ELSE 0

\* A pixel shows a point of its own frequency, to half a pixel for every time
\* the history was moved, also when the range of the sweeps changed and the
\* map from pixels to points had to be made again (ensureBinMap, remapHistory).
PixelsAtTheirFrequency ==
    \A y \in DOMAIN wf.image : \A x \in 1 .. Width(wf) :
        LET row == wf.image[y]
            n == Max({1, Width(wf) - 1})
            strays == 12 * (row.pixels[x] * n - ScaledHz(wf.range, x, Width(wf)))
        IN  row.pixels[x] # Idle => strays <= row.slack * n /\ -strays <= row.slack * n

\* Outside the rows still to be uploaded the texture is the image
\* (WaterfallCanvas::setWaterfallRow, render).
TextureFollows ==
    canvas.valid /\ ~canvas.full =>
        \A y \in DOMAIN wf.image : y - 1 \in canvas.changed \/ canvas.texture[y] = wf.image[y]

\* The canvas starts to draw at the newest row, except that a shift of the
\* image leaves it at row 0 until the next sweep.
NewestOnTop == HasImage(wf) /\ ~wf.shifted => canvas.first = wf.first

\* Without the exception, and without strays: both are violated.
NewestAlwaysOnTop == HasImage(wf) => canvas.first = wf.first
=============================================================================
