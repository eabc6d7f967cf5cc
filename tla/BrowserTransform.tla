-------------------------- MODULE BrowserTransform --------------------------
(***************************************************************************)
(* The marker of the selected shape in the plane: the matrix that a scaling *)
(* or a rotation builds up, the eight handles and the outline that it       *)
(* moves, what is applied and asked of the kit at the end, and the piece of *)
(* a pie chart that slides along a line.                                    *)
(*                                                                         *)
(* Layer points and twips are the same integers (one zoom).  Bounds: ratios *)
(* are whole, turns are quarters, a piece slides along the x axis, the kit  *)
(* has answered before the next gesture (BrowserGraphic has the case in     *)
(* which it has not), and a gesture begins with a box of even sides.        *)
(*                                                                         *)
(* Left out: a picture of a text that is turned by 45 degrees or an odd     *)
(* multiple of them.  There the box does not tell the picture's two sides,  *)
(* and TileLayer.js:2375 divides by 1 - tan^2, which is zero but for what   *)
(* the rounding of sine and cosine leaves: any size may be sent.            *)
(***************************************************************************)
EXTENDS Integers, Sequences

CONSTANTS Outline,      \* the box of the shape, [x0, y0, x1, y1], with even sides
          PageSize,         \* width and height of the document
          Kinds,        \* [steady, line, table, writer : BOOLEAN, angle : Angles] of the shape
          Reach,        \* how far a piece of a pie slides, range2 = Reach * Reach
          Half,         \* half the width of the piece
          MaxXfTurns,   \* bound: gestures
          MaxXfMoves    \* bound: moves of a gesture

VARIABLES
    kind,       \* the shape: one of Kinds, or a piece
    twips,      \* _graphicSelectionTwips
    rect,       \* the outline on the map, as bounds
    grip,       \* the scaling or rotation, see XfTypeOK
    slice,      \* the sliding piece, see XfTypeOK
    wanted,     \* history: what the last gesture asked of the kit, and drew
    xfTurns,    \* how much of the bounds is used up
    missteps    \* history: the named holes that have been met

xfVars == <<kind, twips, rect, grip, slice, wanted, xfTurns, missteps>>

Dot(x, y) == [x |-> x, y |-> y]
Box(x0, y0, x1, y1) == [x0 |-> x0, y0 |-> y0, x1 |-> x1, y1 |-> y1]
Boxes == [x0 : Int, y0 : Int, x1 : Int, y1 : Int]
Dots == [x : Int, y : Int]
Grid == {Dot(2 * i, 2 * j) : i \in 0..(PageSize \div 2), j \in 0..(PageSize \div 2)}
\* Upright, a quarter, and two that 9000 does not divide: of 2262 hundredths of a degree the
\* sine is 5/13 and the cosine 12/13, of 13500 both are the same but for the sign.
Angles == {0, 9000, 2262, 13500}

ASSUME KindsAssumption == \A k \in Kinds : k.angle \in Angles /\ (k.writer => k.angle # 13500)

Identity == <<1, 0, 0, 1, 0, 0>>
NoKind == [steady |-> FALSE, line |-> FALSE, table |-> FALSE, writer |-> FALSE, angle |-> 0,
           piece |-> FALSE, chosen |-> FALSE]

lo(a, b) == IF a < b THEN a ELSE b
hi(a, b) == IF a < b THEN b ELSE a
Abs(a) == hi(a, -a)
BoxOf(p, q) == Box(lo(p.x, q.x), lo(p.y, q.y), hi(p.x, q.x), hi(p.y, q.y))

\* L.LatLngBounds.getCenter
CenterOf(b) == Dot((b.x0 + b.x1) \div 2, (b.y0 + b.y1) \div 2)

\* _getPoints: sw, w, nw, n, ne, e, se, s
Corners(b) ==
    LET c == CenterOf(b)
    IN [i \in 0..7 |-> CASE i = 0 -> Dot(b.x0, b.y1) [] i = 1 -> Dot(b.x0, c.y)
                         [] i = 2 -> Dot(b.x0, b.y0) [] i = 3 -> Dot(c.x, b.y0)
                         [] i = 4 -> Dot(b.x1, b.y0) [] i = 5 -> Dot(b.x1, c.y)
                         [] i = 6 -> Dot(b.x1, b.y1) [] i = 7 -> Dot(c.x, b.y1)]

\* The values the variables take.
XfTypeOK ==
    /\ twips \in Boxes /\ rect \in Boxes
    /\ grip.kind \in {"none", "scale", "rotate"} /\ grip.index \in 0..7
    /\ grip.over \in BOOLEAN                  \* the pointer is on the handle
    /\ grip.origin \in Dots                   \* the point that stays
    /\ grip.start \in 0..3                    \* _rotationStart, a quarter
    /\ grip.sx \in Int /\ grip.sy \in Int     \* _scale
    /\ grip.angle \in 0..3                    \* _angle, in quarters
    /\ grip.dirX \in {"none", "lo", "hi"} /\ grip.dirY \in {"none", "lo", "hi"}
    /\ Len(grip.matrix) = 6 /\ Len(grip.initial) = 6
    /\ grip.handles \in [0..7 -> Dots] /\ grip.cached \in [0..7 -> Dots]
    /\ slice.initial \in 0..Reach             \* initialOffset * Reach
    /\ {slice.hears, slice.live, slice.moved, slice.shown} \subseteq BOOLEAN
    /\ {slice.at, slice.from, slice.start, slice.drawn} \subseteq Int /\ slice.sent \in -1..Reach
    /\ missteps \subseteq {"again", "edge", "across", "flat", "left", "jump"}

NoGrip(b) ==
    [kind |-> "none", index |-> 0, over |-> TRUE, origin |-> Dot(0, 0), start |-> 0, sx |-> 1,
     sy |-> 1, angle |-> 0, dirX |-> "none", dirY |-> "none", matrix |-> Identity,
     initial |-> Identity, handles |-> Corners(b), cached |-> Corners(b), moves |-> 0]

Lying(offset) ==
    [initial |-> offset, hears |-> FALSE, live |-> FALSE, moved |-> FALSE, shown |-> FALSE,
     at |-> 0, from |-> 0, start |-> 0, drawn |-> 0, sent |-> -1, moves |-> 0]

XfInit ==
    /\ kind = NoKind
    /\ twips = Outline /\ rect = Outline
    /\ grip = NoGrip(Outline) /\ slice = Lying(0)
    /\ wanted = [turned |-> FALSE, asked |-> Outline, drawn |-> Outline, landed |-> Dot(0, 0), pos |-> Dot(0, 0)]
    /\ xfTurns = 0 /\ missteps = {}

\* What is selected.
Choose ==
    /\ ~kind.chosen
    /\ \/ \E k \in Kinds : kind' = [steady |-> k.steady, line |-> k.line, table |-> k.table,
                                    writer |-> k.writer, angle |-> k.angle, piece |-> FALSE,
                                    chosen |-> TRUE]
          /\ slice' = slice
       \/ \E offset \in 0..Reach : slice' = Lying(offset)
          /\ kind' = [NoKind EXCEPT !.piece = TRUE, !.chosen = TRUE]
    /\ UNCHANGED <<twips, rect, grip, wanted, xfTurns, missteps>>

-----------------------------------------------------------------------------
(* L.Matrix: the six numbers are columns to _add, and to the transform      *)
(* attribute of SVG, but rows to transform.                                 *)

\* Matrix._transform
Transformed(m, p) == Dot(m[1] * p.x + m[2] * p.y + m[5], m[3] * p.x + m[4] * p.y + m[6])

\* L.SVG.transformPath: matrix(a b c d e f) of the attribute
Plotted(m, p) == Dot(m[1] * p.x + m[3] * p.y + m[5], m[2] * p.x + m[4] * p.y + m[6])

\* Matrix._add
Composed(m, o) ==
    <<m[1] * o[1] + m[3] * o[2], m[2] * o[1] + m[4] * o[2],
      m[1] * o[3] + m[3] * o[4], m[2] * o[3] + m[4] * o[4],
      m[1] * o[5] + m[3] * o[6] + m[5], m[2] * o[5] + m[4] * o[6] + m[6]>>

\* Matrix.flip
Flip(m) == <<m[1], -m[2], -m[3], m[4], m[5], m[6]>>

\* Matrix.scale
ScaledAbout(m, sx, sy, p) ==
    Composed(Composed(m, <<sx, 0, 0, sy, p.x, p.y>>), <<1, 0, 0, 1, -p.x, -p.y>>)

Cos(q) == CASE q = 0 -> 1 [] q = 2 -> -1 [] OTHER -> 0
Sin(q) == CASE q = 1 -> 1 [] q = 3 -> -1 [] OTHER -> 0

\* Matrix.rotate
RotatedAbout(m, q, p) ==
    Composed(Composed(m, <<Cos(q), Sin(q), -Sin(q), Cos(q), p.x, p.y>>), <<1, 0, 0, 1, -p.x, -p.y>>)

\* With a slip: the matrix of the handles is given to the outline as it is.
DrawnUnflipped(m, p) == Plotted(m, p)

\* _update and _applyTransform: where a point of the outline is drawn
Drawn(m, p) == Plotted(Flip(m), p)

\* _update: where the handles are drawn
Follow(g) ==
    [g EXCEPT !.handles = [i \in 0..7 |-> IF g.kind = "scale" /\ i = (g.index + 4) % 8
                                          THEN g.handles[i] ELSE Transformed(g.matrix, g.cached[i])]]

-----------------------------------------------------------------------------
(* Scaling and rotation.                                                   *)

\* _createHandler: the handles that can be pressed
Grips ==
    {i \in 0..7 : /\ kind.line => i \in (IF kind.angle <= 9000 THEN {0, 4} ELSE {2, 6})
                  /\ kind.table => i >= 5}

\* _onGraphicEdit "scalestart": the side that is dragged
SideOf(low, high, at) ==
    IF at - low \in -1..1 THEN "lo" ELSE IF at - high \in -1..1 THEN "hi" ELSE "none"

\* One more gesture; the one before it is answered.
XfTurn ==
    /\ kind.chosen /\ ~kind.piece
    /\ xfTurns < MaxXfTurns /\ xfTurns' = xfTurns + 1
    /\ rect = twips
    /\ (twips.x1 - twips.x0) % 2 = 0 /\ (twips.y1 - twips.y0) % 2 = 0

\* _onScaleStart and _cachePoints; the release of the button may have been
\* missed, over the toolbar, and the handle that still follows is pressed again.
OnScaleStart(i) ==
    /\ i \in Grips
    /\ \/ grip.kind = "none" /\ XfTurn /\ missteps' = missteps
       \/ /\ grip.kind = "scale" /\ grip.over /\ i = grip.index /\ grip.moves \in 1..(MaxXfMoves - 1)
          /\ missteps' = missteps \cup {"again"} /\ xfTurns' = xfTurns
    /\ LET at == Corners(rect)[i]
           x == SideOf(twips.x0, twips.x1, at.x)
           y == SideOf(twips.y0, twips.y1, at.y)
       IN grip' = [grip EXCEPT !.kind = "scale", !.index = i, !.over = TRUE,
                               !.origin = grip.handles[(i + 4) % 8], !.cached = grip.handles,
                               !.initial = grip.matrix,
                               !.dirX = IF x = "none" THEN @ ELSE x,
                               !.dirY = IF y = "none" THEN @ ELSE y]
    /\ UNCHANGED <<kind, twips, rect, slice, wanted>>

Ratios == {-2, -1, 1, 2}
Square(a, b) == (a.x - b.x) * (a.x - b.x) + (a.y - b.y) * (a.y - b.y)

\* The ratios of _onScale on one axis: how much farther than the handle the
\* pointer is.
RatiosFor(fixed, active, at) ==
    {k \in Ratios : IF fixed = active THEN k = 1 ELSE at - fixed = k * (active - fixed)}

\* The ratios of both, which are one when the shape keeps its proportions.
ScalesFor(active, at) ==
    IF kind.steady
    THEN {<<k, k>> : k \in {s \in 1..2 : Square(grip.origin, at) = s * s * Square(grip.origin, active)}}
    ELSE RatiosFor(grip.origin.x, active.x, at.x) \X RatiosFor(grip.origin.y, active.y, at.y)

\* _onScale
OnScale(at) ==
    /\ grip.kind = "scale" /\ grip.moves < MaxXfMoves
    /\ \E s \in ScalesFor(grip.cached[grip.index], at) :
          LET g == Follow([grip EXCEPT !.sx = s[1], !.sy = s[2], !.moves = @ + 1,
                                       !.matrix = ScaledAbout(grip.initial, s[1], s[2], grip.origin)])
          IN grip' = [g EXCEPT !.over = at = g.handles[g.index]]
    /\ UNCHANGED <<kind, twips, rect, slice, wanted, xfTurns, missteps>>

\* With a slip: a shape that is turned over both ways counts as once.
GetMirroredIndexOnce(sx, sy, i) ==
    IF sx < 0 THEN <<6, 5, 4, 3, 2, 1, 0, 7>>[i + 1]
    ELSE IF sy < 0 THEN <<2, 1, 0, 7, 6, 5, 4, 3>>[i + 1] ELSE i

\* _onScaleEnd and _getMirroredIndex: which handle the pressed one has become
GetMirroredIndex(sx, sy, i) ==
    IF sx < 0 /\ sy < 0 THEN <<4, 5, 6, 7, 0, 1, 2, 3>>[i + 1]
    ELSE IF sx < 0 THEN <<6, 5, 4, 3, 2, 1, 0, 7>>[i + 1]
    ELSE IF sy < 0 THEN <<2, 1, 0, 7, 6, 5, 4, 3>>[i + 1] ELSE i

\* With a slip: the rotation is applied as columns.
GetProjectedMatrixUnflipped(g) ==
    LET m == IF g.sx = 1 /\ g.sy = 1 THEN Identity ELSE ScaledAbout(Identity, g.sx, g.sy, g.origin)
    IN IF g.angle = 0 THEN m ELSE RotatedAbout(m, g.angle, g.origin)

\* _getProjectedMatrix
GetProjectedMatrix(g) ==
    LET m == IF g.sx = 1 /\ g.sy = 1 THEN Identity ELSE ScaledAbout(Identity, g.sx, g.sy, g.origin)
    IN IF g.angle = 0 THEN m ELSE Flip(RotatedAbout(m, g.angle, g.origin))

\* _apply and _transformPoints: the bounds of the outline afterwards
ApplyTo(b, m) == BoxOf(Transformed(m, Corners(b)[0]), Transformed(m, Corners(b)[4]))

\* What the outline looks like while the matrix is only drawn.
Seen(g, b) == BoxOf(Drawn(g.matrix, Corners(b)[0]), Drawn(g.matrix, Corners(b)[4]))

\* _onGraphicEdit "scaleend", computePosAndSize: position and size on one axis
SpanFor(side, low, high, at) ==
    CASE side = "lo" -> <<at, high - at>>
      [] side = "hi" -> <<low, at - low>>
      [] OTHER -> <<low, high - low>>

\* With a slip: a shape that is not upright is stretched along one side.
InProportionNever(x, y) == <<x, y>>

\* "do we need to perform uniform scaling"; sizes are even, so nothing is rounded
InProportion(x, y) ==
    LET w == twips.x1 - twips.x0
        h == twips.y1 - twips.y0
        high == (h * x[2]) \div w
        wide == (w * y[2]) \div h
    IN IF kind.angle % 9000 = 0 \/ kind.line THEN <<x, y>>
       ELSE IF grip.dirX # "none" /\ grip.dirY = "none"
            THEN <<x, <<twips.y0 - (high - h) \div 2, high>>>>
       ELSE IF grip.dirX = "none" /\ grip.dirY # "none"
            THEN <<<<twips.x0 - (wide - w) \div 2, wide>>, y>>
       ELSE <<x, y>>

\* "try to keep shape inside document"
OnPage(s) == <<hi(0, IF s[1] + s[2] > PageSize THEN PageSize - s[2] ELSE s[1]), s[2]>>

\* Math.round of a fraction.
Rounded(a, b) == (2 * a + b) \div (2 * b)

IsSlanted == kind.writer /\ kind.angle % 9000 # 0
LiesAcross == kind.writer /\ kind.angle = 9000

\* Thirteen times |sin| and |cos| of the angle of a slanted picture.
Sine == IF kind.angle < 9000 THEN 5 ELSE 12
Cosine == IF kind.angle < 9000 THEN 12 ELSE 5

\* With a slip: of a picture that is turned only the case of a quarter is thought of.
ImageSizeAcross(w, h) == IF LiesAcross THEN <<h, w>> ELSE <<w, h>>

\* A picture of a text has the size of the picture sent, not of its turned box: one that lies
\* across has its sides swapped.  A corner of a slanted one divides the height h of the box into
\* u = (l w - l^2 h) / (1 - l^2) and v = h - u, where l = sin / cos; its sides are u / sin and
\* v / cos, which is (cos w - sin h) / (cos^2 - sin^2) and the same with w and h swapped.
ImageSize(w, h) ==
    LET n == Cosine * Cosine - Sine * Sine
        side(p, q) == Rounded(13 * (Cosine * p - Sine * q) * (IF n < 0 THEN -1 ELSE 1), Abs(n))
    IN IF IsSlanted THEN <<side(w, h), side(h, w)>>
       ELSE IF LiesAcross THEN <<h, w>> ELSE <<w, h>>

\* The kit, .uno:TransformDialog: the box of the picture is the turned size.
BoxFor(x, y, size) ==
    LET a == Abs(size[1])
        b == Abs(size[2])
        box == IF IsSlanted
               THEN <<Rounded(Cosine * a + Sine * b, 13), Rounded(Sine * a + Cosine * b, 13)>>
               ELSE IF LiesAcross THEN <<size[2], size[1]>> ELSE size
    IN BoxOf(Dot(x, y), Dot(x + box[1], y + box[2]))

\* No picture that is turned so has the box: a side of it comes out negative, or nothing.
IsFlat(size) == IsSlanted /\ (size[1] <= 0 \/ size[2] <= 0)

\* _onScaleEnd, _apply, and _onGraphicEdit "scaleend"
OnScaleEnd ==
    LET applied == ApplyTo(rect, GetProjectedMatrix(grip))
        pos == Corners(applied)[GetMirroredIndex(grip.sx, grip.sy, grip.index)]
        both == InProportion(SpanFor(grip.dirX, twips.x0, twips.x1, pos.x),
                             SpanFor(grip.dirY, twips.y0, twips.y1, pos.y))
        x == OnPage(both[1])
        y == OnPage(both[2])
        size == ImageSize(x[2], y[2])
        edge == grip.index % 2 = 1 /\ (kind.steady # (kind.angle % 9000 # 0))
    IN /\ grip.kind = "scale"
       /\ grip' = NoGrip(applied)
       /\ rect' = applied
       /\ wanted' = [turned |-> FALSE,
                     asked |-> BoxFor(x[1], y[1], size), drawn |-> Seen(grip, rect),
                     landed |-> grip.handles[grip.index], pos |-> pos]
       /\ missteps' = missteps \cup (IF edge /\ (grip.sx # 1 \/ grip.sy # 1) THEN {"edge"} ELSE {})
                               \cup (IF grip.sx < 0 \/ grip.sy < 0 THEN {"across"} ELSE {})
                               \cup (IF IsFlat(size) THEN {"flat"} ELSE {})
       /\ UNCHANGED <<kind, twips, slice, xfTurns>>

\* _onRotateStart; the handle that turns the shape is above it.
OnRotateStart ==
    /\ ~kind.line /\ ~kind.table
    /\ grip.kind = "none" /\ XfTurn
    /\ grip' = [grip EXCEPT !.kind = "rotate", !.start = 3, !.origin = CenterOf(rect),
                            !.cached = grip.handles, !.initial = grip.matrix]
    /\ UNCHANGED <<kind, twips, rect, slice, wanted, missteps>>

\* _onRotate: the pointer is in quarter q, clockwise from the east
OnRotate(q) ==
    /\ grip.kind = "rotate" /\ grip.moves < MaxXfMoves
    /\ LET angle == (q - grip.start) % 4
       IN grip' = Follow([grip EXCEPT !.angle = angle, !.moves = @ + 1,
                                      !.matrix = Flip(RotatedAbout(grip.initial, angle, grip.origin))])
    /\ UNCHANGED <<kind, twips, rect, slice, wanted, xfTurns, missteps>>

\* With a slip: the kit is told the angle of the screen.
RotationSentClockwise(start, q) == (q - start) % 4

\* _onRotateEnd: the angle that is sent, counted the other way round
RotationSent(start, q) == (start - q) % 4

\* The kit: the box turned about its middle, counterclockwise.
TurnedBox(b, q) ==
    LET c == CenterOf(b)
        w == IF q % 2 = 0 THEN b.x1 - b.x0 ELSE b.y1 - b.y0
        h == IF q % 2 = 0 THEN b.y1 - b.y0 ELSE b.x1 - b.x0
    IN Box(c.x - w \div 2, c.y - h \div 2, c.x - w \div 2 + w, c.y - h \div 2 + h)

\* The corner of a box that the turn takes its first corner to.
TurnedCorner(b, q) ==
    LET c == CenterOf(b)
        p == Corners(b)[2]
    IN Dot(c.x + Cos(q) * (p.x - c.x) + Sin(q) * (p.y - c.y),
          c.y - Sin(q) * (p.x - c.x) + Cos(q) * (p.y - c.y))

\* _onRotateEnd, _apply and _onGraphicRotate "rotateend"; of the angle, which the kit tells with
\* the box, half turns are left out, as the code looks at |sin|, |cos| and parity only.
OnRotateEnd ==
    LET sent == RotationSent(grip.start, (grip.start + grip.angle) % 4)
        applied == ApplyTo(rect, GetProjectedMatrix(grip))
    IN /\ grip.kind = "rotate"
       /\ grip' = NoGrip(applied)
       /\ rect' = applied
       /\ kind' = [kind EXCEPT !.angle = (@ + 9000 * sent) % 18000]
       /\ wanted' = [turned |-> TRUE,
                     asked |-> TurnedBox(twips, sent), drawn |-> Seen(grip, rect),
                     landed |-> grip.handles[2], pos |-> TurnedCorner(twips, sent)]
       /\ UNCHANGED <<twips, slice, xfTurns, missteps>>

\* The kit answers with the box; the marker is made anew.
Answered ==
    /\ grip.kind = "none" /\ ~kind.piece
    /\ rect # twips \/ wanted.asked # twips
    /\ twips' = wanted.asked /\ rect' = wanted.asked
    /\ grip' = NoGrip(wanted.asked)
    /\ UNCHANGED <<kind, slice, wanted, xfTurns, missteps>>

-----------------------------------------------------------------------------
(* A piece of a pie chart: two listeners for one drag, the shape's and the  *)
(* document's.                                                              *)

\* SVGGroup._onDragStart, PathDrag._onDragStart, "graphicmovestart"
PieceStart ==
    /\ kind.piece /\ ~slice.live
    /\ xfTurns < MaxXfTurns /\ xfTurns' = xfTurns + 1
    /\ slice' = [Lying(slice.initial) EXCEPT !.hears = TRUE, !.live = TRUE]
    /\ UNCHANGED <<kind, twips, rect, grip, wanted, missteps>>

\* With a slip: only the step is held back, in the one direction.
ConstrainedUp(s, x) ==
    IF x - s.from > Reach - s.initial /\ x > s.start THEN 0 ELSE x - s.start

\* PathDrag._onDrag, "PieSegmentDragging": the step that is made
Constrained(s, x) ==
    IF \/ x - s.from < -s.initial /\ x < s.start
       \/ x - s.from > Reach - s.initial /\ x > s.start
    THEN 0 ELSE x - s.start

\* PathDrag._onDrag: the matrix moves, and with the first step the picture shows
Dragged(s, x) ==
    LET step == Constrained(s, x)
    IN IF step = 0 THEN s
       ELSE [s EXCEPT !.drawn = @ + step, !.start = @ + step, !.moved = TRUE,
                      !.shown = IF ~s.moved THEN TRUE ELSE @]

\* With a slip: what is asked may be out of reach.
OffsetSentFreely(s, x) == s.initial + (x - s.from)

\* _onGraphicMove "graphicmoveend"
OffsetSent(s, x) == s.initial + hi(-s.initial, lo(Reach - s.initial, x - s.from))

\* SVGGroup._onDragEnd but for the call of PathDrag._onDragEnd
EndOfGroup(s, x) ==
    [s EXCEPT !.hears = FALSE, !.shown = FALSE,
              !.sent = IF x = s.from THEN @ ELSE OffsetSent(s, x)]

IsOver(s, x) == x - (s.from + s.drawn) \in -Half..Half

\* The pointer leaves the reach, and the piece stays short of its end.
Jumped(s, x) ==
    \/ x - s.from < -s.initial /\ s.drawn > -s.initial
    \/ x - s.from > Reach - s.initial /\ s.drawn < Reach - s.initial

\* The pointer moves: on the shape, which shows its picture; off it, which
\* ends the drag for the shape (mouseout) and not for the document.
PieceMove(x) ==
    /\ slice.live /\ slice.moves < MaxXfMoves
    /\ LET over == IsOver(slice, x)
           s == [slice EXCEPT !.moves = @ + 1, !.at = x]
           t == IF ~s.hears THEN s
                ELSE IF over THEN [s EXCEPT !.shown = TRUE] ELSE EndOfGroup(s, x)
           u == Dragged(t, x)
       IN /\ slice' = u
          /\ missteps' = missteps \cup (IF ~slice.hears /\ u.drawn # slice.drawn THEN {"left"} ELSE {})
                                  \cup (IF Jumped(t, x) THEN {"jump"} ELSE {})
    /\ UNCHANGED <<kind, twips, rect, grip, wanted, xfTurns>>

\* With a slip: the document's listener leaves the picture as it is.
EndOfPathShown(s) == [s EXCEPT !.live = FALSE, !.moved = FALSE]

\* PathDrag._onDragEnd: "dragend" hides the picture, if the piece was moved
EndOfPath(s) == [s EXCEPT !.live = FALSE, !.moved = FALSE, !.shown = IF s.moved THEN FALSE ELSE @]

\* The button is let go of, where the pointer is.
PieceEnd ==
    LET s == slice
    IN /\ s.live
       /\ slice' = EndOfPath(IF s.hears /\ IsOver(s, s.at) THEN EndOfGroup(s, s.at) ELSE s)
       /\ UNCHANGED <<kind, twips, rect, grip, wanted, xfTurns, missteps>>

-----------------------------------------------------------------------------

XfNext ==
    \/ Choose
    \/ \E i \in 0..7 : OnScaleStart(i)
    \/ \E at \in Grid : OnScale(at)
    \/ OnScaleEnd
    \/ OnRotateStart
    \/ \E q \in 0..3 : OnRotate(q)
    \/ OnRotateEnd
    \/ Answered
    \/ PieceStart
    \/ \E x \in -Reach-1..Reach+1 : PieceMove(x)
    \/ PieceEnd

XfSpec == XfInit /\ [][XfNext]_xfVars

-----------------------------------------------------------------------------
(* Properties.                                                             *)

\* The handles stay on the outline while it is drawn scaled or turned: the
\* matrix that moves them, read by rows, and the one of the SVG attribute,
\* read by columns, are the same map (Path.Transform.js:275, Matrix.js:40).
\* Not so after a release of the button that the map did not hear, when the
\* handle is pressed again on top of a matrix that is not the identity.
HandlesFollowTheOutline ==
    grip.kind # "none" /\ "again" \notin missteps
        => \A i \in 0..7 : grip.handles[i] = Drawn(grip.matrix, Corners(rect)[i])

\* What is applied at the end of a gesture is what was drawn in it, and the
\* handle that is reported is where the pressed one came to lie, however the
\* shape was turned over (Path.Transform.js:412, 514, 773).
AppliedIsDrawn ==
    grip.kind = "none" /\ "again" \notin missteps
        => /\ rect \in {wanted.drawn, twips}
           /\ wanted.pos = wanted.landed

\* Within a twip, which the rounding of a slanted picture's sides may take.
Around(a, b) == \A side \in {"x0", "y0", "x1", "y1"} : a[side] - b[side] \in -1..1

\* The kit is asked for the box that was drawn, pushed back on to the page when it was scaled: for
\* a picture of a text that is turned, through the picture's own size - not for the middle of a
\* side when the marker keeps the proportions and the command does not, or the other way round
\* ("edge"), nor for a box that is too flat for a picture turned so ("flat"); a picture that is
\* turned by 45 degrees is left out (TileLayer.js:2319, 2352, 2362, Path.Transform.js:746).
AskedIsApplied ==
    missteps \cap {"again", "edge", "flat"} = {}
        => LET x == OnPage(<<wanted.drawn.x0, wanted.drawn.x1 - wanted.drawn.x0>>)
               y == OnPage(<<wanted.drawn.y0, wanted.drawn.y1 - wanted.drawn.y0>>)
               box == IF wanted.turned THEN wanted.drawn
                      ELSE Box(x[1], y[1], x[1] + x[2], y[1] + y[2])
           IN IF IsSlanted THEN Around(wanted.asked, box)
              ELSE wanted.asked = box

\* A table is only ever stretched to the south and the east: its first corner
\* stays where it was, unless a handle is dragged across it
\* (Path.Transform.js:888).
TablesKeepTheirCorner ==
    kind.table /\ missteps \cap {"across", "again"} = {}
        => wanted.asked.x0 = Outline.x0 /\ wanted.asked.y0 = Outline.y0

\* A piece never leaves its reach, on the map and in the command, and both
\* say the same, unless the pointer left the piece and the document went on
\* dragging it, or left the reach in a jump (Path.Drag.js:181, TileLayer.js:2215).
PieceIsWhereAsked ==
    kind.piece =>
        /\ slice.initial + slice.drawn \in 0..Reach
        /\ slice.sent \in -1..Reach
        /\ ~slice.live /\ slice.sent # -1 /\ missteps \cap {"left", "jump"} = {}
               => slice.sent = slice.initial + slice.drawn

\* The picture of the shape is shown only while it is dragged, whichever of
\* the two listeners ends the drag (SVGGroup.js:19, 112, 131).
PictureOnlyInDrag == slice.shown => slice.live

=============================================================================
