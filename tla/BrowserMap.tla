------------------------------ MODULE BrowserMap ------------------------------
(***************************************************************************)
(* What part of the document is shown: the map with its zoom, the scroll   *)
(* bar beside it, and the gestures that move both - the wheel, dragging,   *)
(* pinching, resizing the window - with the animation frames, timers and   *)
(* transitions between the steps of each.                                  *)
(*                                                                         *)
(* One direction, the vertical one, of a text document on a touch device,  *)
(* where tiles are asked for at the end of a move only (updateWhenIdle).   *)
(* Lengths on the screen are in half pixels, so that a whole pixel is      *)
(* even.  A length of the document covers twice as much on the screen at   *)
(* zoom level 1 as at level 0.                                             *)
(***************************************************************************)
EXTENDS Integers, Sequences

CONSTANTS DocLengths,    \* lengths of the document
          WinLengths,    \* heights of the window
          MaxMapTurns    \* bound: what the user and the kit do

ASSUME MapAssumption ==
    /\ DocLengths \subseteq Nat /\ \A d \in DocLengths : d % 4 = 0
    /\ WinLengths \subseteq Nat /\ \A n \in WinLengths : n % 8 = 0

VARIABLES
    doc,         \* length of the document
    window,      \* height of the window
    chart,       \* the map and the scroll bar, see MapTypeOK
    drag,        \* the finger or mouse button that drags the map
    pinch,       \* two fingers that zoom
    wheel,       \* turns of the wheel not yet acted on
    mapTurns,    \* how much of the bound is used up
    upsets       \* history: the named holes that have been met

mapVars == <<doc, window, chart, drag, pinch, wheel, mapTurns, upsets>>

ZoomLevels == 0..1
Nowhere == -1000    \* a centre that is not there
Larger(a, b) == IF a > b THEN a ELSE b
Smaller(a, b) == IF a < b THEN a ELSE b
Abs(n) == IF n < 0 THEN -n ELSE n
Biggest(S) == CHOOSE n \in S : \A m \in S : m <= n

\* The values the variables take.
MapTypeOK ==
    /\ doc \in DocLengths /\ window \in WinLengths
    /\ chart.zoom \in ZoomLevels /\ chart.origin \in Int /\ chart.pane \in Int /\ chart.size \in WinLengths
    /\ Len(chart.frames) <= MaxMapTurns /\ chart.animating \in BOOLEAN /\ chart.toZoom \in ZoomLevels
    /\ chart.toCenter \in Int /\ chart.tileZoom \in ZoomLevels /\ chart.isZooming \in BOOLEAN
    /\ chart.sizeTimer \in BOOLEAN /\ chart.resizing \in BOOLEAN /\ chart.enabled \in BOOLEAN
    /\ chart.at \in Nat /\ chart.prev \in Nat /\ chart.ignore \in BOOLEAN /\ chart.follows \in BOOLEAN
    /\ chart.mock \in Nat /\ chart.content \in Nat /\ chart.barSize \in WinLengths
    /\ drag.enabled \in BOOLEAN /\ drag.down \in BOOLEAN /\ drag.moved \in BOOLEAN /\ drag.moving \in BOOLEAN
    /\ drag.frame \in BOOLEAN /\ drag.startPos \in Int /\ drag.newPos \in Int
    /\ pinch.on \in BOOLEAN /\ pinch.moved \in BOOLEAN /\ pinch.frame \in BOOLEAN
    /\ pinch.step \in -1..1 /\ pinch.zoom \in -1..2 /\ pinch.center \in Int
    /\ wheel.delta \in -MaxMapTurns..MaxMapTurns /\ wheel.timer \in {"none", "zoom", "scroll"}
    /\ mapTurns \in 0..MaxMapTurns
    /\ upsets \subseteq {"thrown", "interrupted", "unresized", "enlarged", "late", "pinched", "quick", "disabled", "limit"}

-----------------------------------------------------------------------------
(* Places.                                                                 *)

\* project, unproject: from the document to the screen at a zoom level and back.
Project(lng, z) == CASE z = 0 -> lng [] z = 1 -> 2 * lng
Unproject(h, z) == CASE z = 0 -> h [] z = 1 -> h \div 2

\* _round, ceil and floor of a length on the screen.
RoundUp(h) == IF h % 2 = 0 THEN h ELSE h + 1
RoundDown(h) == IF h % 2 = 0 THEN h ELSE h - 1

\* _getTopLeftPoint, getCenter.
Top(w) == w.origin - w.pane
Center(w) == Unproject(Top(w) + w.size \div 2, w.zoom)

\* _getCenterOffset.
CenterOffset(w, center) == RoundUp(Project(center, w.zoom)) - w.origin - (w.size \div 2 - w.pane)

\* _getNewPixelOrigin.
NewPixelOrigin(w, center, z, pane) == RoundUp(Project(center, z) - w.size \div 2 + pane)

\* _limitZoom.
LimitZoom(z) == Larger(0, Smaller(1, z))

\* _rebound: what brings the view inside, or to the middle when there is not enough to see.
Rebound(left, right) ==
    IF left + right > 0 THEN RoundUp(left - right) \div 2
    ELSE Larger(0, RoundUp(left)) - Larger(0, RoundDown(right))

\* _limitCenter, with _getBoundsOffset.
LimitCenter(w, d, center, z) ==
    LET c == Project(center, z)
        half == w.size \div 2
    IN  Unproject(c + Rebound(half - c, c + half - Project(d, z)), z)

-----------------------------------------------------------------------------
(* The scroll bar, external, and what listens to it.                       *)

\* How far the bar can go, by the content and the window it last measured.
BarEnd(w) == Larger(0, w.content - w.barSize)

\* _onUpdateScrollOffset: the bar follows the view.
OnUpdateScrollOffset(w, y) == [w EXCEPT !.ignore = FALSE, !.prev = y, !.at = Smaller(y, BarEnd(w))]

\* _updateScrollOffset.
UpdateScrollOffset(w) == OnUpdateScrollOffset(w, Larger(0, Top(w)))

\* With a slip: scrolling is not ignored while the document shrinks.
OnUpdateSizeHeeding(w, length) == [w EXCEPT !.mock = length]

\* _onUpdateSize: what the bar scrolls has the length of the document.
OnUpdateSize(w, length) == [w EXCEPT !.mock = length, !.ignore = @ \/ length < w.mock]

\* moveend: tiles are asked for, the proxy of the animation is put in place, and the bar follows
\* when it was told to.
ViewOf(w) == <<w.zoom, Top(w), w.size>>
MoveEnd(w) ==
    LET m == [w EXCEPT !.told = ViewOf(w), !.proxy = <<Center(w), w.zoom>>] IN
    IF w.follows THEN UpdateScrollOffset(m) ELSE m

\* zoomend.
ZoomEnds(w) == UpdateScrollOffset([w EXCEPT !.isZooming = FALSE])

\* _reset of the tiles: for another zoom level the document has another size.
TilesReset(w, d, z) == IF w.tileZoom = z THEN w ELSE OnUpdateSize([w EXCEPT !.tileZoom = z], Project(d, z))

-----------------------------------------------------------------------------
(* Moving the view.                                                        *)

\* _resetView.
ResetView(w, d, center, z, preserve, after) ==
    LET pane == IF preserve THEN w.pane ELSE 0
        changed == w.zoom # z
        r == [w EXCEPT !.zoom = z, !.pane = pane, !.origin = NewPixelOrigin(w, center, z, pane),
                       !.isZooming = @ \/ (changed /\ ~after)]
        shown == TilesReset(r, d, z)
    IN  MoveEnd(IF changed \/ after THEN ZoomEnds(shown) ELSE shown)

\* panBy, without animation: far away it is a new view.
PanBy(w, d, offset) ==
    IF offset = 0 THEN w
    ELSE IF Abs(offset) > w.size THEN ResetView(w, d, Unproject(Top(w) + w.size \div 2 + offset, w.zoom), w.zoom, FALSE, FALSE)
    ELSE MoveEnd([w EXCEPT !.pane = @ - offset])

\* _tryAnimatedPan as setView uses it: nothing is animated, but what is near counts as animated,
\* which ends the wait for the end of a resizing.
TryAnimatedPan(w, d, center) ==
    LET offset == RoundDown(CenterOffset(w, center)) IN
    IF Abs(offset) > w.size THEN ResetView(w, d, center, w.zoom, FALSE, FALSE)
    ELSE [PanBy(w, d, offset) EXCEPT !.sizeTimer = FALSE]

\* _tryAnimatedZoom: nothing while one is animated; what is far is not animated; else it begins
\* with the next frame.
TryAnimatedZoom(w, d, center, z) ==
    LET offset == CenterOffset(w, center) * (IF z > w.zoom THEN 2 ELSE -1) IN
    IF w.animating THEN [w EXCEPT !.sizeTimer = FALSE]
    ELSE IF Abs(offset) > w.size THEN ResetView(w, d, center, z, FALSE, FALSE)
    ELSE [w EXCEPT !.sizeTimer = FALSE, !.frames = Append(@, [center |-> center, zoom |-> z])]

\* setView.
SetView(w, d, center, zoom) ==
    LET z == LimitZoom(zoom)
        c == LimitCenter(w, d, center, z)
    IN  IF z = w.zoom THEN TryAnimatedPan(w, d, c) ELSE TryAnimatedZoom(w, d, c, z)

\* setZoomAround, and setZoom when it keeps the caret in its place: a point of the window stays.
SetZoomAround(w, d, point, z) ==
    LET away == point - w.size \div 2
        stay == CASE z > w.zoom -> away \div 2 [] z < w.zoom -> -away [] z = w.zoom -> 0
    IN  SetView(w, d, Unproject(Top(w) + w.size \div 2 + stay, w.zoom), z)

\* With a slip: the document stays where it is.
SetMaxBoundsOnly(w, d) == w

\* setMaxBounds with panInsideBounds.
SetMaxBounds(w, d) ==
    LET c == LimitCenter(w, d, Center(w), w.zoom) IN
    IF c = Center(w) THEN w ELSE SetView(w, d, c, w.zoom)

\* With a slip: the view is not set to what the animation showed.
OnZoomTransitionEndOnly(w, d) == [w EXCEPT !.animating = FALSE]

\* _onZoomTransitionEnd.
OnZoomTransitionEnd(w, d) == ResetView([w EXCEPT !.animating = FALSE], d, w.toCenter, w.toZoom, TRUE, TRUE)

\* _animateZoom that starts the transition; when the proxy is there already there will be no end
\* of one, and it is over at once.
AnimateZoom(w, d, center, z, noUpdate) ==
    LET a == [w EXCEPT !.animating = TRUE, !.toCenter = center, !.toZoom = z, !.proxy = <<center, z>>]
        b == IF w.proxy = <<center, z>> THEN OnZoomTransitionEnd(a, d) ELSE a
    IN  IF noUpdate THEN b ELSE TilesReset(b, d, z)

\* scroll: the bar leads, so it does not follow.
ScrollMap(w, d, offset) == PanBy([w EXCEPT !.follows = FALSE], d, offset)

\* scrollTop.
ScrollTop(w, d, y) == PanBy([w EXCEPT !.follows = FALSE], d, y - Larger(0, Top(w)))

\* _onScroll: not while another window is in front, nor while the document shrinks.
OnScroll(w, d) ==
    IF ~w.enabled \/ w.ignore \/ w.at = w.prev THEN w
    ELSE ScrollMap([w EXCEPT !.prev = w.at], d, w.at - w.prev)

\* With a slip: what was ignored is forgotten.
OnScrollEndForgetful(w, d) == [w EXCEPT !.ignore = FALSE, !.prev = w.at]

\* _onScrollEnd: what was ignored is made up for.
OnScrollEnd(w, d) ==
    LET r == IF w.ignore THEN ScrollTop([w EXCEPT !.ignore = FALSE], d, w.at) ELSE w IN
    [r EXCEPT !.prev = w.at]

\* The bar moves and tells, external.
BarMoves(w, d, y) ==
    LET b == [w EXCEPT !.at = Larger(0, Smaller(y, BarEnd(w)))] IN OnScrollEnd(OnScroll(b, d), d)

-----------------------------------------------------------------------------
MapInit ==
    LET length == Biggest(DocLengths)
        size == CHOOSE n \in WinLengths : \A m \in WinLengths : n <= m
    IN  /\ doc = length /\ window = size
        /\ chart = [zoom |-> 0, origin |-> 0, pane |-> 0, size |-> size, frames |-> <<>>, animating |-> FALSE,
                    toZoom |-> 0, toCenter |-> Nowhere, tileZoom |-> 0, isZooming |-> FALSE, sizeTimer |-> FALSE,
                    resizing |-> FALSE, enabled |-> TRUE, at |-> 0, prev |-> 0, ignore |-> FALSE, follows |-> FALSE,
                    mock |-> length, content |-> length, barSize |-> size,
                    told |-> <<0, 0, size>>, proxy |-> <<size \div 2, 0>>]
        /\ drag = [enabled |-> TRUE, down |-> FALSE, moved |-> FALSE, moving |-> FALSE, frame |-> FALSE,
                   startPos |-> 0, newPos |-> 0]
        /\ pinch = [on |-> FALSE, moved |-> FALSE, frame |-> FALSE, step |-> 0, zoom |-> 0, center |-> Nowhere]
        /\ wheel = [delta |-> 0, timer |-> "none"]
        /\ mapTurns = 0 /\ upsets = {}

MapTurn == mapTurns < MaxMapTurns /\ mapTurns' = mapTurns + 1

\* The kit: the document becomes longer or shorter.  _updateMaxBounds.
DocResizes ==
    /\ MapTurn
    /\ doc' \in DocLengths \ {doc}
    /\ chart' = OnUpdateSize(SetMaxBounds(chart, doc'), Project(doc', chart.tileZoom))
    /\ upsets' = IF chart.animating \/ chart.frames # <<>> THEN upsets \cup {"late"} ELSE upsets
    /\ UNCHANGED <<window, drag, pinch, wheel>>

\* The bar finds that what it scrolls, or the window, has changed, external: it stays where it is
\* as far as it can, and may or may not tell when it does.
BarUpdates ==
    /\ chart.content # chart.mock \/ chart.barSize # window
    /\ LET b == [chart EXCEPT !.content = chart.mock, !.barSize = window] IN
        \/ chart' = BarMoves(b, doc, b.at)
        \/ b.at <= BarEnd(b) /\ chart' = b
    /\ upsets' = IF chart.enabled THEN upsets ELSE upsets \cup {"disabled"}
    /\ UNCHANGED <<doc, window, drag, pinch, wheel, mapTurns>>

\* The user moves the bar, or the caret must come into view (scrollto).
BarScrolls ==
    /\ MapTurn
    /\ \E y \in {0, chart.size, BarEnd(chart)} :
        /\ y # chart.at
        /\ chart' = BarMoves(chart, doc, y)
        /\ upsets' = IF chart.enabled THEN upsets ELSE upsets \cup {"disabled"}
    /\ UNCHANGED <<doc, window, drag, pinch, wheel>>

\* The buttons, and the keys of a reader, which do not ask whether there is such a zoom level: the
\* view then moves as if there were one.
UserZooms ==
    /\ MapTurn /\ chart.enabled
    /\ \E z \in {chart.zoom - 1, chart.zoom + 1}, point \in {0, chart.size \div 2} :
        /\ chart' = SetZoomAround(chart, doc, point, z)
        /\ upsets' = upsets \cup (IF chart.sizeTimer /\ LimitZoom(z) = chart.zoom THEN {"unresized"} ELSE {})
                            \cup (IF LimitZoom(z) = chart.zoom THEN {"limit"} ELSE {})
    /\ UNCHANGED <<doc, window, drag, pinch, wheel>>

\* _onWheelScroll: the turns add up until the timer, which the last of them chooses.
OnWheelScroll ==
    /\ MapTurn
    /\ \E d \in {-1, 1}, ctrl \in BOOLEAN :
        wheel' = [delta |-> wheel.delta + d, timer |-> IF ctrl THEN "zoom" ELSE "scroll"]
    /\ UNCHANGED <<doc, window, chart, drag, pinch, upsets>>

\* _performScroll, _onScrollBy.
PerformScroll ==
    /\ wheel.timer = "scroll" /\ wheel' = [delta |-> 0, timer |-> "none"]
    /\ chart' = IF wheel.delta = 0 THEN chart ELSE BarMoves(chart, doc, chart.at - 4 * wheel.delta)
    /\ upsets' = IF chart.enabled THEN upsets ELSE upsets \cup {"disabled"}
    /\ UNCHANGED <<doc, window, drag, pinch, mapTurns>>

\* _performZoom.
PerformZoom ==
    /\ wheel.timer = "zoom" /\ wheel' = [delta |-> 0, timer |-> "none"]
    /\ LET z == LimitZoom(chart.zoom + wheel.delta) IN
        chart' = IF z = chart.zoom THEN chart ELSE SetZoomAround(chart, doc, 0, z)
    /\ UNCHANGED <<doc, window, drag, pinch, mapTurns, upsets>>

\* The frame in which an animated zoom begins, with the centre of when it was asked for.
ZoomFrame ==
    /\ chart.frames # <<>>
    /\ LET f == Head(chart.frames) IN
        chart' = AnimateZoom([chart EXCEPT !.frames = Tail(@), !.isZooming = TRUE], doc, f.center, f.zoom, FALSE)
    /\ UNCHANGED <<doc, window, drag, pinch, wheel, mapTurns, upsets>>

\* _catchTransitionEnd.
CatchTransitionEnd ==
    /\ chart.animating /\ chart.toCenter # Nowhere
    /\ chart' = OnZoomTransitionEnd(chart, doc)
    /\ UNCHANGED <<doc, window, drag, pinch, wheel, mapTurns, upsets>>

\* The window changes, and _onResize asks for a frame.
WindowResizes ==
    /\ MapTurn
    /\ window' \in WinLengths \ {window}
    /\ chart' = [chart EXCEPT !.resizing = TRUE]
    /\ UNCHANGED <<doc, drag, pinch, wheel, upsets>>

\* invalidateSize: the top stays where it is, and the move ends a while later.
InvalidateSize ==
    /\ chart.resizing
    /\ LET r == [chart EXCEPT !.resizing = FALSE, !.size = window] IN
        chart' = IF window = chart.size THEN r ELSE UpdateScrollOffset([r EXCEPT !.sizeTimer = TRUE])
    /\ upsets' = IF window > chart.size THEN upsets \cup {"enlarged"} ELSE upsets
    /\ UNCHANGED <<doc, window, drag, pinch, wheel, mapTurns>>

SizeTimer ==
    /\ chart.sizeTimer
    /\ chart' = MoveEnd([chart EXCEPT !.sizeTimer = FALSE])
    /\ UNCHANGED <<doc, window, drag, pinch, wheel, mapTurns, upsets>>

\* enable: windows in front of the map.
EnableMap ==
    /\ MapTurn
    /\ chart' = [chart EXCEPT !.enabled = ~@]
    /\ UNCHANGED <<doc, window, drag, pinch, wheel, upsets>>

-----------------------------------------------------------------------------
(* Dragging.                                                               *)

\* enable, disable of the dragging, when the user switches between moving and selecting.
DragSwitch ==
    /\ MapTurn
    /\ drag' = IF drag.enabled THEN [drag EXCEPT !.enabled = FALSE, !.moved = FALSE] ELSE [drag EXCEPT !.enabled = TRUE]
    /\ upsets' = IF drag.down THEN upsets \cup {"interrupted"} ELSE upsets
    /\ UNCHANGED <<doc, window, chart, pinch, wheel>>

\* _onDown: not during the transition of a zoom.
DragDown ==
    /\ MapTurn /\ drag.enabled /\ ~drag.down /\ ~pinch.on
    /\ drag' = IF chart.animating THEN [drag EXCEPT !.moved = FALSE]
               ELSE [drag EXCEPT !.moved = FALSE, !.down = TRUE, !.startPos = chart.pane, !.newPos = chart.pane]
    /\ UNCHANGED <<doc, window, chart, pinch, wheel, upsets>>

\* _onMove: the first move only begins the drag.  _onDragStart lets the bar follow.
DragMove ==
    /\ drag.down /\ Project(doc, chart.tileZoom) >= chart.size
    /\ \E offset \in {-4, 4} :
        /\ drag' = LET start == IF drag.moved THEN drag.startPos ELSE chart.pane - offset IN
                   [drag EXCEPT !.moved = TRUE, !.moving = TRUE, !.frame = TRUE, !.startPos = start, !.newPos = start + offset]
        /\ chart' = IF drag.moved THEN chart ELSE [chart EXCEPT !.follows = TRUE]
    /\ UNCHANGED <<doc, window, pinch, wheel, mapTurns, upsets>>

\* With a slip: the document can be dragged out of the window.
OnPreDragFree(w, d, pos) == pos

\* _onPreDrag.
OnPreDrag(w, d, pos) ==
    IF pos = w.pane THEN pos
    ELSE Larger(Smaller(w.origin, pos), w.origin - Larger(Project(d, w.zoom) - w.size, 0))

\* _updatePosition.
DragFrame ==
    /\ drag.frame
    /\ LET pos == OnPreDrag(chart, doc, drag.newPos) IN
        /\ drag' = [drag EXCEPT !.frame = FALSE, !.newPos = pos]
        /\ chart' = UpdateScrollOffset([chart EXCEPT !.pane = pos])
    /\ UNCHANGED <<doc, window, pinch, wheel, mapTurns, upsets>>

\* With a slip: a drag ends without the end of a move.
OnDragEndQuietly(w, thrown) == w

\* _onDragEnd: a throw in both directions does not end the move.
OnDragEnd(w, thrown) == IF thrown THEN w ELSE MoveEnd(w)

\* _onUp.
DragUp ==
    /\ drag.down
    /\ LET dragged == drag.moved /\ drag.moving IN
        /\ drag' = [drag EXCEPT !.down = FALSE, !.moving = FALSE, !.frame = @ /\ ~dragged]
        /\ \E thrown \in BOOLEAN :
            /\ thrown => dragged
            /\ chart' = IF dragged THEN OnDragEnd(chart, thrown) ELSE chart
            /\ upsets' = IF thrown THEN upsets \cup {"thrown"} ELSE upsets
    /\ UNCHANGED <<doc, window, pinch, wheel, mapTurns>>

-----------------------------------------------------------------------------
(* Pinching.                                                               *)

\* _onTouchStart.
PinchStart ==
    /\ MapTurn /\ ~chart.animating /\ ~pinch.on /\ ~drag.down
    /\ pinch' = [pinch EXCEPT !.on = TRUE, !.moved = FALSE]
    /\ UNCHANGED <<doc, window, chart, drag, wheel, upsets>>

\* _onTouchMove: what is shown comes with the next frame.
PinchMove ==
    /\ pinch.on /\ ~pinch.frame
    /\ \E s \in {-1, 1} : pinch' = [pinch EXCEPT !.moved = TRUE, !.frame = TRUE, !.step = s]
    /\ chart' = IF pinch.moved THEN chart ELSE [chart EXCEPT !.isZooming = TRUE]
    /\ UNCHANGED <<doc, window, drag, wheel, mapTurns, upsets>>

\* _updateOnMove: the fingers move the centre as well.
UpdateOnMove ==
    /\ pinch.frame
    /\ \E c \in {Center(chart), Center(chart) + 8} :
        /\ pinch' = [pinch EXCEPT !.frame = FALSE, !.center = c, !.zoom = chart.zoom + pinch.step]
        /\ chart' = [chart EXCEPT !.proxy = <<c, chart.zoom + pinch.step>>]
    /\ UNCHANGED <<doc, window, drag, wheel, mapTurns, upsets>>

\* _onTouchEnd: the centre and the zoom are those of the last frame there was; without one there is
\* no centre to animate to, and the animation neither runs nor ends.
PinchEnd ==
    /\ pinch.on
    /\ pinch' = [pinch EXCEPT !.on = FALSE, !.frame = FALSE]
    /\ IF ~pinch.moved THEN UNCHANGED <<chart, upsets>>
       ELSE /\ chart' = IF pinch.center = Nowhere THEN [chart EXCEPT !.animating = TRUE, !.toCenter = Nowhere]
                        ELSE AnimateZoom(chart, doc, pinch.center, LimitZoom(pinch.zoom), TRUE)
            /\ upsets' = upsets \cup {"pinched"} \cup (IF pinch.frame THEN {"quick"} ELSE {})
    /\ UNCHANGED <<doc, window, drag, wheel, mapTurns>>

MapNext ==
    \/ DocResizes
    \/ BarUpdates
    \/ BarScrolls
    \/ UserZooms
    \/ OnWheelScroll
    \/ PerformScroll
    \/ PerformZoom
    \/ ZoomFrame
    \/ CatchTransitionEnd
    \/ WindowResizes
    \/ InvalidateSize
    \/ SizeTimer
    \/ EnableMap
    \/ DragSwitch
    \/ DragDown
    \/ DragMove
    \/ DragFrame
    \/ DragUp
    \/ PinchStart
    \/ PinchMove
    \/ UpdateOnMove
    \/ PinchEnd

MapSpec == MapInit /\ [][MapNext]_mapVars

-----------------------------------------------------------------------------
(* Properties.                                                             *)

\* No gesture is being made, and no frame, timer or transition is to come.
MapQuiet ==
    /\ chart.frames = <<>> /\ ~chart.animating /\ ~chart.sizeTimer /\ ~chart.resizing
    /\ chart.content = chart.mock /\ chart.barSize = window
    /\ ~drag.down /\ ~drag.frame /\ ~pinch.on /\ wheel.timer = "none"

\* The bar counts from the place the view is at: the next scrolling moves the view to where the bar
\* is - unless the bar was moved while a window was in front ("disabled"), an animation ended with a
\* centre from before the document changed ("late"), a key zoomed past the last level ("limit"), or the view
\* was outside the document ("enlarged", "pinched").
BarFollowsView ==
    MapQuiet /\ ~chart.ignore => 
        \/ chart.prev = Larger(0, Top(chart))
        \/ upsets \cap {"disabled", "late", "limit", "enlarged", "pinched"} # {}

\* Tiles have been asked for what is shown - unless the map was thrown ("thrown"), dragging was
\* switched off in the middle of it ("interrupted"), or a zoom to the level there is ended the wait
\* for the end of a resizing ("unresized").
MoveIsFollowed ==
    MapQuiet => chart.told = ViewOf(chart) \/ upsets \cap {"thrown", "interrupted", "unresized"} # {}

\* The view is inside the document, or has it in the middle - unless the window grew ("enlarged"),
\* an animation ended with a centre from before the document changed ("late"), fingers chose the
\* centre ("pinched"), or the bar and the view are apart ("disabled", "limit").
ViewInBounds ==
    MapQuiet /\ ~chart.ignore =>
        LET rest == Project(doc, chart.zoom) - chart.size IN
        \/ IF rest >= 0 THEN Top(chart) \in 0..rest ELSE Abs(2 * Top(chart) - rest) <= 2
        \/ upsets \cap {"enlarged", "late", "pinched", "disabled", "limit"} # {}

\* When a zoom is over, the tiles, the cursors and the map know it, and have the same zoom level; and
\* the animation is one that ends - unless fingers were gone before the first frame of their pinch
\* ("quick").
ZoomIsOver ==
    /\ MapQuiet => ~chart.isZooming /\ chart.tileZoom = chart.zoom
    /\ chart.animating => chart.toCenter # Nowhere \/ "quick" \in upsets

=============================================================================
