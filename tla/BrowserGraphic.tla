--------------------------- MODULE BrowserGraphic ---------------------------
(***************************************************************************)
(* The shape that is selected: its marker, which the user moves, resizes   *)
(* and rotates, the commands that follow, and the dark frame around an     *)
(* object that is edited in place.                                         *)
(*                                                                         *)
(* One axis is modelled: a shape is the interval it covers.  Coordinates   *)
(* are even, so that the middle of a shape has one too, and handles that   *)
(* are apart are never as close as the two twips the code takes for the    *)
(* same place.                                                             *)
(***************************************************************************)
EXTENDS Integers, Sequences

CONSTANTS Shapes,       \* the shapes of the document
          Places,       \* where each of them is at first, <<low, high>>
          Pies,         \* the ones that are pieces of a pie chart
          Steady,       \* the ones that keep their proportions
          DocWidth,     \* the width of the document
          MaxPicTurns   \* bound: gestures, and what the kit does of its own accord

VARIABLES
    obj,        \* the kit: the selected shape, where they are, editing in place
    heard,      \* messages from the kit
    asked,      \* commands to the kit
    pic,        \* the browser, see PicTypeOK
    gesture,    \* the gesture under way
    told,       \* history: what the last gesture drew, and what was asked for it
    picTurns,   \* how much of the bound is used up
    breaks      \* history: the named holes that have been met

picVars == <<obj, heard, asked, pic, gesture, told, picTurns, breaks>>

NoShape == "no shape"
Spans == Int \X Int
Points == {2 * i : i \in 0..(DocWidth \div 2)}
Idle == [kind |-> "none", shape |-> NoShape, handle |-> "lo", from |-> 0, live |-> FALSE, pans |-> FALSE]

\* The values the variables take.
PicTypeOK ==
    /\ obj \in [selected: Shapes \cup {NoShape}, place: [Shapes -> Spans], inplace: BOOLEAN]
    /\ pic \in [device: {"unknown", "mouse", "touch"}, edit: BOOLEAN,
                sel: Shapes \cup {NoShape},       \* _graphicSelection, NoShape when it is empty
                bounds: Spans,                    \* its corners, which the marker shares and moves
                twips: Spans,                     \* _graphicSelectionTwips
                marker: {"none", "live", "removed"},
                dir: {"none", "lo", "hi", "both"},\* dragHorizDir
                delay: BOOLEAN,                   \* _delayShowDarkOverlay
                dark: BOOLEAN, pans: BOOLEAN]     \* the map can be dragged
    /\ gesture \in [kind: {"none", "move", "scale", "rotate"}, shape: Shapes \cup {NoShape},
                    handle: {"lo", "mid", "hi"}, from: Points,
                    live: BOOLEAN,                \* its marker is still the one on the map
                    pans: BOOLEAN]                \* _mapDraggingWasEnabled
    /\ breaks \subseteq {"early", "interrupted"}

PicInit ==
    /\ obj = [selected |-> NoShape, place |-> Places, inplace |-> FALSE]
    /\ heard = <<>> /\ asked = <<>>
    /\ pic = [device |-> "unknown", edit |-> FALSE, sel |-> NoShape, bounds |-> <<0, 0>>,
              twips |-> <<0, 0>>, marker |-> "none", dir |-> "none", delay |-> FALSE,
              dark |-> FALSE, pans |-> TRUE]
    /\ gesture = Idle
    /\ told = [drawn |-> <<0, 0>>, sent |-> <<0, 0>>, of |-> NoShape, for |-> NoShape]
    /\ picTurns = 0
    /\ breaks = {}

-----------------------------------------------------------------------------
(* The kit.                                                                *)

PicTurn == picTurns < MaxPicTurns /\ picTurns' = picTurns + 1

Selection(s, place) == IF s = NoShape THEN <<"empty">> ELSE <<"selection", s, place[s]>>

\* Another shape is selected, or none.
KitSelects(s) ==
    /\ PicTurn
    /\ s # obj.selected
    /\ obj' = [obj EXCEPT !.selected = s]
    /\ heard' = Append(heard, Selection(s, obj.place))
    /\ UNCHANGED <<asked, pic, gesture, told, breaks>>

\* Editing in place begins or ends; the selection may be told before or after.
KitInPlace(order) ==
    LET news == IF obj.inplace THEN <<"exit">> ELSE <<"inplace">>
        sel == Selection(obj.selected, obj.place)
    IN /\ PicTurn
       /\ obj.selected # NoShape
       /\ obj' = [obj EXCEPT !.inplace = ~@]
       /\ heard' = heard \o (CASE order = "alone" -> <<news>>
                               [] order = "before" -> <<sel, news>>
                               [] order = "bare" -> <<<<"empty">>, news>>
                               [] order = "after" -> <<<<"empty">>, news, sel>>)
       /\ UNCHANGED <<asked, pic, gesture, told, breaks>>

\* .uno:TransformDialog acts on the selected shape, which is told anew.
KitTransforms ==
    LET c == Head(asked)
        s == obj.selected
    IN /\ asked # <<>> /\ asked' = Tail(asked)
       /\ obj' = IF s = NoShape \/ c[1] # "place" THEN obj ELSE [obj EXCEPT !.place[s] = c[2]]
       /\ heard' = IF s = NoShape THEN heard ELSE Append(heard, Selection(s, obj'.place))
       /\ UNCHANGED <<pic, gesture, told, picTurns, breaks>>

-----------------------------------------------------------------------------
(* The marker.                                                             *)

\* _onUpdateGraphicSelection: a new marker for the selection, if there is one
\* and it may be edited; the old one is taken off the map first.
MarkerOf(p) ==
    [p EXCEPT !.marker = IF p.sel = NoShape THEN "none"
                         ELSE IF p.edit THEN "live"
                         ELSE IF p.marker = "none" THEN "none" ELSE "removed",
              !.dir = "none"]

\* The gesture on a marker that is taken off: its listeners go with it, and
\* with them what would let the map be dragged again.
Interrupted(g) == [g EXCEPT !.live = FALSE]

\* With a slip: the new marker goes on with the gesture of the old one.
UpdateMarkerInDrag(p) ==
    /\ pic' = MarkerOf(p)
    /\ UNCHANGED <<gesture, breaks>>

UpdateMarker(p) ==
    /\ pic' = MarkerOf(p)
    /\ gesture' = Interrupted(gesture)
    /\ breaks' = IF gesture.live /\ gesture.pans THEN breaks \cup {"interrupted"} ELSE breaks

\* _resetSelectionRanges
ResetSelectionRanges(p) ==
    [p EXCEPT !.sel = NoShape, !.bounds = <<0, 0>>, !.twips = <<0, 0>>, !.delay = FALSE]

\* addObjectFocusDarkOverlay and removeObjectFocusDarkOverlay
Darkened(p) == [p EXCEPT !.dark = TRUE]
Lit(p) == [p EXCEPT !.dark = FALSE]

\* With a slip: the wait for the selection outlasts the editing.
ExitInPlaceOnly == UpdateMarker(Lit(pic))

\* "graphicselection: INPLACE EXIT"
ExitInPlace == UpdateMarker([Lit(pic) EXCEPT !.delay = FALSE])

\* "graphicselection: INPLACE"; without a selection the frame has to wait.
EnterInPlace ==
    \/ /\ pic.dark
       /\ UpdateMarker(pic)
    \/ /\ ~pic.dark /\ pic.sel = NoShape
       /\ pic' = [pic EXCEPT !.delay = TRUE]
       /\ UNCHANGED <<gesture, breaks>>
    \/ /\ ~pic.dark /\ pic.sel # NoShape
       /\ UpdateMarker(ResetSelectionRanges(Darkened(pic)))

\* "graphicselection: EMPTY"
EmptySelection == UpdateMarker(ResetSelectionRanges(pic))

\* "graphicselection: x, y, width, height, ..."
NewSelection(s, span) ==
    LET p == [pic EXCEPT !.sel = s, !.bounds = span, !.twips = span]
    IN UpdateMarker(IF pic.delay THEN [Darkened(p) EXCEPT !.delay = FALSE] ELSE p)

\* _onGraphicSelectionMsg
GraphicSelectionMsg ==
    LET m == Head(heard)
    IN /\ heard # <<>> /\ heard' = Tail(heard)
       /\ CASE m[1] = "empty" -> EmptySelection
            [] m[1] = "exit" -> ExitInPlace
            [] m[1] = "inplace" -> EnterInPlace
            [] m[1] = "selection" -> NewSelection(m[2], m[3])
       /\ UNCHANGED <<obj, asked, told, picTurns>>

-----------------------------------------------------------------------------
(* Permission.                                                             *)

\* _enterEditMode
EnterEditMode(device) ==
    /\ pic.device \in {"unknown", device} /\ ~pic.edit
    /\ pic' = [pic EXCEPT !.device = device, !.edit = TRUE,
                          !.pans = IF device = "touch" THEN @ ELSE FALSE]
    /\ UNCHANGED <<obj, heard, asked, gesture, told, picTurns, breaks>>

\* _enterReadOnlyMode, and the _clearSelections it makes
EnterReadOnlyMode ==
    /\ PicTurn
    /\ pic.edit
    /\ UpdateMarker([pic EXCEPT !.edit = FALSE, !.pans = TRUE, !.sel = NoShape])
    /\ UNCHANGED <<obj, heard, asked, told>>

-----------------------------------------------------------------------------
(* Gestures.                                                               *)

Low(span) == IF span[1] <= span[2] THEN span[1] ELSE span[2]
High(span) == IF span[1] <= span[2] THEN span[2] ELSE span[1]
Middle(span) == (span[1] + span[2]) \div 2

\* _getPoints
HandleAt(span, handle) ==
    CASE handle = "lo" -> Low(span) [] handle = "hi" -> High(span) [] OTHER -> Middle(span)

\* The handle (index + 4) % 8 stays where it is.
Opposite(handle) == CASE handle = "lo" -> "hi" [] handle = "hi" -> "lo" [] OTHER -> "mid"

\* _getMirroredIndex
MirroredIndex(handle, flipped) == IF flipped THEN Opposite(handle) ELSE handle

\* _onScale: where the handle goes when the pointer is at p.
ScaledTo(span, handle, steady, p) ==
    LET origin == HandleAt(span, Opposite(handle))
        active == HandleAt(span, handle)
        far == IF p >= origin THEN p - origin ELSE origin - p
    IN IF origin = active THEN active
       ELSE IF ~steady THEN p
       ELSE IF active > origin THEN origin + far ELSE origin - far

\* The transformed corners of the shape.
Scaled(span, handle, steady, p) ==
    LET origin == HandleAt(span, Opposite(handle))
        q == ScaledTo(span, handle, steady, p)
    IN IF origin = HandleAt(span, handle) THEN span
       ELSE IF q < origin THEN <<q, origin>> ELSE <<origin, q>>

\* _onGraphicEdit "scalestart": which side is dragged
DragDir(twips, at) ==
    IF twips[1] = twips[2] THEN "both"
    ELSE IF at = twips[1] THEN "lo"
    ELSE IF at = twips[2] THEN "hi"
    ELSE "none"

\* With a slip: the side that stays is taken from the pointer.
PosAndSizeSwapped(twips, dir, at) ==
    CASE dir = "hi" -> <<at, at - twips[1]>>
      [] dir = "lo" -> <<at, twips[2] - at>>
      [] dir = "both" -> <<Middle(twips), at - Middle(twips)>>
      [] OTHER -> <<twips[1], twips[2] - twips[1]>>

\* _onGraphicEdit "scaleend", computePosAndSize
PosAndSize(twips, dir, at) ==
    CASE dir = "both" -> LET size == IF at > Middle(twips) THEN at - Middle(twips) ELSE Middle(twips) - at
                         IN <<IF at > Middle(twips) THEN Middle(twips) ELSE Middle(twips) - size, size>>
      [] dir = "lo" -> <<at, (twips[2] - twips[1]) + (twips[1] - at)>>
      [] dir = "hi" -> <<twips[1], (twips[2] - twips[1]) + (at - twips[2])>>
      [] OTHER -> <<twips[1], twips[2] - twips[1]>>

\* "try to keep shape inside document"
Inside(pos, size) ==
    LET p == IF pos + size > DocWidth THEN DocWidth - size ELSE pos
    IN IF p < 0 THEN <<0, size>> ELSE <<p, p + size>>

Sorted(span) == <<Low(span), High(span)>>

\* The map does not move with the shape.
Hold(kind, handle, at) ==
    /\ PicTurn
    /\ gesture.kind = "none" /\ pic.marker = "live"
    /\ gesture' = [kind |-> kind, shape |-> pic.sel, handle |-> handle, from |-> at, live |-> TRUE,
                   pans |-> pic.pans]
    /\ breaks' = IF pic.bounds # pic.twips THEN breaks \cup {"early"} ELSE breaks
    /\ UNCHANGED <<obj, heard, asked, told>>

\* SVGGroup._onDragStart, PathDrag._onDragStart and _onGraphicMove "graphicmovestart"
MoveStart(at) ==
    /\ at \in Points /\ Low(pic.bounds) <= at /\ at <= High(pic.bounds)
    /\ Hold("move", "mid", at)
    /\ pic' = [pic EXCEPT !.pans = FALSE]

\* _onScaleStart and _onGraphicEdit "scalestart"
ScaleStart(handle) ==
    LET at == HandleAt(pic.bounds, handle)
        d == DragDir(pic.twips, at)
    IN /\ at \in Points
       /\ Hold("scale", handle, at)
       /\ pic' = [pic EXCEPT !.pans = FALSE, !.dir = IF d = "none" THEN @ ELSE d]

\* _onRotateStart
RotateStart ==
    /\ Hold("rotate", "mid", 0)
    /\ pic' = [pic EXCEPT !.pans = FALSE]

\* With a slip: the map is left as it is after the gesture.
LetGoHeld(drawn, command) ==
    /\ gesture' = Idle
    /\ asked' = asked \o command
    /\ pic' = [pic EXCEPT !.bounds = drawn, !.dir = "none"]
    /\ UNCHANGED <<obj, heard, told, picTurns, breaks>>

\* The button is let go of; the marker goes where it was drawn, and the map
\* can be dragged again.
LetGo(drawn, command) ==
    /\ gesture' = Idle
    /\ asked' = asked \o command
    /\ pic' = [pic EXCEPT !.bounds = drawn, !.dir = "none",
                          !.pans = IF gesture.pans THEN TRUE ELSE @]
    /\ told' = IF command # <<>> /\ command[1][1] = "place"
               THEN [drawn |-> Sorted(drawn), sent |-> Sorted(command[1][2]),
                     of |-> gesture.shape, for |-> pic.sel]
               ELSE told
    /\ UNCHANGED <<obj, heard, picTurns, breaks>>

\* SVGGroup._onDragEnd, _onGraphicMove "graphicmoveend" and PathDrag._onDragEnd
MoveEnd(at) ==
    LET delta == at - gesture.from
        low == pic.twips[1] + delta
    IN /\ gesture.kind = "move" /\ gesture.live
       /\ LetGo(<<pic.bounds[1] + delta, pic.bounds[2] + delta>>,
                IF delta = 0 THEN <<>>
                ELSE IF pic.sel \in Pies THEN <<<<"offset">>>>
                ELSE <<<<"place", Inside(low, pic.twips[2] - pic.twips[1])>>>>)

\* _onScaleEnd, _apply and _onGraphicEdit "scaleend"
ScaleEnd(at) ==
    LET steady == pic.sel \in Steady
        to == ScaledTo(pic.bounds, gesture.handle, steady, at)
        drawn == Scaled(pic.bounds, gesture.handle, steady, at)
        origin == HandleAt(pic.bounds, Opposite(gesture.handle))
        active == HandleAt(pic.bounds, gesture.handle)
        flipped == (active > origin /\ to < origin) \/ (active < origin /\ to > origin)
        new == PosAndSize(pic.twips, pic.dir, HandleAt(drawn, MirroredIndex(gesture.handle, flipped)))
    IN /\ gesture.kind = "scale" /\ gesture.live
       /\ LetGo(drawn, <<<<"place", Sorted(Inside(new[1], new[2]))>>>>)

\* _onRotateEnd, _apply and _onGraphicRotate "rotateend"
RotateEnd ==
    /\ gesture.kind = "rotate" /\ gesture.live
    /\ LetGo(pic.bounds, <<<<"rotate">>>>)

\* The button is let go of when the marker it was pressed on has been removed.
LateEnd ==
    /\ gesture.kind # "none" /\ ~gesture.live
    /\ gesture' = Idle
    /\ UNCHANGED <<obj, heard, asked, pic, told, picTurns, breaks>>

-----------------------------------------------------------------------------

PicNext ==
    \/ \E device \in {"mouse", "touch"} : EnterEditMode(device)
    \/ EnterReadOnlyMode
    \/ \E s \in Shapes \cup {NoShape} : KitSelects(s)
    \/ \E order \in {"alone", "before", "bare", "after"} : KitInPlace(order)
    \/ KitTransforms
    \/ GraphicSelectionMsg
    \/ \E at \in Points : MoveStart(at) \/ MoveEnd(at) \/ ScaleEnd(at)
    \/ \E handle \in {"lo", "mid", "hi"} : ScaleStart(handle)
    \/ RotateStart
    \/ RotateEnd
    \/ LateEnd

PicSpec == PicInit /\ [][PicNext]_picVars

-----------------------------------------------------------------------------
(* Properties.                                                             *)

\* What the kit is asked for is what the user saw when he let the shape go,
\* pushed back into the document: the size that computePosAndSize works out
\* from the handle is the one that the matrix of _onScale drew, on whichever
\* side of the fixed handle the pointer ended.  Not so for a gesture begun
\* before the previous one was answered (TileLayer.js:2185, 2270, 2295).
AskedIsDrawn ==
    "early" \notin breaks
        => told.sent = Inside(told.drawn[1], told.drawn[2] - told.drawn[1])

\* A gesture that begins on one shape never ends in a command for another,
\* although a message may replace the selection in the middle of it
\* (TileLayer.js:2638, SVGGroup.js:97).
GestureKeepsItsShape == told.of = told.for

\* When no button is held the map can be dragged where the permission and the
\* device let it be, unless a message took the marker off in the middle of a
\* gesture (Path.Drag.js:134, Path.Transform.js:616, Permission.js:85).
MapCanBeDragged ==
    gesture.kind = "none" /\ (pic.device = "touch" \/ ~pic.edit)
        => pic.pans \/ "interrupted" \in breaks

\* The dark frame is there only while an object is edited in place, however
\* the messages that begin and end it mix with those that select
\* (TileLayer.js:881, 891, 922).
DarkOnlyInPlace ==
    heard = <<>> /\ ~obj.inplace => ~pic.dark /\ ~pic.delay

=============================================================================
