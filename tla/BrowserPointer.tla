---------------------------- MODULE BrowserPointer ----------------------------
(***************************************************************************)
(* What the browser makes of the mouse and of fingers: clicks, presses and *)
(* drags become messages for the kit, after timers that tell a click from  *)
(* a press and a double click from two clicks.  The timers, the listeners  *)
(* outside the map and the scrolling at its edge outlive the event that    *)
(* started them, and the next event may come first.                        *)
(*                                                                         *)
(* Events are numbered, so that it can be said in which order the kit gets *)
(* what they cause.  Time is what has certainly passed: Pause stands for   *)
(* more than the 250 ms in which a second click counts as a double click.  *)
(***************************************************************************)
EXTENDS Naturals, Sequences

CONSTANT MaxHandTurns    \* bound: events of the mouse and of fingers

VARIABLES
    hand,        \* the mouse: button and place, and the browser's count of clicks
    pointer,     \* Map.Mouse, with the map's and the bar's state it uses
    tap,         \* Map.Tap: fingers
    kitMouse,    \* what the kit has been told
    handTurns,   \* events so far
    misses       \* history: the named holes that have been met

pointerVars == <<hand, pointer, tap, kitMouse, handTurns, misses>>

Item(type, stamp) == [type |-> type, stamp |-> stamp]

\* The values the variables take.
PointerTypeOK ==
    /\ hand.down \in BOOLEAN /\ hand.at \in {"middle", "edge", "outside"} /\ hand.clicks \in 0..4
    /\ hand.soon \in BOOLEAN
    /\ pointer.perm \in {"view", "edit"} /\ pointer.dragging \in BOOLEAN /\ pointer.enabled \in BOOLEAN
    /\ pointer.mouseDown \in BOOLEAN /\ pointer.hold \in {"none", "press", "click"} /\ pointer.recent \in BOOLEAN
    /\ pointer.count \in 0..MaxHandTurns /\ pointer.hears \in BOOLEAN /\ pointer.mouseOut \in BOOLEAN
    /\ pointer.auto \in BOOLEAN /\ pointer.hover \in 0..MaxHandTurns /\ pointer.box \in {"none", "armed", "shown"}
    /\ \A i \in DOMAIN pointer.queue : pointer.queue[i] \in [type : {"down", "up"}, stamp : 0..MaxHandTurns]
    /\ tap.fingers \in 0..2 /\ tap.listens \in BOOLEAN /\ tap.hold \in BOOLEAN /\ tap.moved \in BOOLEAN
    /\ tap.bar \in BOOLEAN /\ tap.still \in BOOLEAN
    /\ kitMouse.pressed \in BOOLEAN /\ kitMouse.last \in 0..MaxHandTurns /\ kitMouse.late \in BOOLEAN
    /\ handTurns \in 0..MaxHandTurns
    /\ misses \subseteq {"flick", "held", "slow", "hover", "unheard", "reentered", "disabled", "switched"}

-----------------------------------------------------------------------------
(* Messages to the kit.                                                    *)

\* _postMouseEvent.
PostMouseEvent(k, type, stamp) ==
    [pressed |-> CASE type = "down" -> TRUE [] type = "up" -> FALSE [] type = "move" -> k.pressed,
     last |-> IF stamp > k.last THEN stamp ELSE k.last,
     late |-> k.late \/ stamp < k.last]

\* With a slip: nothing after the first event.
RunQueueHead(k, queue) == IF queue = <<>> THEN k ELSE PostMouseEvent(k, queue[1].type, queue[1].stamp)

\* _executeMouseEvents, and the loop of a move: a release empties the queue, and with it ends the
\* loop that goes through it.  Of what is sent each comes late if something after it was sent before.
RunQueue(k, queue) ==
    LET sent == {i \in DOMAIN queue : \A j \in 1..(i - 1) : queue[j].type = "down"}
        stamps == {k.last} \cup {queue[i].stamp : i \in sent}
    IN  [pressed |-> IF queue = <<>> THEN k.pressed ELSE \A i \in DOMAIN queue : queue[i].type = "down",
         last |-> CHOOSE s \in stamps : \A other \in stamps : other <= s,
         late |-> \/ k.late
                  \/ \E i \in sent : \/ queue[i].stamp < k.last
                                     \/ \E j \in sent : j < i /\ queue[i].stamp < queue[j].stamp]

-----------------------------------------------------------------------------
(* _onMouseEvent.  Each takes what it changes and gives it back; k is what  *)
(* the kit has been told.                                                  *)

\* _handleDOMEvent: the map takes no event while a window is in front of it.  (Nor does Map.Mouse
\* while a shape or a handle is dragged, which has a module of its own, BrowserGraphic.)
Takes(p) == p.enabled

\* The rest of it, with _isMouseEnteringLeaving: the mouse leaves the map or comes back over a tile.
Leaving(p, tile) == Takes(p) /\ tile /\ ~p.mouseOut
Entering(p, tile) == Takes(p) /\ tile /\ p.mouseOut

\* _onHandleAutoScroll, _onScrollVelocity: at the edge of the map the view scrolls until told to stop.
AutoScroll(p, place) == [p EXCEPT !.auto = place = "edge"]

\* mousedown: it is a press when nothing happens for 500 ms.
OnMouseDown(p, stamp) ==
    [p EXCEPT !.mouseDown = TRUE, !.hold = "press", !.queue = Append(@, Item("down", stamp))]

\* mouseup soon after a click: a double click, which the browser tells of by itself.
DoubleClick(p) == [p EXCEPT !.queue = <<>>, !.count = @ + 1]

\* With a slip: scrolling at the edge goes on.
SingleClickScrolls(p, stamp) ==
    [p EXCEPT !.recent = TRUE, !.count = 1, !.queue = Append(@, Item("up", stamp)), !.hold = "click"]

\* mouseup otherwise: the release is sent a moment later.
SingleClick(p, stamp) ==
    [p EXCEPT !.recent = TRUE, !.count = 1, !.queue = Append(@, Item("up", stamp)), !.hold = "click", !.auto = FALSE]

\* mouseup; when dragging moves the map, one with nothing in the queue ends such a move.
OnMouseUp(p, stamp) ==
    LET u == [p EXCEPT !.mouseDown = FALSE] IN
    IF p.dragging /\ p.queue = <<>> THEN u
    ELSE IF p.recent THEN DoubleClick([u EXCEPT !.hold = "none"])
    ELSE SingleClick(u, stamp)

\* mousemove with the button down: what waits is sent first - unless the map is being moved.
DraggedPointer(p, place) ==
    LET q == IF p.hold = "none" THEN p ELSE [p EXCEPT !.hold = "none", !.queue = <<>>] IN
    IF p.dragging THEN q ELSE AutoScroll(q, place)

\* With a slip: the press that waits is sent after the move.
DraggedKitMoveFirst(p, k, stamp) ==
    IF p.dragging THEN k
    ELSE LET m == PostMouseEvent(k, "move", stamp) IN IF p.hold = "none" THEN m ELSE RunQueue(m, p.queue)

DraggedKit(p, k, stamp) ==
    IF p.dragging THEN k
    ELSE PostMouseEvent(IF p.hold = "none" THEN k ELSE RunQueue(k, p.queue), "move", stamp)

\* addMultiClickListener: a third and a fourth click, each soon after the one before.
MultiClicks(p, clicks) == p.recent /\ clicks \in {2, 3}

\* dblclick, trplclick, qdrplclick: at once.
MultiClickKit(k, stamp) == PostMouseEvent(PostMouseEvent(k, "down", stamp), "up", stamp)

-----------------------------------------------------------------------------
PointerInit ==
    /\ hand = [down |-> FALSE, at |-> "middle", clicks |-> 0, soon |-> FALSE]
    /\ pointer = [perm |-> "view", dragging |-> TRUE, enabled |-> TRUE, mouseDown |-> FALSE, queue |-> <<>>,
                  hold |-> "none", recent |-> FALSE, count |-> 0, hears |-> FALSE, mouseOut |-> FALSE,
                  auto |-> FALSE, hover |-> 0, box |-> "none"]
    /\ tap = [fingers |-> 0, listens |-> FALSE, hold |-> FALSE, moved |-> FALSE, still |-> FALSE, bar |-> FALSE]
    /\ kitMouse = [pressed |-> FALSE, last |-> 0, late |-> FALSE]
    /\ handTurns = 0 /\ misses = {}

HandTurn == handTurns < MaxHandTurns /\ handTurns' = handTurns + 1
Miss(what, when) == IF when THEN {what} ELSE {}

\* The box that is drawn with the shift key.
BoxDown(p, shift) == IF shift THEN [p EXCEPT !.box = "armed"] ELSE p
BoxMove(p) == [p EXCEPT !.box = IF @ = "armed" THEN "shown" ELSE @]
BoxOff(p) == [p EXCEPT !.box = "none"]

\* The button goes down over the map.
HandPresses ==
    /\ HandTurn /\ ~hand.down /\ hand.at # "outside" /\ tap.fingers = 0
    /\ hand' = [hand EXCEPT !.down = TRUE]
    /\ \E shift \in BOOLEAN :
        pointer' = BoxDown(IF Takes(pointer) THEN OnMouseDown(pointer, handTurns') ELSE pointer, shift)
    /\ UNCHANGED <<tap, kitMouse, misses>>

\* The button goes up: the map hears of it when it is over the map, and the listeners outside
\* (_onMouseUpOutside) wherever it is, as long as they are there; so it may be handled twice.  The
\* browser adds a click, and a double click for the second one in a while - which is longer than
\* the 250 ms the map counts with.
HandReleases ==
    /\ HandTurn /\ hand.down
    /\ LET inside == hand.at # "outside" /\ Takes(pointer)
           b == BoxOff(pointer)
           first == IF inside THEN OnMouseUp(b, handTurns') ELSE b
           off == IF b.hears THEN [first EXCEPT !.mouseDown = FALSE, !.hears = FALSE] ELSE first
           again == IF b.hears /\ Takes(pointer) THEN OnMouseUp(off, handTurns') ELSE off
           double == inside /\ hand.soon /\ hand.clicks = 1
           more == inside /\ MultiClicks(pointer, hand.clicks)
       IN  /\ pointer' = again
           /\ kitMouse' = IF double \/ more THEN MultiClickKit(kitMouse, handTurns') ELSE kitMouse
           /\ hand' = [hand EXCEPT !.down = FALSE, !.soon = inside,
                                   !.clicks = IF ~inside THEN 0 ELSE IF hand.soon /\ @ < 4 THEN @ + 1 ELSE 1]
           /\ misses' = misses \cup Miss("flick", pointer.recent /\ (pointer.hold = "none" \/ Head(pointer.queue).type = "up"))
                               \cup Miss("held", pointer.dragging /\ pointer.queue = <<>> /\ kitMouse.pressed)
                               \cup Miss("slow", double /\ ~pointer.recent)
                               \cup Miss("unheard", ~inside /\ ~pointer.hears)
                               \cup Miss("reentered", inside /\ pointer.hears)
                               \cup Miss("disabled", ~pointer.enabled)
    /\ UNCHANGED tap

\* The mouse moves over the map; without the button it is a while before the kit is told.
HandMoves ==
    /\ HandTurn /\ hand.at # "outside" /\ tap.fingers = 0
    /\ \E place \in {"middle", "edge"} :
        LET b == BoxMove(pointer) IN
        /\ hand' = [hand EXCEPT !.at = place]
        /\ IF ~Takes(pointer) THEN pointer' = b /\ UNCHANGED kitMouse
           ELSE IF pointer.mouseDown
           THEN /\ pointer' = DraggedPointer(b, place)
                /\ kitMouse' = DraggedKit(b, kitMouse, handTurns')
           ELSE /\ pointer' = [b EXCEPT !.hover = handTurns']
                /\ UNCHANGED kitMouse
    /\ UNCHANGED <<tap, misses>>

\* The mouse leaves the map or comes back, over a tile or over the space around the document: only
\* the first is noticed.  Outside, what the mouse does is listened to
\* while the button is down.
HandLeaves ==
    /\ HandTurn /\ hand.at # "outside" /\ tap.fingers = 0
    /\ \E tile \in BOOLEAN :
        LET noticed == Leaving(pointer, tile) IN
        pointer' = [pointer EXCEPT !.mouseOut = @ \/ noticed, !.hears = @ \/ (noticed /\ pointer.mouseDown)]
    /\ hand' = [hand EXCEPT !.at = "outside"]
    /\ UNCHANGED <<tap, kitMouse, misses>>

HandEnters ==
    /\ HandTurn /\ hand.at = "outside"
    /\ \E tile \in BOOLEAN :
        LET noticed == Entering(pointer, tile) IN
        pointer' = [pointer EXCEPT !.mouseOut = @ /\ ~noticed, !.hears = @ /\ ~(noticed /\ pointer.mouseDown)]
    /\ hand' = [hand EXCEPT !.at = "edge"]
    /\ UNCHANGED <<tap, kitMouse, misses>>

\* _onMouseMoveOutside: the map hears of it as of a move at its edge.
HandMovesOutside ==
    /\ HandTurn /\ hand.at = "outside" /\ pointer.hears /\ Takes(pointer)
    /\ pointer' = IF pointer.mouseDown THEN DraggedPointer(pointer, "edge") ELSE [pointer EXCEPT !.hover = handTurns']
    /\ kitMouse' = IF pointer.mouseDown THEN DraggedKit(pointer, kitMouse, handTurns') ELSE kitMouse
    /\ UNCHANGED <<hand, tap, misses>>

\* The timers.  That of a press is longer than the time in which a second click is a double click.
HoldTimer ==
    /\ pointer.hold # "none"
    /\ pointer.hold = "press" => ~pointer.recent
    /\ pointer' = [pointer EXCEPT !.hold = "none", !.queue = <<>>]
    /\ kitMouse' = RunQueue(kitMouse, pointer.queue)
    /\ UNCHANGED <<hand, tap, handTurns, misses>>

HoverTimer ==
    /\ pointer.hover # 0
    /\ pointer' = [pointer EXCEPT !.hover = 0]
    /\ kitMouse' = PostMouseEvent(kitMouse, "move", pointer.hover)
    /\ misses' = misses \cup Miss("hover", pointer.hover < kitMouse.last \/ pointer.queue # <<>>)
    /\ UNCHANGED <<hand, tap, handTurns>>

\* More than 250 ms without anything; the browser may still see a double click in what follows.
Pause ==
    /\ pointer.recent /\ pointer.hold # "click"
    /\ pointer' = [pointer EXCEPT !.recent = FALSE]
    /\ \E soon \in {hand.soon, FALSE} :
        hand' = [hand EXCEPT !.soon = soon, !.clicks = IF soon /\ @ = 1 THEN 1 ELSE 0]
    /\ UNCHANGED <<tap, kitMouse, handTurns, misses>>

\* _enterEditMode, _enterReadOnlyMode: with a mouse there is no dragging of the map while editing.
Permits ==
    /\ HandTurn
    /\ LET perm == IF pointer.perm = "edit" THEN "view" ELSE "edit" IN
        \E touch \in BOOLEAN :
            pointer' = [pointer EXCEPT !.perm = perm, !.dragging = IF perm = "view" THEN TRUE ELSE IF touch THEN @ ELSE FALSE]
    /\ misses' = misses \cup Miss("switched", pointer.mouseDown \/ pointer.hold # "none")
    /\ UNCHANGED <<hand, tap, kitMouse>>

\* enableSelection, disableSelection: a reader switches between selecting and moving the map.
SwitchesSelection ==
    /\ HandTurn /\ pointer.perm # "edit"
    /\ pointer' = [pointer EXCEPT !.dragging = ~@]
    /\ misses' = misses \cup Miss("switched", pointer.mouseDown \/ pointer.hold # "none")
    /\ UNCHANGED <<hand, tap, kitMouse>>

\* enable: a window in front of the map.
EnablesPointer ==
    /\ HandTurn
    /\ pointer' = [pointer EXCEPT !.enabled = ~@]
    /\ misses' = misses \cup Miss("disabled", pointer.mouseDown \/ pointer.hold # "none" \/ tap.listens)
    /\ UNCHANGED <<hand, tap, kitMouse>>

-----------------------------------------------------------------------------
(* Fingers.                                                                *)

\* _onDown: a finger on what is selected asks for a toolbar only; a second finger makes it no tap.
FingerDown ==
    /\ HandTurn /\ ~hand.down /\ tap.fingers < 2
    /\ IF tap.fingers = 1 THEN tap' = [tap EXCEPT !.fingers = 2, !.hold = FALSE] /\ UNCHANGED pointer
       ELSE \E selected \in BOOLEAN :
            IF selected /\ ~tap.bar THEN tap' = [tap EXCEPT !.fingers = 1, !.bar = TRUE] /\ UNCHANGED pointer
            ELSE /\ tap' = [tap EXCEPT !.fingers = 1, !.bar = FALSE, !.hold = TRUE, !.listens = TRUE, !.moved = FALSE, !.still = TRUE]
                 /\ pointer' = IF Takes(pointer) THEN OnMouseDown(pointer, handTurns') ELSE pointer
    /\ UNCHANGED <<hand, kitMouse, misses>>

\* _onMove, beyond what counts as still.
FingerMoves ==
    /\ HandTurn /\ tap.listens
    /\ tap' = [tap EXCEPT !.moved = TRUE]
    /\ IF ~Takes(pointer) THEN UNCHANGED <<pointer, kitMouse>>
       ELSE IF pointer.mouseDown
       THEN pointer' = DraggedPointer(pointer, "middle") /\ kitMouse' = DraggedKit(pointer, kitMouse, handTurns')
       ELSE pointer' = [pointer EXCEPT !.hover = handTurns'] /\ UNCHANGED kitMouse
    /\ UNCHANGED <<hand, misses>>

\* _onUp, first part.
TapOff(t) == [t EXCEPT !.hold = FALSE, !.listens = FALSE]

\* The end of a touch: _onUp.
FingerUp ==
    /\ HandTurn /\ tap.fingers > 0
    /\ tap' = [IF tap.listens THEN TapOff(tap) ELSE tap EXCEPT !.fingers = @ - 1]
    /\ pointer' = IF tap.listens /\ Takes(pointer) THEN OnMouseUp(pointer, handTurns') ELSE pointer
    /\ misses' = misses \cup (IF tap.listens /\ Takes(pointer)
                              THEN Miss("flick", pointer.recent /\ (pointer.hold = "none" \/ Head(pointer.queue).type = "up"))
                                   \cup Miss("held", pointer.dragging /\ pointer.queue = <<>> /\ kitMouse.pressed)
                              ELSE {})
    /\ UNCHANGED <<hand, kitMouse>>

\* A second: a finger that was still makes a double click.
TapTimer ==
    /\ tap.hold /\ ~pointer.recent /\ pointer.hold # "press"
    /\ IF tap.moved THEN tap' = [tap EXCEPT !.hold = FALSE, !.still = FALSE] /\ UNCHANGED <<pointer, kitMouse>>
       ELSE /\ tap' = [TapOff(tap) EXCEPT !.still = FALSE]
            /\ pointer' = IF Takes(pointer) THEN OnMouseUp(pointer, handTurns) ELSE pointer
            /\ kitMouse' = IF Takes(pointer) THEN MultiClickKit(kitMouse, handTurns) ELSE kitMouse
    /\ UNCHANGED <<hand, handTurns, misses>>

PointerNext ==
    \/ HandPresses
    \/ HandReleases
    \/ HandMoves
    \/ HandLeaves
    \/ HandEnters
    \/ HandMovesOutside
    \/ HoldTimer
    \/ HoverTimer
    \/ Pause
    \/ Permits
    \/ SwitchesSelection
    \/ EnablesPointer
    \/ FingerDown
    \/ FingerMoves
    \/ FingerUp
    \/ TapTimer

PointerSpec == PointerInit /\ [][PointerNext]_pointerVars

-----------------------------------------------------------------------------
(* Properties.                                                             *)

\* Nobody touches anything, and no timer is to come.
HandsOff == ~hand.down /\ tap.fingers = 0 /\ pointer.hold = "none" /\ pointer.hover = 0

\* The kit never keeps the button pressed when nobody presses one - unless a drag ended within
\* 250 ms of a click, or a click within 250 ms of a drag ("flick"), a press without a move ended
\* while dragging moves the map ("held"), the mouse left over the space around the document
\* ("unheard") or came back over it ("reentered"), or a window came in front ("disabled").
ButtonIsReleased ==
    HandsOff /\ kitMouse.pressed => misses \cap {"flick", "held", "unheard", "reentered", "disabled"} # {}

\* The kit gets what events cause in the order of the events - unless a double click was slow, so
\* that it is told of before its second click ("slow"), or the timer of an earlier move came late
\* ("hover").
OrderIsKept == kitMouse.late => misses \cap {"slow", "hover"} # {}

\* When nobody touches anything, nothing goes on: the view does not scroll by itself, no box is
\* drawn, and neither the mouse outside the map nor a finger is listened to - unless the end of the
\* gesture was taken for something else ("flick"), was not heard of ("unheard", "disabled"), or
\* what dragging means was switched in the middle ("switched").
NothingGoesOn ==
    HandsOff => /\ pointer.box = "none" /\ ~tap.listens /\ ~tap.hold
                /\ pointer.auto \/ pointer.hears =>
                       misses \cap {"flick", "unheard", "disabled", "switched"} # {}

=============================================================================
