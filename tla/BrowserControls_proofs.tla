------------------------ MODULE BrowserControls_proofs ------------------------
(***************************************************************************)
(* Proofs about the parts of the browser client around the document: of    *)
(* mouse, fingers and keyboard nothing is lost, doubled or out of order,   *)
(* in every behaviour and for every bound.                                 *)
(*                                                                         *)
(* The invariant of mouse and fingers says, of what waits for a timer, of  *)
(* the button as the map knows it and of the button as the kit knows it,   *)
(* how each follows the other; that of the keyboard, that AltGr is taken   *)
(* for what it is. That of the dialogs is in BrowserDialogs_proofs.        *)
(***************************************************************************)
EXTENDS BrowserControls, BrowserDialogs_proofs

-----------------------------------------------------------------------------
(* Mouse and fingers: the inductive invariant.                             *)

Items == [type : {"down", "up"}, stamp : Nat]
Hands == [down : BOOLEAN, at : {"middle", "edge", "outside"}, clicks : 0..4, soon : BOOLEAN]
Pointers ==
    [perm : {"view", "edit"}, dragging : BOOLEAN, enabled : BOOLEAN, mouseDown : BOOLEAN,
     queue : Seq(Items), hold : {"none", "press", "click"}, recent : BOOLEAN, count : Nat,
     hears : BOOLEAN, mouseOut : BOOLEAN, auto : BOOLEAN, hover : Nat,
     box : {"none", "armed", "shown"}]
Taps == [fingers : 0..2, listens : BOOLEAN, hold : BOOLEAN, moved : BOOLEAN, still : BOOLEAN,
         bar : BOOLEAN]
KitMice == [pressed : BOOLEAN, last : Nat, late : BOOLEAN]

\* None of the named holes has been met.
Calm(excuses) == \A e \in excuses : e \notin misses

\* What a queue of events holds, and when.
FirstIsUp(q) == q # <<>> /\ q[1].type = "up"
HasUp(q) == \E i \in DOMAIN q : q[i].type = "up"
NotAfter(q, n) == \A i \in DOMAIN q : q[i].stamp <= n
InOrderFrom(q, n) ==
    /\ \A i \in DOMAIN q : n <= q[i].stamp
    /\ \A i, j \in DOMAIN q : i < j => q[i].stamp <= q[j].stamp

PointerShape == hand \in Hands /\ pointer \in Pointers /\ tap \in Taps /\ kitMouse \in KitMice

\* Nothing is stamped with a time to come.
StampsArePast ==
    /\ handTurns \in Nat
    /\ NotAfter(pointer.queue, handTurns) /\ pointer.hover <= handTurns
    /\ kitMouse.last <= handTurns

\* Events wait exactly while a timer is set to send them, a release no longer than a double
\* click may come.
QueueIsHeld(p) ==
    /\ p.hold = "none" <=> p.queue = <<>>
    /\ p.hold = "click" => p.recent /\ HasUp(p.queue)

\* There is one gesture at a time, by the mouse or by fingers.
GestureIsOne ==
    /\ hand.down => tap.fingers = 0
    /\ tap.listens => tap.fingers > 0
    /\ tap.hold => tap.listens
    /\ pointer.box # "none" => hand.down

\* A button that is down for the map is down, and the map will hear of its release.
PressIsHeard ==
    Calm({"unheard", "disabled"}) =>
        /\ pointer.mouseDown => pointer.enabled /\ (hand.down \/ tap.listens)
        /\ pointer.hold = "press" => pointer.mouseDown
        /\ pointer.hears => hand.down

\* The view scrolls by itself only in a drag that has nothing waiting.
ScrollsInDrag ==
    Calm({"flick", "unheard", "disabled", "switched"}) /\ pointer.auto =>
        pointer.mouseDown /\ hand.down /\ pointer.hold = "none" /\ ~pointer.dragging

\* A press that the kit has been told of is going on, or its release is the first that waits.
PressWillEnd ==
    Calm({"flick", "held", "unheard", "reentered", "disabled"}) /\ kitMouse.pressed =>
        IF pointer.hold = "none" THEN pointer.mouseDown ELSE FirstIsUp(pointer.queue)

\* What waits comes after what the kit has been told, in the order of the events.
WaitsInOrder ==
    Calm({"slow", "hover"}) => ~kitMouse.late /\ InOrderFrom(pointer.queue, kitMouse.last)

PointerInv ==
    /\ PointerShape
    /\ StampsArePast
    /\ QueueIsHeld(pointer)
    /\ GestureIsOne
    /\ PressIsHeard
    /\ ScrollsInDrag
    /\ PressWillEnd
    /\ WaitsInOrder

-----------------------------------------------------------------------------
(* Queues.                                                                 *)

\* A set of numbers that are bounded has a greatest one.
LEMMA GreatestNumber ==
    ASSUME NEW S \in SUBSET Nat, S # {}, NEW b \in Nat, \A s \in S : s <= b
    PROVE  \E m \in S : \A s \in S : s <= m
<1> DEFINE T == {b - s : s \in S}
<1>1. T \in SUBSET Nat /\ T # {}
  <2>1. \A s \in S : s \in Nat /\ b - s \in Nat
    OBVIOUS
  <2> QED BY <2>1
<1>2. IsWellFoundedOn(OpToRel(<, Nat), Nat)
  BY NatLessThanWellFounded
<1>3. PICK d \in T : \A n \in T : ~ (<<n, d>> \in OpToRel(<, Nat))
  <2> HIDE DEF T
  <2> QED BY <1>1, <1>2, WFMin
<1>4. \A n \in T : ~(n < d)
  BY <1>1, <1>3 DEF OpToRel
<1>5. PICK m \in S : d = b - m
  OBVIOUS
<1>6. ASSUME NEW s \in S PROVE s <= m
  <2>1. b - s \in T /\ b - s \in Nat /\ b - m \in Nat
    OBVIOUS
  <2>2. ~(b - s < b - m)
    BY <1>4, <1>5, <2>1
  <2> QED BY <2>1, <2>2
<1> QED BY <1>6

\* Append: another event waits.
LEMMA AppendedWaits ==
    ASSUME NEW q \in Seq(Items), NEW type \in {"down", "up"}, NEW stamp \in Nat,
           NEW r, r = Append(q, Item(type, stamp))
    PROVE  /\ r \in Seq(Items) /\ r # <<>>
           /\ HasUp(r) <=> HasUp(q) \/ type = "up"
           /\ FirstIsUp(r) <=> IF q = <<>> THEN type = "up" ELSE FirstIsUp(q)
           /\ NotAfter(q, stamp) => NotAfter(r, stamp)
           /\ \A n \in Nat : NotAfter(q, stamp) /\ n <= stamp /\ InOrderFrom(q, n) => InOrderFrom(r, n)
<1>1. Item(type, stamp) \in Items /\ Item(type, stamp).type = type /\ Item(type, stamp).stamp = stamp
  BY DEF Item, Items
<1>2. /\ r \in Seq(Items) /\ Len(r) = Len(q) + 1 /\ Len(q) \in Nat
      /\ DOMAIN r = 1..Len(r) /\ DOMAIN q = 1..Len(q)
      /\ \A i \in 1..Len(q) : r[i] = q[i]
      /\ r[Len(q) + 1] = Item(type, stamp)
  BY <1>1
<1>3. r # <<>>
  BY <1>2
<1>4. HasUp(r) <=> HasUp(q) \/ type = "up"
  BY <1>1, <1>2 DEF HasUp
<1>5. FirstIsUp(r) <=> IF q = <<>> THEN type = "up" ELSE FirstIsUp(q)
  <2>1. CASE q = <<>>
    BY <1>1, <1>2, <1>3, <2>1 DEF FirstIsUp
  <2>2. CASE q # <<>>
    <3>1. Len(q) > 0
      BY <2>2
    <3> QED BY <1>2, <1>3, <2>2, <3>1 DEF FirstIsUp
  <2> QED BY <2>1, <2>2
<1>6. ASSUME NotAfter(q, stamp) PROVE NotAfter(r, stamp)
  <2>1. \A i \in 1..Len(q) : r[i].stamp <= stamp
    BY <1>2, <1>6 DEF NotAfter
  <2>2. r[Len(q) + 1].stamp <= stamp
    BY <1>1, <1>2
  <2>3. \A i \in 1..Len(r) : i \in 1..Len(q) \/ i = Len(q) + 1
    BY <1>2
  <2> QED BY <1>2, <2>1, <2>2, <2>3 DEF NotAfter
<1>7. \A i \in 1..Len(q) : q[i].stamp \in Nat
  <2>1. \A i \in 1..Len(q) : q[i] \in Items
    OBVIOUS
  <2> QED BY <2>1 DEF Items
<1>8. ASSUME NEW n \in Nat, NotAfter(q, stamp), n <= stamp, InOrderFrom(q, n)
      PROVE  InOrderFrom(r, n)
  BY <1>1, <1>2, <1>7, <1>8 DEF NotAfter, InOrderFrom
<1> QED
  BY <1>2, <1>3, <1>4, <1>5, <1>6, <1>8

\* PostMouseEvent: one message.
LEMMA PostFacts ==
    ASSUME NEW k \in KitMice, NEW type \in {"down", "up", "move"}, NEW stamp \in Nat,
           NEW r, r = PostMouseEvent(k, type, stamp)
    PROVE  /\ r \in KitMice
           /\ type = "move" => r.pressed = k.pressed
           /\ type = "down" => r.pressed
           /\ type = "up" => ~r.pressed
           /\ k.last <= stamp => r.late = k.late /\ r.last = stamp
           /\ \A n \in Nat : stamp <= n /\ k.last <= n => r.last <= n
<1> DEFINE pressed == CASE type = "down" -> TRUE [] type = "up" -> FALSE [] type = "move" -> k.pressed
           last == IF stamp > k.last THEN stamp ELSE k.last
           late == k.late \/ stamp < k.last
<1>1. r = [pressed |-> pressed, last |-> last, late |-> late]
  BY DEF PostMouseEvent
<1>2. k.last \in Nat /\ k.late \in BOOLEAN /\ k.pressed \in BOOLEAN
  BY DEF KitMice
<1>3. /\ type = "move" => pressed = k.pressed
      /\ type = "down" => pressed
      /\ type = "up" => ~pressed
  BY <1>2
<1>4. pressed \in BOOLEAN /\ late \in BOOLEAN
  BY <1>2, <1>3
<1>5. /\ last \in Nat
      /\ k.last <= stamp => late = k.late /\ last = stamp
      /\ \A n \in Nat : stamp <= n /\ k.last <= n => last <= n
  BY <1>2
<1> HIDE DEF pressed, late, last
<1>6. r \in KitMice /\ r.pressed = pressed /\ r.last = last /\ r.late = late
  BY <1>1, <1>4, <1>5 DEF KitMice
<1> QED BY <1>3, <1>5, <1>6

\* A release that is sent after all the rest.
LEMMA ReleasePosted ==
    ASSUME NEW k \in KitMice, NEW stamp \in Nat, k.last <= stamp,
           NEW r, r = PostMouseEvent(k, "up", stamp)
    PROVE  r \in KitMice /\ ~r.pressed /\ r.last = stamp /\ r.late = k.late
<1>1. r \in KitMice
  BY PostFacts
<1>2. ~r.pressed
  BY PostFacts
<1>3. r.last = stamp /\ r.late = k.late
  BY PostFacts
<1> QED BY <1>1, <1>2, <1>3

\* RunQueue: the queue is sent, up to its first release.
LEMMA RunQueueFacts ==
    ASSUME NEW k \in KitMice, NEW q \in Seq(Items), NEW n \in Nat,
           NotAfter(q, n), k.last <= n, NEW r, r = RunQueue(k, q)
    PROVE  /\ r \in KitMice /\ r.last <= n
           /\ r.pressed = IF q = <<>> THEN k.pressed ELSE ~HasUp(q)
           /\ InOrderFrom(q, k.last) => r.late = k.late
<1> DEFINE sent == {i \in DOMAIN q : \A j \in 1..(i - 1) : q[j].type = "down"}
           stamps == {k.last} \cup {q[i].stamp : i \in sent}
           last == CHOOSE s \in stamps : \A other \in stamps : other <= s
           late == \/ k.late
                   \/ \E i \in sent : \/ q[i].stamp < k.last
                                      \/ \E j \in sent : j < i /\ q[i].stamp < q[j].stamp
           pressed == IF q = <<>> THEN k.pressed ELSE \A i \in DOMAIN q : q[i].type = "down"
<1>1. r = [pressed |-> pressed, last |-> last, late |-> late]
  BY DEF RunQueue
<1>2. \A i \in DOMAIN q : q[i] \in Items
  OBVIOUS
<1>3. k.last \in Nat /\ k.late \in BOOLEAN /\ k.pressed \in BOOLEAN
  BY DEF KitMice
<1>4. last \in Nat /\ last <= n
  <2>1. stamps \in SUBSET Nat /\ stamps # {} /\ \A s \in stamps : s <= n
    BY <1>2, <1>3 DEF Items, NotAfter
  <2> HIDE DEF stamps
  <2>2. \E m \in stamps : \A s \in stamps : s <= m
    BY <2>1, GreatestNumber
  <2> QED BY <2>1, <2>2
<1>5. r \in KitMice
  <2>1. pressed \in BOOLEAN /\ late \in BOOLEAN
    BY <1>3
  <2> HIDE DEF pressed, late, last
  <2> QED BY <1>1, <1>4, <2>1 DEF KitMice
<1>6. r.last <= n
  <2> HIDE DEF pressed, late, last
  <2> QED BY <1>1, <1>4
<1>7. r.pressed = pressed /\ r.late = late
  <2> HIDE DEF pressed, late, last
  <2> QED BY <1>1
<1>8. pressed = IF q = <<>> THEN k.pressed ELSE ~HasUp(q)
  BY <1>2 DEF HasUp, Items
<1>9. InOrderFrom(q, k.last) => late = k.late
  <2> SUFFICES ASSUME InOrderFrom(q, k.last) PROVE late = k.late
    OBVIOUS
  <2>1. \A i \in DOMAIN q : q[i].stamp \in Nat
    BY <1>2 DEF Items
  <2>2. \A i \in sent : ~(q[i].stamp < k.last)
    BY <1>3, <2>1 DEF InOrderFrom
  <2>3. \A i \in sent : \A j \in sent : ~(j < i /\ q[i].stamp < q[j].stamp)
    BY <2>1 DEF InOrderFrom
  <2> HIDE DEF sent
  <2> QED BY <1>3, <2>2, <2>3
<1> QED
  BY <1>5, <1>6, <1>7, <1>8, <1>9

\* The empty queue.
LEMMA EmptyQueue ==
    /\ <<>> \in Seq(Items) /\ ~HasUp(<<>>) /\ ~FirstIsUp(<<>>)
    /\ \A n \in Nat : NotAfter(<<>>, n) /\ InOrderFrom(<<>>, n)
<1>1. <<>> \in Seq(Items)
  OBVIOUS
<1>2. DOMAIN <<>> = {}
  OBVIOUS
<1> QED BY <1>1, <1>2 DEF HasUp, FirstIsUp, NotAfter, InOrderFrom

\* NotAfter grows with the time; a release at the head is one in the queue.
LEMMA QueueFacts ==
    ASSUME NEW q \in Seq(Items)
    PROVE  /\ \A m, n \in Nat : m <= n /\ NotAfter(q, m) => NotAfter(q, n)
           /\ FirstIsUp(q) => HasUp(q)
<1>1. \A i \in DOMAIN q : q[i] \in Items
  OBVIOUS
<1>2. q # <<>> => 1 \in DOMAIN q
  OBVIOUS
<1> QED BY <1>1, <1>2 DEF NotAfter, FirstIsUp, HasUp, Items

-----------------------------------------------------------------------------
(* What the handlers do to Map.Mouse.                                      *)

\* Of the fields only those of the press change.
SameMode(p, r) ==
    /\ r.perm = p.perm /\ r.dragging = p.dragging /\ r.enabled = p.enabled
    /\ r.hears = p.hears /\ r.mouseOut = p.mouseOut /\ r.hover = p.hover /\ r.box = p.box

\* The fields of the press.
SamePress(p, r) ==
    /\ r.mouseDown = p.mouseDown /\ r.queue = p.queue /\ r.hold = p.hold
    /\ r.recent = p.recent /\ r.auto = p.auto

\* OnMouseDown: the press waits.
LEMMA MouseDownEffect ==
    ASSUME NEW p \in Pointers, NEW stamp \in Nat, NEW r, r = OnMouseDown(p, stamp)
    PROVE  /\ r \in Pointers /\ SameMode(p, r)
           /\ r.mouseDown /\ r.hold = "press" /\ r.recent = p.recent /\ r.auto = p.auto
           /\ r.queue = Append(p.queue, Item("down", stamp))
<1>1. PICK q : q = Append(p.queue, Item("down", stamp))
  OBVIOUS
<1>2. q \in Seq(Items)
  <2>1. p.queue \in Seq(Items)
    BY DEF Pointers
  <2> QED BY <1>1, <2>1, AppendedWaits
<1>3. r = [p EXCEPT !.mouseDown = TRUE, !.hold = "press", !.queue = q]
  BY <1>1 DEF OnMouseDown
<1>4. /\ r \in Pointers /\ SameMode(p, r)
      /\ r.mouseDown /\ r.hold = "press" /\ r.recent = p.recent /\ r.auto = p.auto /\ r.queue = q
  BY <1>2, <1>3 DEF Pointers, SameMode
<1> QED BY <1>1, <1>4

\* OnMouseUp: a release that ends a move of the map, makes a double click, or waits.
EndsMove(p, r) == SamePress([p EXCEPT !.mouseDown = FALSE], r)
IsDouble(p, r) == p.recent /\ r.recent /\ r.hold = "none" /\ r.queue = <<>> /\ r.auto = p.auto
ReleaseWaits(p, r, stamp) ==
    /\ ~p.recent /\ r.recent /\ r.hold = "click" /\ ~r.auto
    /\ r.queue = Append(p.queue, Item("up", stamp))

LEMMA MouseUpEffect ==
    ASSUME NEW p \in Pointers, NEW stamp \in Nat, NEW r, r = OnMouseUp(p, stamp)
    PROVE  /\ r \in Pointers /\ SameMode(p, r) /\ ~r.mouseDown
           /\ IF p.dragging /\ p.queue = <<>>
              THEN r.queue = p.queue /\ r.hold = p.hold /\ r.recent = p.recent /\ r.auto = p.auto
              ELSE IsDouble(p, r) \/ ReleaseWaits(p, r, stamp)
<1>1. PICK q : q = Append(p.queue, Item("up", stamp))
  OBVIOUS
<1>2. q \in Seq(Items)
  <2>1. p.queue \in Seq(Items)
    BY DEF Pointers
  <2> QED BY <1>1, <2>1, AppendedWaits
<1>3. CASE p.dragging /\ p.queue = <<>>
  <2>1. r = [p EXCEPT !.mouseDown = FALSE]
    BY <1>3 DEF OnMouseUp
  <2> QED BY <1>3, <2>1 DEF Pointers, SameMode
<1>4. CASE ~(p.dragging /\ p.queue = <<>>) /\ p.recent
  <2>1. PICK u : u = [p EXCEPT !.mouseDown = FALSE, !.hold = "none"]
    OBVIOUS
  <2>2. u \in Pointers /\ u.queue = p.queue /\ u.hold = "none" /\ ~u.mouseDown /\ u.recent
        /\ u.auto = p.auto /\ SameMode(p, u) /\ u.count \in Nat
    BY <1>4, <2>1 DEF Pointers, SameMode
  <2>3. r = [u EXCEPT !.queue = <<>>, !.count = @ + 1]
    BY <1>4, <2>1 DEF OnMouseUp, DoubleClick
  <2>4. r \in Pointers
    <3>1. PICK e : e = <<>>
      OBVIOUS
    <3>2. e \in Seq(Items)
      BY <3>1, EmptyQueue
    <3>3. PICK c : c = u.count + 1
      OBVIOUS
    <3>4. c \in Nat
      BY <2>2, <3>3
    <3>5. r = [u EXCEPT !.queue = e, !.count = c]
      BY <2>3, <3>1, <3>3
    <3> QED BY <2>2, <3>2, <3>4, <3>5 DEF Pointers
  <2>5. r.queue = <<>> /\ r.hold = "none" /\ ~r.mouseDown /\ r.recent /\ r.auto = u.auto /\ SameMode(u, r)
    BY <2>2, <2>3 DEF Pointers, SameMode
  <2>6. SameMode(p, r)
    BY <2>2, <2>5 DEF SameMode
  <2>7. IsDouble(p, r)
    BY <1>4, <2>2, <2>5 DEF IsDouble
  <2> QED BY <1>4, <2>4, <2>5, <2>6, <2>7
<1>5. CASE ~(p.dragging /\ p.queue = <<>>) /\ ~p.recent
  <2>1. PICK u : u = [p EXCEPT !.mouseDown = FALSE]
    OBVIOUS
  <2>2. u \in Pointers /\ u.queue = p.queue /\ ~u.mouseDown /\ SameMode(p, u)
    BY <2>1 DEF Pointers, SameMode
  <2>3. r = SingleClick(u, stamp)
    BY <1>5, <2>1 DEF OnMouseUp
  <2>4. r = [u EXCEPT !.recent = TRUE, !.count = 1, !.queue = q, !.hold = "click", !.auto = FALSE]
    BY <1>1, <2>2, <2>3 DEF SingleClick
  <2>5. /\ r \in Pointers /\ r.queue = q /\ r.hold = "click" /\ ~r.mouseDown /\ r.recent /\ ~r.auto
        /\ SameMode(u, r)
    <3>1. PICK v : v = [u EXCEPT !.recent = TRUE, !.count = 1, !.auto = FALSE]
      OBVIOUS
    <3>2. v \in Pointers
      BY <2>2, <3>1 DEF Pointers
    <3>3. r = [v EXCEPT !.queue = q, !.hold = "click"]
      BY <2>2, <2>4, <3>1 DEF Pointers
    <3>4. r \in Pointers
      BY <1>2, <3>2, <3>3 DEF Pointers
    <3> QED BY <2>2, <2>4, <3>4 DEF Pointers, SameMode
  <2>6. SameMode(p, r)
    BY <2>2, <2>5 DEF SameMode
  <2>7. ReleaseWaits(p, r, stamp)
    BY <1>1, <1>5, <2>5 DEF ReleaseWaits
  <2> QED BY <1>5, <2>5, <2>6, <2>7
<1> QED BY <1>3, <1>4, <1>5

\* DraggedPointer: nothing waits any more, and at the edge the view scrolls.
LEMMA DraggedPointerEffect ==
    ASSUME NEW p \in Pointers, QueueIsHeld(p), NEW place \in {"middle", "edge"},
           NEW r, r = DraggedPointer(p, place)
    PROVE  /\ r \in Pointers /\ SameMode(p, r)
           /\ r.mouseDown = p.mouseDown /\ r.hold = "none" /\ r.queue = <<>> /\ r.recent = p.recent
           /\ p.dragging => r.auto = p.auto
           /\ ~p.dragging => (r.auto => place = "edge")
<1>1. PICK q : q = IF p.hold = "none" THEN p ELSE [p EXCEPT !.hold = "none", !.queue = <<>>]
  OBVIOUS
<1>2. /\ q \in Pointers /\ SameMode(p, q) /\ q.mouseDown = p.mouseDown
      /\ q.hold = "none" /\ q.queue = <<>> /\ q.recent = p.recent /\ q.auto = p.auto
  <2>1. CASE p.hold = "none"
    BY <1>1, <2>1 DEF QueueIsHeld, SameMode
  <2>2. CASE p.hold # "none"
    <3>1. q = [p EXCEPT !.hold = "none", !.queue = <<>>]
      BY <1>1, <2>2
    <3>2. q \in Pointers
      BY <3>1, EmptyQueue DEF Pointers
    <3> QED BY <3>1, <3>2 DEF Pointers, SameMode
  <2> QED BY <2>1, <2>2
<1>3. r = IF p.dragging THEN q ELSE [q EXCEPT !.auto = place = "edge"]
  BY <1>1 DEF DraggedPointer, AutoScroll
<1>4. CASE p.dragging
  BY <1>2, <1>3, <1>4
<1>5. CASE ~p.dragging
  <2>1. r = [q EXCEPT !.auto = place = "edge"]
    BY <1>3, <1>5
  <2>2. /\ r \in Pointers /\ SameMode(q, r) /\ r.mouseDown = q.mouseDown
        /\ r.hold = "none" /\ r.queue = <<>> /\ r.recent = q.recent /\ (r.auto <=> place = "edge")
    BY <1>2, <2>1 DEF Pointers, SameMode
  <2>3. SameMode(p, r)
    BY <1>2, <2>2 DEF SameMode
  <2>4. r.auto \in BOOLEAN
    BY <2>2 DEF Pointers
  <2> QED BY <1>2, <1>5, <2>2, <2>3, <2>4
<1> QED BY <1>4, <1>5

\* DraggedKit: what waits is sent, and then the move - or nothing, while the map is moved.
LEMMA DraggedKitEffect ==
    ASSUME NEW p \in Pointers, QueueIsHeld(p), NEW k \in KitMice, NEW stamp \in Nat,
           NotAfter(p.queue, stamp), k.last <= stamp, NEW r, r = DraggedKit(p, k, stamp)
    PROVE  /\ r \in KitMice /\ r.last <= stamp
           /\ IF p.dragging THEN r = k
              ELSE r.pressed = IF p.queue = <<>> THEN k.pressed ELSE ~HasUp(p.queue)
           /\ InOrderFrom(p.queue, k.last) => r.late = k.late
<1>1. CASE p.dragging
  BY <1>1 DEF DraggedKit
<1>2. CASE ~p.dragging
  <2>1. PICK m : m = IF p.hold = "none" THEN k ELSE RunQueue(k, p.queue)
    OBVIOUS
  <2>2. r = PostMouseEvent(m, "move", stamp)
    BY <1>2, <2>1 DEF DraggedKit
  <2>3. p.queue \in Seq(Items)
    BY DEF Pointers
  <2>4. /\ m \in KitMice /\ m.last <= stamp
        /\ m.pressed = IF p.queue = <<>> THEN k.pressed ELSE ~HasUp(p.queue)
        /\ InOrderFrom(p.queue, k.last) => m.late = k.late
    <3>1. CASE p.hold = "none"
      BY <2>1, <3>1 DEF QueueIsHeld
    <3>2. CASE p.hold # "none"
      <4>1. m = RunQueue(k, p.queue)
        BY <2>1, <3>2
      <4> QED BY <2>3, <4>1, RunQueueFacts
    <3> QED BY <3>1, <3>2
  <2>5. "move" \in {"down", "up", "move"} /\ m.last <= stamp /\ m \in KitMice
    BY <2>4
  <2>6. r \in KitMice
    BY <2>2, <2>5, PostFacts
  <2>7. r.pressed = m.pressed
    BY <2>2, <2>5 DEF PostMouseEvent
  <2>8. r.late = m.late /\ r.last = stamp
    <3>1. PICK type \in {"down", "up", "move"} : type = "move"
      OBVIOUS
    <3>2. r = PostMouseEvent(m, type, stamp)
      BY <2>2, <3>1, Zenon
    <3> QED BY <2>5, <3>2, PostFacts, SMTT(60)
  <2> QED BY <1>2, <2>4, <2>6, <2>7, <2>8
<1> QED BY <1>1, <1>2

\* A double click, and more: pressed and released at once.
LEMMA MultiClickEffect ==
    ASSUME NEW k \in KitMice, NEW stamp \in Nat, k.last <= stamp, NEW r, r = MultiClickKit(k, stamp)
    PROVE  r \in KitMice /\ ~r.pressed /\ r.last = stamp /\ r.late = k.late
<1>1. PICK m : m = PostMouseEvent(k, "down", stamp)
  OBVIOUS
<1>2. m \in KitMice /\ m.last = stamp /\ m.late = k.late
  BY <1>1, PostFacts
<1>3. r = PostMouseEvent(m, "up", stamp)
  BY <1>1 DEF MultiClickKit
<1>4. m.last <= stamp
  BY <1>2
<1>5. r \in KitMice /\ ~r.pressed /\ r.last = stamp /\ r.late = m.late
  BY <1>2, <1>3, <1>4, ReleasePosted
<1> QED BY <1>2, <1>5

\* What is taken for something else: a click, or a drag's end, right after a click.
Flicks(p) == p.recent /\ (p.hold = "none" \/ FirstIsUp(p.queue))

\* What a release does to what waits.
LEMMA ReleaseEffect ==
    ASSUME NEW p \in Pointers, QueueIsHeld(p), NEW stamp \in Nat, NotAfter(p.queue, stamp),
           NEW r, r = OnMouseUp(p, stamp)
    PROVE  /\ r \in Pointers /\ SameMode(p, r) /\ ~r.mouseDown
           /\ QueueIsHeld(r) /\ NotAfter(r.queue, stamp)
           /\ \A n \in Nat : n <= stamp /\ InOrderFrom(p.queue, n) => InOrderFrom(r.queue, n)
           /\ r.hold # "press"
           /\ p.recent => r.queue = <<>>
           /\ r.auto => p.auto
           /\ p.hold = "none" /\ ~p.dragging /\ ~Flicks(p) => ~r.auto
           /\ ~(p.dragging /\ p.queue = <<>>) /\ ~Flicks(p) /\ (p.hold = "none" \/ FirstIsUp(p.queue))
                 => r.hold # "none" /\ FirstIsUp(r.queue)
<1>1. /\ r \in Pointers /\ SameMode(p, r) /\ ~r.mouseDown
      /\ IF p.dragging /\ p.queue = <<>>
         THEN r.queue = p.queue /\ r.hold = p.hold /\ r.recent = p.recent /\ r.auto = p.auto
         ELSE IsDouble(p, r) \/ ReleaseWaits(p, r, stamp)
  BY MouseUpEffect
<1>2. p.queue \in Seq(Items)
  BY DEF Pointers
<1>3. CASE p.dragging /\ p.queue = <<>>
  <2>1. r.queue = p.queue /\ r.hold = p.hold /\ r.recent = p.recent /\ r.auto = p.auto
    BY <1>1, <1>3
  <2>2. p.hold = "none"
    BY <1>3 DEF QueueIsHeld
  <2>3. QueueIsHeld(r)
    BY <2>1 DEF QueueIsHeld
  <2> QED BY <1>1, <1>3, <2>1, <2>2, <2>3
<1>4. CASE ~(p.dragging /\ p.queue = <<>>) /\ IsDouble(p, r)
  <2>1. p.recent /\ r.recent /\ r.hold = "none" /\ r.queue = <<>> /\ r.auto = p.auto
    BY <1>4 DEF IsDouble
  <2>2. QueueIsHeld(r)
    BY <2>1 DEF QueueIsHeld
  <2>3. NotAfter(r.queue, stamp) /\ \A n \in Nat : InOrderFrom(r.queue, n)
    BY <2>1, EmptyQueue
  <2> QED BY <1>1, <1>4, <2>1, <2>2, <2>3 DEF Flicks
<1>5. CASE ~(p.dragging /\ p.queue = <<>>) /\ ReleaseWaits(p, r, stamp)
  <2>1. /\ ~p.recent /\ r.recent /\ r.hold = "click" /\ ~r.auto
        /\ r.queue = Append(p.queue, Item("up", stamp))
    BY <1>5 DEF ReleaseWaits
  <2>2. "up" \in {"down", "up"}
    OBVIOUS
  <2>3. /\ r.queue \in Seq(Items) /\ r.queue # <<>>
        /\ HasUp(r.queue) <=> HasUp(p.queue) \/ "up" = "up"
        /\ FirstIsUp(r.queue) <=> IF p.queue = <<>> THEN "up" = "up" ELSE FirstIsUp(p.queue)
        /\ NotAfter(p.queue, stamp) => NotAfter(r.queue, stamp)
        /\ \A n \in Nat : NotAfter(p.queue, stamp) /\ n <= stamp /\ InOrderFrom(p.queue, n) => InOrderFrom(r.queue, n)
    BY <1>2, <2>1, <2>2, AppendedWaits
  <2>4. QueueIsHeld(r)
    BY <2>1, <2>3 DEF QueueIsHeld
  <2>5. p.hold = "none" => p.queue = <<>>
    BY DEF QueueIsHeld
  <2> QED BY <1>1, <1>5, <2>1, <2>3, <2>4, <2>5
<1> QED BY <1>1, <1>3, <1>4, <1>5

\* What a press does to what waits.
LEMMA PressEffect ==
    ASSUME NEW p \in Pointers, NEW stamp \in Nat, NotAfter(p.queue, stamp),
           NEW r, r = OnMouseDown(p, stamp)
    PROVE  /\ r \in Pointers /\ SameMode(p, r) /\ r.mouseDown /\ r.hold = "press"
           /\ r.auto = p.auto /\ r.recent = p.recent
           /\ QueueIsHeld(r) /\ NotAfter(r.queue, stamp)
           /\ \A n \in Nat : n <= stamp /\ InOrderFrom(p.queue, n) => InOrderFrom(r.queue, n)
           /\ p.queue # <<>> /\ FirstIsUp(p.queue) => FirstIsUp(r.queue)
<1>1. /\ r \in Pointers /\ SameMode(p, r)
      /\ r.mouseDown /\ r.hold = "press" /\ r.recent = p.recent /\ r.auto = p.auto
      /\ r.queue = Append(p.queue, Item("down", stamp))
  BY MouseDownEffect
<1>2. p.queue \in Seq(Items) /\ "down" \in {"down", "up"}
  BY DEF Pointers
<1>3. /\ r.queue # <<>>
      /\ FirstIsUp(r.queue) <=> IF p.queue = <<>> THEN "down" = "up" ELSE FirstIsUp(p.queue)
      /\ NotAfter(p.queue, stamp) => NotAfter(r.queue, stamp)
      /\ \A n \in Nat : NotAfter(p.queue, stamp) /\ n <= stamp /\ InOrderFrom(p.queue, n) => InOrderFrom(r.queue, n)
  BY <1>1, <1>2, AppendedWaits
<1>4. QueueIsHeld(r)
  BY <1>1, <1>3 DEF QueueIsHeld
<1> QED BY <1>1, <1>3, <1>4

-----------------------------------------------------------------------------
(* The steps.                                                              *)

\* The initial state.
LEMMA PointerInitInv == PointerInit => PointerInv
<1> SUFFICES ASSUME PointerInit PROVE PointerInv
  OBVIOUS
<1>1. PICK e : e = <<>>
  OBVIOUS
<1>2. e \in Seq(Items) /\ \A n \in Nat : NotAfter(e, n) /\ InOrderFrom(e, n)
  BY <1>1, EmptyQueue
<1>3. pointer = [perm |-> "view", dragging |-> TRUE, enabled |-> TRUE, mouseDown |-> FALSE, queue |-> e,
                 hold |-> "none", recent |-> FALSE, count |-> 0, hears |-> FALSE, mouseOut |-> FALSE,
                 auto |-> FALSE, hover |-> 0, box |-> "none"]
  BY <1>1 DEF PointerInit
<1>4. pointer \in Pointers
  BY <1>2, <1>3 DEF Pointers
<1>5. PointerShape
  BY <1>4 DEF PointerInit, PointerShape, Hands, Taps, KitMice
<1>6. StampsArePast
  BY <1>2, <1>3 DEF PointerInit, StampsArePast
<1>7. QueueIsHeld(pointer)
  BY <1>1, <1>3 DEF QueueIsHeld
<1>8. GestureIsOne
  BY DEF PointerInit, GestureIsOne
<1>9. PressIsHeard /\ ScrollsInDrag /\ PressWillEnd
  BY <1>3 DEF PointerInit, PressIsHeard, ScrollsInDrag, PressWillEnd
<1>10. WaitsInOrder
  BY <1>2, <1>3 DEF PointerInit, WaitsInOrder
<1> QED BY <1>5, <1>6, <1>7, <1>8, <1>9, <1>10 DEF PointerInv

\* HandPresses: a press by the mouse.
LEMMA HandPressesInv == PointerInv /\ HandPresses => PointerInv'
<1> SUFFICES ASSUME PointerInv, HandPresses PROVE PointerInv'
  OBVIOUS
<1>1. PointerShape /\ StampsArePast /\ QueueIsHeld(pointer) /\ GestureIsOne /\ PressIsHeard
      /\ ScrollsInDrag /\ PressWillEnd /\ WaitsInOrder
  BY DEF PointerInv
<1>2. PICK stamp : stamp = handTurns + 1
  OBVIOUS
<1>3. /\ handTurns' = stamp /\ ~hand.down /\ tap.fingers = 0
      /\ hand' = [hand EXCEPT !.down = TRUE]
      /\ tap' = tap /\ kitMouse' = kitMouse /\ misses' = misses
  BY <1>2 DEF HandPresses, HandTurn
<1>4. stamp \in Nat /\ handTurns <= stamp /\ handTurns \in Nat
  BY <1>1, <1>2 DEF StampsArePast
<1>5. pointer \in Pointers /\ pointer.queue \in Seq(Items) /\ kitMouse \in KitMice /\ kitMouse.last \in Nat
  BY <1>1 DEF PointerShape, Pointers, KitMice
<1>6. NotAfter(pointer.queue, stamp) /\ kitMouse.last <= stamp /\ pointer.hover <= stamp
  BY <1>1, <1>4, <1>5, QueueFacts DEF StampsArePast, Pointers
<1>7. PICK shift \in BOOLEAN :
        pointer' = BoxDown(IF Takes(pointer) THEN OnMouseDown(pointer, stamp) ELSE pointer, shift)
  BY <1>3 DEF HandPresses
<1>8. PICK r : r = IF Takes(pointer) THEN OnMouseDown(pointer, stamp) ELSE pointer
  OBVIOUS
<1>9. /\ r \in Pointers /\ SameMode(pointer, r) /\ r.auto = pointer.auto
      /\ QueueIsHeld(r) /\ NotAfter(r.queue, stamp)
      /\ \A n \in Nat : n <= stamp /\ InOrderFrom(pointer.queue, n) => InOrderFrom(r.queue, n)
      /\ \/ r = pointer
         \/ /\ pointer.enabled /\ r.mouseDown /\ r.hold = "press"
            /\ pointer.queue # <<>> /\ FirstIsUp(pointer.queue) => FirstIsUp(r.queue)
  <2>1. CASE Takes(pointer)
    <3>1. r = OnMouseDown(pointer, stamp) /\ pointer.enabled
      BY <1>8, <2>1 DEF Takes
    <3> QED BY <1>5, <1>6, <1>4, <3>1, PressEffect
  <2>2. CASE ~Takes(pointer)
    <3>1. r = pointer
      BY <1>8, <2>2
    <3> QED BY <1>1, <1>5, <1>6, <3>1 DEF SameMode
  <2> QED BY <2>1, <2>2
<1>10. /\ pointer' \in Pointers /\ SamePress(r, pointer')
       /\ pointer'.dragging = r.dragging /\ pointer'.enabled = r.enabled
       /\ pointer'.hears = r.hears /\ pointer'.hover = r.hover
  <2>1. pointer' = BoxDown(r, shift)
    BY <1>7, <1>8
  <2> QED BY <1>9, <2>1 DEF BoxDown, Pointers, SamePress
<1>11. hand' \in Hands /\ hand'.down
  BY <1>1, <1>3 DEF PointerShape, Hands
<1>12. ~tap.listens /\ ~tap.hold
  BY <1>1, <1>3 DEF GestureIsOne
<1>13. PointerShape'
  BY <1>1, <1>3, <1>10, <1>11 DEF PointerShape
<1>14. StampsArePast'
  BY <1>3, <1>4, <1>6, <1>9, <1>10 DEF StampsArePast, SameMode, SamePress
<1>15. QueueIsHeld(pointer')
  BY <1>9, <1>10 DEF QueueIsHeld, SamePress
<1>16. GestureIsOne'
  BY <1>3, <1>11, <1>12 DEF GestureIsOne
<1>17. PressIsHeard'
  BY <1>1, <1>3, <1>9, <1>10, <1>11 DEF PressIsHeard, Calm, SameMode, SamePress
<1>18. ScrollsInDrag'
  BY <1>1, <1>3, <1>9, <1>10 DEF ScrollsInDrag, Calm, SamePress
<1>19. PressWillEnd'
  <2> SUFFICES ASSUME Calm({"flick", "held", "unheard", "reentered", "disabled"}), kitMouse.pressed
               PROVE  IF pointer'.hold = "none" THEN pointer'.mouseDown ELSE FirstIsUp(pointer'.queue)
    BY <1>3 DEF PressWillEnd, Calm
  <2>1. ~pointer.mouseDown
    BY <1>1, <1>3, <1>12 DEF PressIsHeard, Calm
  <2>2. pointer.hold # "none" /\ FirstIsUp(pointer.queue) /\ pointer.queue # <<>>
    BY <1>1, <2>1 DEF PressWillEnd, FirstIsUp
  <2> QED BY <1>9, <1>10, <2>2 DEF SamePress
<1>20. WaitsInOrder'
  BY <1>1, <1>3, <1>5, <1>6, <1>9, <1>10 DEF WaitsInOrder, Calm, SamePress
<1> QED
  BY <1>13, <1>14, <1>15, <1>16, <1>17, <1>18, <1>19, <1>20 DEF PointerInv

\* What the invariant says of the moment of a step.
LEMMA PointerFacts ==
    ASSUME PointerInv
    PROVE  /\ hand \in Hands /\ pointer \in Pointers /\ tap \in Taps /\ kitMouse \in KitMice
           /\ pointer.queue \in Seq(Items) /\ kitMouse.last \in Nat /\ pointer.hover \in Nat
           /\ handTurns \in Nat /\ QueueIsHeld(pointer)
           /\ \A n \in Nat : handTurns <= n =>
                  NotAfter(pointer.queue, n) /\ kitMouse.last <= n /\ pointer.hover <= n
<1>1. PointerShape /\ StampsArePast /\ QueueIsHeld(pointer)
  BY DEF PointerInv
<1>2. /\ hand \in Hands /\ pointer \in Pointers /\ tap \in Taps /\ kitMouse \in KitMice
      /\ pointer.queue \in Seq(Items) /\ kitMouse.last \in Nat /\ pointer.hover \in Nat
      /\ handTurns \in Nat
  BY <1>1 DEF PointerShape, StampsArePast, Pointers, KitMice
<1>3. \A n \in Nat : handTurns <= n =>
          NotAfter(pointer.queue, n) /\ kitMouse.last <= n /\ pointer.hover <= n
  BY <1>1, <1>2, QueueFacts DEF StampsArePast
<1> QED BY <1>1, <1>2, <1>3

\* Steps that leave the press and the kit as they are.
LEMMA PressKept ==
    ASSUME PointerInv, PointerShape', SamePress(pointer, pointer'), kitMouse' = kitMouse,
           handTurns' \in Nat, handTurns <= handTurns', pointer'.hover <= handTurns',
           misses \subseteq misses'
    PROVE  /\ StampsArePast' /\ QueueIsHeld(pointer') /\ PressWillEnd' /\ WaitsInOrder'
<1>1. StampsArePast /\ QueueIsHeld(pointer) /\ PressWillEnd /\ WaitsInOrder
  BY DEF PointerInv
<1>2. StampsArePast'
  BY PointerFacts DEF StampsArePast, SamePress
<1>3. QueueIsHeld(pointer')
  BY <1>1 DEF QueueIsHeld, SamePress
<1>4. PressWillEnd'
  BY <1>1 DEF PressWillEnd, Calm, SamePress
<1>5. WaitsInOrder'
  BY <1>1 DEF WaitsInOrder, Calm, SamePress
<1> QED BY <1>2, <1>3, <1>4, <1>5

\* A turn is one more.
LEMMA TurnFacts ==
    ASSUME PointerInv, HandTurn
    PROVE  handTurns' \in Nat /\ handTurns <= handTurns' /\ handTurns' = handTurns + 1
BY PointerFacts DEF HandTurn

\* HandLeaves: outside, the release is listened to, if the leaving is noticed.
LEMMA HandLeavesInv == PointerInv /\ HandLeaves => PointerInv'
<1> SUFFICES ASSUME PointerInv, HandLeaves PROVE PointerInv'
  OBVIOUS
<1>1. PointerShape /\ StampsArePast /\ GestureIsOne /\ PressIsHeard /\ ScrollsInDrag
  BY DEF PointerInv
<1>2. /\ handTurns' \in Nat /\ handTurns <= handTurns' /\ tap.fingers = 0
      /\ hand' = [hand EXCEPT !.at = "outside"]
      /\ tap' = tap /\ kitMouse' = kitMouse /\ misses' = misses
  BY TurnFacts DEF HandLeaves
<1>3. PICK tile \in BOOLEAN :
        pointer' = [pointer EXCEPT !.mouseOut = @ \/ Leaving(pointer, tile),
                                   !.hears = @ \/ (Leaving(pointer, tile) /\ pointer.mouseDown)]
  BY DEF HandLeaves
<1>4. PICK out, hears : /\ out = (pointer.mouseOut \/ Leaving(pointer, tile))
                        /\ hears = (pointer.hears \/ (Leaving(pointer, tile) /\ pointer.mouseDown))
  OBVIOUS
<1>5. out \in BOOLEAN /\ hears \in BOOLEAN /\ (hears => pointer.hears \/ pointer.mouseDown)
  BY <1>4, PointerFacts DEF Pointers
<1>6. pointer' = [pointer EXCEPT !.mouseOut = out, !.hears = hears]
  BY <1>3, <1>4, PointerFacts DEF Pointers
<1>7. /\ pointer' \in Pointers /\ SamePress(pointer, pointer') /\ pointer'.hears = hears
      /\ pointer'.dragging = pointer.dragging /\ pointer'.enabled = pointer.enabled
      /\ pointer'.hover = pointer.hover /\ pointer'.box = pointer.box
  BY <1>5, <1>6, PointerFacts DEF Pointers, SamePress
<1>8. hand' \in Hands /\ hand'.down = hand.down
  BY <1>2, PointerFacts DEF Hands
<1>9. PointerShape'
  BY <1>1, <1>2, <1>7, <1>8 DEF PointerShape
<1>10. StampsArePast' /\ QueueIsHeld(pointer') /\ PressWillEnd' /\ WaitsInOrder'
  BY <1>2, <1>7, <1>9, PointerFacts, PressKept
<1>11. GestureIsOne'
  BY <1>1, <1>2, <1>7, <1>8 DEF GestureIsOne
<1>12. PressIsHeard'
  <2>1. ~tap.listens
    BY <1>1, <1>2 DEF GestureIsOne
  <2> QED BY <1>1, <1>2, <1>5, <1>7, <1>8, <2>1 DEF PressIsHeard, Calm, SamePress
<1>13. ScrollsInDrag'
  BY <1>1, <1>2, <1>7, <1>8 DEF ScrollsInDrag, Calm, SamePress
<1> QED
  BY <1>9, <1>10, <1>11, <1>12, <1>13 DEF PointerInv

\* HandEnters: the map listens by itself again.
LEMMA HandEntersInv == PointerInv /\ HandEnters => PointerInv'
<1> SUFFICES ASSUME PointerInv, HandEnters PROVE PointerInv'
  OBVIOUS
<1>1. PointerShape /\ StampsArePast /\ GestureIsOne /\ PressIsHeard /\ ScrollsInDrag
  BY DEF PointerInv
<1>2. /\ handTurns' \in Nat /\ handTurns <= handTurns'
      /\ hand' = [hand EXCEPT !.at = "edge"]
      /\ tap' = tap /\ kitMouse' = kitMouse /\ misses' = misses
  BY TurnFacts DEF HandEnters
<1>3. PICK tile \in BOOLEAN :
        pointer' = [pointer EXCEPT !.mouseOut = @ /\ ~Entering(pointer, tile),
                                   !.hears = @ /\ ~(Entering(pointer, tile) /\ pointer.mouseDown)]
  BY DEF HandEnters
<1>4. PICK out, hears : /\ out = (pointer.mouseOut /\ ~Entering(pointer, tile))
                        /\ hears = (pointer.hears /\ ~(Entering(pointer, tile) /\ pointer.mouseDown))
  OBVIOUS
<1>5. out \in BOOLEAN /\ hears \in BOOLEAN /\ (hears => pointer.hears)
  BY <1>4, PointerFacts DEF Pointers
<1>6. pointer' = [pointer EXCEPT !.mouseOut = out, !.hears = hears]
  BY <1>3, <1>4, PointerFacts DEF Pointers
<1>7. /\ pointer' \in Pointers /\ SamePress(pointer, pointer') /\ pointer'.hears = hears
      /\ pointer'.dragging = pointer.dragging /\ pointer'.enabled = pointer.enabled
      /\ pointer'.hover = pointer.hover /\ pointer'.box = pointer.box
  BY <1>5, <1>6, PointerFacts DEF Pointers, SamePress
<1>8. hand' \in Hands /\ hand'.down = hand.down
  BY <1>2, PointerFacts DEF Hands
<1>9. PointerShape'
  BY <1>1, <1>2, <1>7, <1>8 DEF PointerShape
<1>10. StampsArePast' /\ QueueIsHeld(pointer') /\ PressWillEnd' /\ WaitsInOrder'
  BY <1>2, <1>7, <1>9, PointerFacts, PressKept
<1>11. GestureIsOne'
  BY <1>1, <1>2, <1>7, <1>8 DEF GestureIsOne
<1>12. PressIsHeard'
  BY <1>1, <1>2, <1>5, <1>7, <1>8 DEF PressIsHeard, Calm, SamePress
<1>13. ScrollsInDrag'
  BY <1>1, <1>2, <1>7, <1>8 DEF ScrollsInDrag, Calm, SamePress
<1> QED
  BY <1>9, <1>10, <1>11, <1>12, <1>13 DEF PointerInv

\* Permits, SwitchesSelection, EnablesPointer: what dragging means, and whether the map
\* takes events, is switched; in the middle of a press that is a hole.
LEMMA SwitchesInv == PointerInv /\ (Permits \/ SwitchesSelection \/ EnablesPointer) => PointerInv'
<1> SUFFICES ASSUME PointerInv, Permits \/ SwitchesSelection \/ EnablesPointer PROVE PointerInv'
  OBVIOUS
<1>1. PointerShape /\ StampsArePast /\ GestureIsOne /\ PressIsHeard /\ ScrollsInDrag
  BY DEF PointerInv
<1>2. HandTurn /\ hand' = hand /\ tap' = tap /\ kitMouse' = kitMouse
  BY DEF Permits, SwitchesSelection, EnablesPointer
<1>3. handTurns' \in Nat /\ handTurns <= handTurns'
  BY <1>2, TurnFacts
<1>4. /\ pointer' \in Pointers /\ SamePress(pointer, pointer')
      /\ pointer'.hears = pointer.hears /\ pointer'.hover = pointer.hover /\ pointer'.box = pointer.box
  <2>1. CASE Permits
    <3>1. PICK perm \in {"view", "edit"}, moving \in BOOLEAN :
            pointer' = [pointer EXCEPT !.perm = perm, !.dragging = moving]
      BY <2>1, PointerFacts DEF Permits, Pointers
    <3> QED BY <3>1, PointerFacts DEF Pointers, SamePress
  <2>2. CASE SwitchesSelection
    <3>1. pointer' = [pointer EXCEPT !.dragging = ~pointer.dragging]
      BY <2>2, PointerFacts DEF SwitchesSelection, Pointers
    <3> QED BY <3>1, PointerFacts DEF Pointers, SamePress
  <2>3. CASE EnablesPointer
    <3>1. pointer' = [pointer EXCEPT !.enabled = ~pointer.enabled]
      BY <2>3, PointerFacts DEF EnablesPointer, Pointers
    <3> QED BY <3>1, PointerFacts DEF Pointers, SamePress
  <2> QED BY <1>2, <2>1, <2>2, <2>3
<1>5. /\ misses \subseteq misses'
      /\ pointer'.dragging = pointer.dragging \/ "switched" \in misses' \/ ~pointer.mouseDown
      /\ pointer'.enabled = pointer.enabled \/ "disabled" \in misses' \/ ~pointer.mouseDown
  <2>1. CASE Permits
    <3>1. /\ misses' = misses \cup Miss("switched", pointer.mouseDown \/ pointer.hold # "none")
          /\ pointer'.enabled = pointer.enabled
      BY <2>1, PointerFacts DEF Permits, Pointers
    <3> QED BY <3>1 DEF Miss
  <2>2. CASE SwitchesSelection
    <3>1. /\ misses' = misses \cup Miss("switched", pointer.mouseDown \/ pointer.hold # "none")
          /\ pointer'.enabled = pointer.enabled
      BY <2>2, PointerFacts DEF SwitchesSelection, Pointers
    <3> QED BY <3>1 DEF Miss
  <2>3. CASE EnablesPointer
    <3>1. /\ misses' = misses \cup Miss("disabled", pointer.mouseDown \/ pointer.hold # "none" \/ tap.listens)
          /\ pointer'.dragging = pointer.dragging
      BY <2>3, PointerFacts DEF EnablesPointer, Pointers
    <3> QED BY <3>1 DEF Miss
  <2> QED BY <2>1, <2>2, <2>3
<1>6. PointerShape'
  BY <1>1, <1>2, <1>4 DEF PointerShape
<1>7. StampsArePast' /\ QueueIsHeld(pointer') /\ PressWillEnd' /\ WaitsInOrder'
  BY <1>2, <1>3, <1>4, <1>5, <1>6, PointerFacts, PressKept
<1>8. GestureIsOne'
  BY <1>1, <1>2, <1>4 DEF GestureIsOne
<1>9. PressIsHeard'
  BY <1>1, <1>2, <1>4, <1>5 DEF PressIsHeard, Calm, SamePress
<1>10. ScrollsInDrag'
  BY <1>1, <1>2, <1>4, <1>5 DEF ScrollsInDrag, Calm, SamePress
<1> QED
  BY <1>6, <1>7, <1>8, <1>9, <1>10 DEF PointerInv

\* Pause: the next click is a new one.
LEMMA PauseInv == PointerInv /\ Pause => PointerInv'
<1> SUFFICES ASSUME PointerInv, Pause PROVE PointerInv'
  OBVIOUS
<1>1. PointerShape /\ StampsArePast /\ GestureIsOne /\ PressIsHeard /\ ScrollsInDrag /\ PressWillEnd
      /\ WaitsInOrder /\ QueueIsHeld(pointer)
  BY DEF PointerInv
<1>2. /\ pointer.hold # "click" /\ pointer' = [pointer EXCEPT !.recent = FALSE]
      /\ tap' = tap /\ kitMouse' = kitMouse /\ misses' = misses /\ handTurns' = handTurns
  BY DEF Pause
<1>3. /\ pointer' \in Pointers /\ pointer'.hears = pointer.hears /\ pointer'.hover = pointer.hover
      /\ pointer'.box = pointer.box /\ pointer'.mouseDown = pointer.mouseDown
      /\ pointer'.queue = pointer.queue /\ pointer'.hold = pointer.hold /\ pointer'.auto = pointer.auto
      /\ pointer'.dragging = pointer.dragging /\ pointer'.enabled = pointer.enabled
  BY <1>2, PointerFacts DEF Pointers
<1>4. hand' \in Hands /\ hand'.down = hand.down
  <2>1. PICK soon \in {hand.soon, FALSE} :
          hand' = [hand EXCEPT !.soon = soon, !.clicks = IF soon /\ @ = 1 THEN 1 ELSE 0]
    BY DEF Pause
  <2>2. soon \in BOOLEAN
    BY PointerFacts DEF Hands
  <2>3. PICK clicks \in 0..4 : hand' = [hand EXCEPT !.soon = soon, !.clicks = clicks]
    <3>1. PICK clicks : clicks = IF soon /\ hand.clicks = 1 THEN 1 ELSE 0
      OBVIOUS
    <3>2. hand' = [hand EXCEPT !.soon = soon, !.clicks = clicks]
      BY <2>1, <2>2, <3>1, PointerFacts DEF Hands
    <3>3. clicks \in 0..4
      BY <3>1
    <3> QED BY <3>2, <3>3
  <2> QED BY <2>2, <2>3, PointerFacts DEF Hands
<1>5. PointerShape'
  BY <1>1, <1>2, <1>3, <1>4 DEF PointerShape
<1>6. StampsArePast'
  BY <1>1, <1>2, <1>3 DEF StampsArePast
<1>7. QueueIsHeld(pointer')
  BY <1>1, <1>2, <1>3 DEF QueueIsHeld
<1>8. GestureIsOne'
  BY <1>1, <1>2, <1>3, <1>4 DEF GestureIsOne
<1>9. PressIsHeard' /\ ScrollsInDrag'
  BY <1>1, <1>2, <1>3, <1>4 DEF PressIsHeard, ScrollsInDrag, Calm
<1>10. PressWillEnd' /\ WaitsInOrder'
  BY <1>1, <1>2, <1>3 DEF PressWillEnd, WaitsInOrder, Calm
<1> QED
  BY <1>5, <1>6, <1>7, <1>8, <1>9, <1>10 DEF PointerInv

\* HoldTimer: what waits is sent.
LEMMA HoldTimerInv == PointerInv /\ HoldTimer => PointerInv'
<1> SUFFICES ASSUME PointerInv, HoldTimer PROVE PointerInv'
  OBVIOUS
<1>1. PointerShape /\ StampsArePast /\ GestureIsOne /\ PressIsHeard /\ ScrollsInDrag /\ PressWillEnd
      /\ WaitsInOrder /\ QueueIsHeld(pointer)
  BY DEF PointerInv
<1>2. /\ pointer.hold # "none" /\ kitMouse' = RunQueue(kitMouse, pointer.queue)
      /\ hand' = hand /\ tap' = tap /\ misses' = misses /\ handTurns' = handTurns
  BY DEF HoldTimer
<1>3. PICK e : e = <<>>
  OBVIOUS
<1>4. e \in Seq(Items) /\ \A n \in Nat : NotAfter(e, n) /\ InOrderFrom(e, n)
  BY <1>3, EmptyQueue
<1>5. pointer' = [pointer EXCEPT !.hold = "none", !.queue = e]
  BY <1>3 DEF HoldTimer
<1>6. /\ pointer' \in Pointers /\ pointer'.hears = pointer.hears /\ pointer'.hover = pointer.hover
      /\ pointer'.box = pointer.box /\ pointer'.mouseDown = pointer.mouseDown
      /\ pointer'.queue = e /\ pointer'.hold = "none" /\ pointer'.auto = pointer.auto
      /\ pointer'.dragging = pointer.dragging /\ pointer'.enabled = pointer.enabled
  BY <1>4, <1>5, PointerFacts DEF Pointers
<1>7. pointer.queue # <<>>
  BY <1>1, <1>2 DEF QueueIsHeld
<1>8. /\ kitMouse' \in KitMice /\ kitMouse'.last <= handTurns
      /\ kitMouse'.pressed = ~HasUp(pointer.queue)
      /\ InOrderFrom(pointer.queue, kitMouse.last) => kitMouse'.late = kitMouse.late
  <2>1. PICK q \in Seq(Items) : q = pointer.queue
    BY PointerFacts
  <2>2. NotAfter(q, handTurns) /\ kitMouse.last <= handTurns /\ handTurns \in Nat /\ kitMouse \in KitMice
    BY <2>1, PointerFacts
  <2>3. /\ kitMouse' \in KitMice /\ kitMouse'.last <= handTurns
        /\ kitMouse'.pressed = IF q = <<>> THEN kitMouse.pressed ELSE ~HasUp(q)
        /\ InOrderFrom(q, kitMouse.last) => kitMouse'.late = kitMouse.late
    BY <1>2, <2>1, <2>2, RunQueueFacts
  <2> QED BY <1>7, <2>1, <2>3
<1>9. PointerShape'
  BY <1>1, <1>2, <1>6, <1>8 DEF PointerShape
<1>10. StampsArePast'
  BY <1>1, <1>2, <1>4, <1>6, <1>8 DEF StampsArePast
<1>11. QueueIsHeld(pointer')
  BY <1>3, <1>6 DEF QueueIsHeld
<1>12. GestureIsOne'
  BY <1>1, <1>2, <1>6 DEF GestureIsOne
<1>13. PressIsHeard' /\ ScrollsInDrag'
  BY <1>1, <1>2, <1>6 DEF PressIsHeard, ScrollsInDrag, Calm
<1>14. PressWillEnd'
  <2> SUFFICES ASSUME Calm({"flick", "held", "unheard", "reentered", "disabled"}), kitMouse'.pressed
               PROVE  pointer.mouseDown
    BY <1>2, <1>6 DEF PressWillEnd, Calm
  <2>1. ~HasUp(pointer.queue)
    BY <1>8
  <2>2. pointer.hold = "press"
    BY <1>1, <1>2, <2>1, PointerFacts DEF QueueIsHeld, Pointers
  <2> QED BY <1>1, <2>2 DEF PressIsHeard, Calm
<1>15. WaitsInOrder'
  <2>1. kitMouse'.last \in Nat
    BY <1>8 DEF KitMice
  <2> QED BY <1>1, <1>2, <1>4, <1>6, <1>8, <2>1 DEF WaitsInOrder, Calm
<1> QED
  BY <1>9, <1>10, <1>11, <1>12, <1>13, <1>14, <1>15 DEF PointerInv

\* HoverTimer: a move is told of late.
LEMMA HoverTimerInv == PointerInv /\ HoverTimer => PointerInv'
<1> SUFFICES ASSUME PointerInv, HoverTimer PROVE PointerInv'
  OBVIOUS
<1>1. PointerShape /\ StampsArePast /\ GestureIsOne /\ PressIsHeard /\ ScrollsInDrag /\ PressWillEnd
      /\ WaitsInOrder /\ QueueIsHeld(pointer)
  BY DEF PointerInv
<1>2. /\ pointer' = [pointer EXCEPT !.hover = 0]
      /\ kitMouse' = PostMouseEvent(kitMouse, "move", pointer.hover)
      /\ hand' = hand /\ tap' = tap /\ handTurns' = handTurns
  BY DEF HoverTimer
<1>3. misses \subseteq misses' /\
      ("hover" \notin misses' => kitMouse.last <= pointer.hover /\ pointer.queue = <<>>)
  <2>1. misses' = misses \cup Miss("hover", pointer.hover < kitMouse.last \/ pointer.queue # <<>>)
    BY DEF HoverTimer
  <2> QED BY <2>1, PointerFacts DEF Miss
<1>4. /\ pointer' \in Pointers /\ SamePress(pointer, pointer') /\ pointer'.hears = pointer.hears
      /\ pointer'.hover = 0 /\ pointer'.box = pointer.box
      /\ pointer'.dragging = pointer.dragging /\ pointer'.enabled = pointer.enabled
  BY <1>2, PointerFacts DEF Pointers, SamePress
<1>5. /\ kitMouse' \in KitMice /\ kitMouse'.pressed = kitMouse.pressed
      /\ kitMouse.last <= pointer.hover => kitMouse'.late = kitMouse.late /\ kitMouse'.last = pointer.hover
      /\ kitMouse'.last <= handTurns
  <2>1. /\ kitMouse' \in KitMice
        /\ kitMouse'.pressed = kitMouse.pressed
        /\ kitMouse.last <= pointer.hover => kitMouse'.late = kitMouse.late /\ kitMouse'.last = pointer.hover
        /\ \A n \in Nat : pointer.hover <= n /\ kitMouse.last <= n => kitMouse'.last <= n
    <3>1. PICK r, stamp : r = kitMouse' /\ stamp = pointer.hover
      OBVIOUS
    <3>2. r = PostMouseEvent(kitMouse, "move", stamp) /\ stamp \in Nat /\ kitMouse \in KitMice
      BY <1>2, <3>1, PointerFacts
    <3>3. r \in KitMice
      BY <3>2, PostFacts
    <3>4. r.pressed = kitMouse.pressed
      BY <3>2, PostFacts
    <3>5. kitMouse.last <= stamp => r.late = kitMouse.late /\ r.last = stamp
      BY <3>2, PostFacts
    <3>6. \A n \in Nat : stamp <= n /\ kitMouse.last <= n => r.last <= n
      BY <3>2, PostFacts
    <3> QED BY <3>1, <3>3, <3>4, <3>5, <3>6
  <2> QED BY <1>1, <2>1 DEF StampsArePast
<1>6. PointerShape'
  BY <1>1, <1>2, <1>4, <1>5 DEF PointerShape
<1>7. StampsArePast'
  BY <1>1, <1>2, <1>4, <1>5 DEF StampsArePast, SamePress
<1>8. QueueIsHeld(pointer')
  BY <1>1, <1>4 DEF QueueIsHeld, SamePress
<1>9. GestureIsOne'
  BY <1>1, <1>2, <1>4 DEF GestureIsOne
<1>10. PressIsHeard' /\ ScrollsInDrag'
  BY <1>1, <1>2, <1>3, <1>4 DEF PressIsHeard, ScrollsInDrag, Calm, SamePress
<1>11. PressWillEnd'
  BY <1>1, <1>3, <1>4, <1>5 DEF PressWillEnd, Calm, SamePress
<1>12. WaitsInOrder'
  <2> SUFFICES ASSUME Calm({"slow", "hover"})' PROVE ~kitMouse'.late /\ InOrderFrom(pointer'.queue, kitMouse'.last)
    BY DEF WaitsInOrder
  <2>1. Calm({"slow", "hover"}) /\ "hover" \notin misses'
    BY <1>3 DEF Calm
  <2>2. ~kitMouse'.late /\ pointer'.queue = <<>> /\ kitMouse'.last \in Nat
    BY <1>1, <1>3, <1>4, <1>5, <2>1 DEF WaitsInOrder, SamePress, KitMice
  <2> QED BY <2>2, EmptyQueue
<1> QED
  BY <1>6, <1>7, <1>8, <1>9, <1>10, <1>11, <1>12 DEF PointerInv

\* Moving with the button down, of the mouse or of a finger: r and k are what becomes of the
\* press and of what the kit has been told.
LEMMA DragKept ==
    ASSUME PointerInv, pointer.mouseDown, NEW b \in Pointers, SamePress(pointer, b),
           b.dragging = pointer.dragging, NEW place \in {"middle", "edge"}, handTurns' \in Nat,
           handTurns <= handTurns', pointer' = DraggedPointer(b, place),
           kitMouse' = DraggedKit(b, kitMouse, handTurns'), b.hover <= handTurns',
           misses' = misses
    PROVE  /\ pointer' \in Pointers /\ kitMouse' \in KitMice
           /\ SameMode(b, pointer') /\ pointer'.mouseDown /\ pointer'.hold = "none"
           /\ b.dragging => pointer'.auto = b.auto
           /\ ~b.dragging => (pointer'.auto => place = "edge")
           /\ StampsArePast' /\ QueueIsHeld(pointer') /\ PressWillEnd' /\ WaitsInOrder'
<1>1. StampsArePast /\ PressWillEnd /\ WaitsInOrder /\ QueueIsHeld(pointer)
  BY DEF PointerInv
<1>2. /\ QueueIsHeld(b) /\ NotAfter(b.queue, handTurns') /\ kitMouse.last <= handTurns'
      /\ b.queue = pointer.queue /\ kitMouse \in KitMice /\ b.mouseDown
  BY <1>1, PointerFacts DEF QueueIsHeld, SamePress
<1>3. /\ pointer' \in Pointers /\ SameMode(b, pointer')
      /\ pointer'.mouseDown = b.mouseDown /\ pointer'.hold = "none" /\ pointer'.queue = <<>>
      /\ pointer'.recent = b.recent
      /\ b.dragging => pointer'.auto = b.auto
      /\ ~b.dragging => (pointer'.auto => place = "edge")
  <2>1. PICK r : r = pointer'
    OBVIOUS
  <2>2. r = DraggedPointer(b, place)
    BY <2>1
  <2>3. /\ r \in Pointers /\ SameMode(b, r)
        /\ r.mouseDown = b.mouseDown /\ r.hold = "none" /\ r.queue = <<>> /\ r.recent = b.recent
        /\ b.dragging => r.auto = b.auto
        /\ ~b.dragging => (r.auto => place = "edge")
    BY <1>2, <2>2, DraggedPointerEffect
  <2> QED BY <2>1, <2>3
<1>4. /\ kitMouse' \in KitMice /\ kitMouse'.last <= handTurns'
      /\ InOrderFrom(b.queue, kitMouse.last) => kitMouse'.late = kitMouse.late
  BY <1>2, DraggedKitEffect
<1>5. NotAfter(pointer'.queue, handTurns') /\ InOrderFrom(pointer'.queue, kitMouse'.last)
  <2>1. kitMouse'.last \in Nat
    BY <1>4 DEF KitMice
  <2> QED BY <1>3, <2>1, EmptyQueue
<1>6. StampsArePast'
  BY <1>3, <1>4, <1>5 DEF StampsArePast, SameMode
<1>7. QueueIsHeld(pointer')
  BY <1>3 DEF QueueIsHeld
<1>8. PressWillEnd'
  BY <1>2, <1>3 DEF PressWillEnd
<1>9. WaitsInOrder'
  BY <1>1, <1>2, <1>4, <1>5 DEF WaitsInOrder, Calm
<1> QED BY <1>2, <1>3, <1>4, <1>6, <1>7, <1>8, <1>9

\* HandMoves: a drag, or a move to be told of later.
LEMMA HandMovesInv == PointerInv /\ HandMoves => PointerInv'
<1> SUFFICES ASSUME PointerInv, HandMoves PROVE PointerInv'
  OBVIOUS
<1>1. PointerShape /\ StampsArePast /\ GestureIsOne /\ PressIsHeard /\ ScrollsInDrag
  BY DEF PointerInv
<1>2. /\ handTurns' \in Nat /\ handTurns <= handTurns' /\ tap.fingers = 0
      /\ tap' = tap /\ misses' = misses
  BY TurnFacts DEF HandMoves
<1>3. PICK place \in {"middle", "edge"} :
        /\ hand' = [hand EXCEPT !.at = place]
        /\ IF ~Takes(pointer) THEN pointer' = BoxMove(pointer) /\ UNCHANGED kitMouse
           ELSE IF pointer.mouseDown
           THEN /\ pointer' = DraggedPointer(BoxMove(pointer), place)
                /\ kitMouse' = DraggedKit(BoxMove(pointer), kitMouse, handTurns')
           ELSE /\ pointer' = [BoxMove(pointer) EXCEPT !.hover = handTurns']
                /\ UNCHANGED kitMouse
  BY DEF HandMoves
<1>4. PICK b : b = BoxMove(pointer)
  OBVIOUS
<1>5. /\ b \in Pointers /\ SamePress(pointer, b) /\ b.hears = pointer.hears /\ b.hover = pointer.hover
      /\ b.dragging = pointer.dragging /\ b.enabled = pointer.enabled
      /\ b.box # "none" => pointer.box # "none"
  BY <1>4, PointerFacts DEF BoxMove, Pointers, SamePress
<1>6. hand' \in Hands /\ hand'.down = hand.down
  BY <1>3, PointerFacts DEF Hands
<1>7. ~tap.listens
  BY <1>1, <1>2 DEF GestureIsOne
<1>8. CASE Takes(pointer) /\ pointer.mouseDown
  <2>1. pointer' = DraggedPointer(b, place) /\ kitMouse' = DraggedKit(b, kitMouse, handTurns')
    BY <1>3, <1>4, <1>8
  <2>2. b.hover <= handTurns'
    BY <1>2, <1>5, PointerFacts
  <2>3. /\ pointer' \in Pointers /\ kitMouse' \in KitMice
        /\ SameMode(b, pointer') /\ pointer'.mouseDown /\ pointer'.hold = "none"
        /\ b.dragging => pointer'.auto = b.auto
        /\ ~b.dragging => (pointer'.auto => place = "edge")
        /\ StampsArePast' /\ QueueIsHeld(pointer') /\ PressWillEnd' /\ WaitsInOrder'
    BY <1>2, <1>5, <1>8, <2>1, <2>2, DragKept
  <2>4. PointerShape'
    BY <1>1, <1>2, <1>6, <2>3 DEF PointerShape
  <2>5. GestureIsOne'
    BY <1>1, <1>2, <1>5, <1>6, <2>3 DEF GestureIsOne, SameMode
  <2>6. PressIsHeard'
    BY <1>1, <1>2, <1>5, <1>6, <1>8, <2>3 DEF PressIsHeard, Calm, SameMode
  <2>7. ScrollsInDrag'
    BY <1>1, <1>2, <1>5, <1>6, <1>7, <1>8, <2>3 DEF ScrollsInDrag, PressIsHeard, Calm, SameMode, SamePress
  <2> QED
    BY <2>3, <2>4, <2>5, <2>6, <2>7 DEF PointerInv
<1>9. CASE ~(Takes(pointer) /\ pointer.mouseDown)
  <2>1. /\ pointer' \in Pointers /\ SamePress(pointer, pointer') /\ kitMouse' = kitMouse
        /\ pointer'.hears = pointer.hears /\ pointer'.dragging = pointer.dragging
        /\ pointer'.enabled = pointer.enabled /\ pointer'.box = b.box
        /\ pointer'.hover <= handTurns'
    <3>1. kitMouse' = kitMouse /\ (pointer' = b \/ pointer' = [b EXCEPT !.hover = handTurns'])
      BY <1>3, <1>4, <1>9
    <3>2. b.hover <= handTurns'
      BY <1>2, <1>5, PointerFacts
    <3> QED BY <1>2, <1>5, <3>1, <3>2 DEF Pointers, SamePress
  <2>2. PointerShape'
    BY <1>1, <1>2, <1>6, <2>1 DEF PointerShape
  <2>3. StampsArePast' /\ QueueIsHeld(pointer') /\ PressWillEnd' /\ WaitsInOrder'
    BY <1>2, <2>1, <2>2, PressKept
  <2>4. GestureIsOne'
    BY <1>1, <1>2, <1>5, <1>6, <2>1 DEF GestureIsOne
  <2>5. PressIsHeard' /\ ScrollsInDrag'
    BY <1>1, <1>2, <1>6, <2>1 DEF PressIsHeard, ScrollsInDrag, Calm, SamePress
  <2> QED
    BY <2>2, <2>3, <2>4, <2>5 DEF PointerInv
<1> QED BY <1>8, <1>9

\* HandMovesOutside: the same outside, at the edge.
LEMMA HandMovesOutsideInv == PointerInv /\ HandMovesOutside => PointerInv'
<1> SUFFICES ASSUME PointerInv, HandMovesOutside PROVE PointerInv'
  OBVIOUS
<1>1. PointerShape /\ StampsArePast /\ GestureIsOne /\ PressIsHeard /\ ScrollsInDrag
  BY DEF PointerInv
<1>2. /\ handTurns' \in Nat /\ handTurns <= handTurns' /\ pointer.hears /\ Takes(pointer)
      /\ hand' = hand /\ tap' = tap /\ misses' = misses
  BY TurnFacts DEF HandMovesOutside
<1>3. SamePress(pointer, pointer) /\ "edge" \in {"middle", "edge"}
  BY DEF SamePress
<1>4. CASE pointer.mouseDown
  <2>1. pointer' = DraggedPointer(pointer, "edge") /\ kitMouse' = DraggedKit(pointer, kitMouse, handTurns')
    BY <1>4 DEF HandMovesOutside
  <2>2. pointer.hover <= handTurns' /\ pointer \in Pointers
    BY <1>2, PointerFacts
  <2>3. /\ pointer' \in Pointers /\ kitMouse' \in KitMice
        /\ SameMode(pointer, pointer') /\ pointer'.mouseDown /\ pointer'.hold = "none"
        /\ pointer.dragging => pointer'.auto = pointer.auto
        /\ StampsArePast' /\ QueueIsHeld(pointer') /\ PressWillEnd' /\ WaitsInOrder'
    BY <1>2, <1>3, <1>4, <2>1, <2>2, DragKept
  <2>4. PointerShape'
    BY <1>1, <1>2, <2>3 DEF PointerShape
  <2>5. GestureIsOne'
    BY <1>1, <1>2, <2>3 DEF GestureIsOne, SameMode
  <2>6. PressIsHeard'
    BY <1>1, <1>2, <1>4, <2>3 DEF PressIsHeard, Calm, SameMode
  <2>7. ScrollsInDrag'
    BY <1>1, <1>2, <1>4, <2>3 DEF ScrollsInDrag, PressIsHeard, Calm, SameMode
  <2> QED
    BY <2>3, <2>4, <2>5, <2>6, <2>7 DEF PointerInv
<1>5. CASE ~pointer.mouseDown
  <2>1. pointer' = [pointer EXCEPT !.hover = handTurns'] /\ kitMouse' = kitMouse
    BY <1>5 DEF HandMovesOutside
  <2>2. /\ pointer' \in Pointers /\ SamePress(pointer, pointer') /\ kitMouse' = kitMouse
        /\ pointer'.hears = pointer.hears /\ pointer'.dragging = pointer.dragging
        /\ pointer'.enabled = pointer.enabled /\ pointer'.box = pointer.box
        /\ pointer'.hover <= handTurns'
    <3>1. PICK n : n = handTurns'
      OBVIOUS
    <3>2. n \in Nat /\ pointer' = [pointer EXCEPT !.hover = n] /\ n <= handTurns'
      BY <1>2, <2>1, <3>1
    <3> QED BY <2>1, <3>2, PointerFacts DEF Pointers, SamePress
  <2>3. PointerShape'
    BY <1>1, <1>2, <2>2 DEF PointerShape
  <2>4. StampsArePast' /\ QueueIsHeld(pointer') /\ PressWillEnd' /\ WaitsInOrder'
    BY <1>2, <2>2, <2>3, PressKept
  <2>5. GestureIsOne'
    BY <1>1, <1>2, <2>2 DEF GestureIsOne
  <2>6. PressIsHeard' /\ ScrollsInDrag'
    BY <1>1, <1>2, <2>2 DEF PressIsHeard, ScrollsInDrag, Calm, SamePress
  <2> QED
    BY <2>3, <2>4, <2>5, <2>6 DEF PointerInv
<1> QED BY <1>4, <1>5

\* FingerDown: a press by a finger, unless something is selected or it is the second one.
LEMMA FingerDownInv == PointerInv /\ FingerDown => PointerInv'
<1> SUFFICES ASSUME PointerInv, FingerDown PROVE PointerInv'
  OBVIOUS
<1>1. PointerShape /\ StampsArePast /\ QueueIsHeld(pointer) /\ GestureIsOne /\ PressIsHeard
      /\ ScrollsInDrag /\ PressWillEnd /\ WaitsInOrder
  BY DEF PointerInv
<1>2. /\ handTurns' \in Nat /\ handTurns <= handTurns' /\ ~hand.down /\ tap.fingers < 2
      /\ hand' = hand /\ kitMouse' = kitMouse /\ misses' = misses
  BY TurnFacts DEF FingerDown
<1>3. /\ \/ pointer' = pointer
         \/ tap'.listens /\ Takes(pointer) /\ pointer' = OnMouseDown(pointer, handTurns')
      /\ tap' \in Taps /\ tap'.fingers > 0 /\ (tap.listens => tap'.listens)
      /\ (tap'.hold => tap'.listens) /\ (tap.fingers = 0 \/ pointer' = pointer)
  <2>1. CASE tap.fingers = 1
    <3>1. tap' = [tap EXCEPT !.fingers = 2, !.hold = FALSE] /\ pointer' = pointer
      BY <2>1 DEF FingerDown
    <3>2. PICK n \in 0..2 : n = 2
      OBVIOUS
    <3>3. tap' = [tap EXCEPT !.fingers = n, !.hold = FALSE] /\ tap \in Taps
      BY <3>1, <3>2, PointerFacts
    <3>4. tap' \in Taps /\ tap'.fingers = n /\ ~tap'.hold /\ tap'.listens = tap.listens
      BY <3>3 DEF Taps
    <3> QED BY <3>1, <3>2, <3>4
  <2>2. CASE tap.fingers # 1
    <3>1. tap.fingers = 0 /\ ~tap.listens /\ ~tap.hold
      BY <1>1, <1>2, <2>2, PointerFacts DEF Taps, GestureIsOne
    <3>2. PICK selected \in BOOLEAN :
            IF selected /\ ~tap.bar THEN tap' = [tap EXCEPT !.fingers = 1, !.bar = TRUE] /\ pointer' = pointer
            ELSE /\ tap' = [tap EXCEPT !.fingers = 1, !.bar = FALSE, !.hold = TRUE, !.listens = TRUE,
                                       !.moved = FALSE, !.still = TRUE]
                 /\ pointer' = IF Takes(pointer) THEN OnMouseDown(pointer, handTurns') ELSE pointer
      BY <2>2 DEF FingerDown
    <3>3. CASE selected /\ ~tap.bar
      <4>1. tap' = [tap EXCEPT !.fingers = 1, !.bar = TRUE] /\ pointer' = pointer
        BY <3>2, <3>3
      <4>2. PICK n \in 0..2 : n = 1
        OBVIOUS
      <4>3. tap' = [tap EXCEPT !.fingers = n, !.bar = TRUE] /\ tap \in Taps
        BY <4>1, <4>2, PointerFacts
      <4>4. tap' \in Taps /\ tap'.fingers = n /\ tap'.hold = tap.hold /\ tap'.listens = tap.listens
        BY <4>3 DEF Taps
      <4> QED BY <3>1, <4>1, <4>2, <4>4
    <3>4. CASE ~(selected /\ ~tap.bar)
      <4>1. tap' = [tap EXCEPT !.fingers = 1, !.bar = FALSE, !.hold = TRUE, !.listens = TRUE,
                               !.moved = FALSE, !.still = TRUE]
        BY <3>2, <3>4
      <4>2. pointer' = IF Takes(pointer) THEN OnMouseDown(pointer, handTurns') ELSE pointer
        BY <3>2, <3>4
      <4>3. PICK n \in 0..2 : n = 1
        OBVIOUS
      <4>4. /\ tap' = [tap EXCEPT !.fingers = n, !.bar = FALSE, !.hold = TRUE, !.listens = TRUE,
                                  !.moved = FALSE, !.still = TRUE]
            /\ tap \in Taps
        BY <4>1, <4>3, PointerFacts
      <4>5. tap' \in Taps
        BY <4>4 DEF Taps
      <4>6. tap'.fingers = n /\ tap'.listens /\ tap'.hold
        BY <4>4 DEF Taps
      <4> QED BY <3>1, <4>2, <4>3, <4>5, <4>6
    <3> QED BY <3>3, <3>4
  <2> QED BY <2>1, <2>2
<1>4. GestureIsOne /\ QueueIsHeld(pointer)
  BY <1>1
<1>5. CASE pointer' = pointer
  <2>1. PointerShape'
    BY <1>1, <1>2, <1>3, <1>5 DEF PointerShape
  <2>2. pointer'.hover <= handTurns' /\ SamePress(pointer, pointer')
    BY <1>2, <1>5, PointerFacts DEF SamePress
  <2>3. StampsArePast' /\ QueueIsHeld(pointer') /\ PressWillEnd' /\ WaitsInOrder'
    BY <1>2, <2>1, <2>2, PressKept
  <2>4. GestureIsOne'
    BY <1>1, <1>2, <1>3, <1>5 DEF GestureIsOne
  <2>5. PressIsHeard' /\ ScrollsInDrag'
    BY <1>1, <1>2, <1>3, <1>5 DEF PressIsHeard, ScrollsInDrag, Calm
  <2> QED
    BY <2>1, <2>3, <2>4, <2>5 DEF PointerInv
<1>6. CASE tap.fingers = 0 /\ tap'.listens /\ Takes(pointer) /\ pointer' = OnMouseDown(pointer, handTurns')
  <2>1. PICK r, stamp : r = pointer' /\ stamp = handTurns'
    OBVIOUS
  <2>2. /\ r = OnMouseDown(pointer, stamp) /\ stamp \in Nat /\ pointer \in Pointers
        /\ NotAfter(pointer.queue, stamp)
    BY <1>2, <1>6, <2>1, PointerFacts
  <2>3. /\ r \in Pointers /\ SameMode(pointer, r) /\ r.mouseDown /\ r.hold = "press"
        /\ r.auto = pointer.auto /\ r.recent = pointer.recent
        /\ QueueIsHeld(r) /\ NotAfter(r.queue, stamp)
        /\ \A n \in Nat : n <= stamp /\ InOrderFrom(pointer.queue, n) => InOrderFrom(r.queue, n)
        /\ pointer.queue # <<>> /\ FirstIsUp(pointer.queue) => FirstIsUp(r.queue)
    BY <2>2, PressEffect
  <2>4. pointer.enabled /\ ~tap.listens
    BY <1>1, <1>6 DEF Takes, GestureIsOne
  <2>5. PointerShape'
    BY <1>1, <1>2, <1>3, <2>1, <2>3 DEF PointerShape
  <2>6. StampsArePast'
    BY <1>2, <2>1, <2>3, PointerFacts DEF StampsArePast, SameMode
  <2>7. QueueIsHeld(pointer')
    BY <2>1, <2>3 DEF QueueIsHeld
  <2>8. GestureIsOne'
    BY <1>1, <1>2, <1>3, <2>1, <2>3 DEF GestureIsOne, SameMode
  <2>9. PressIsHeard'
    BY <1>1, <1>2, <1>3, <1>6, <2>1, <2>3, <2>4 DEF PressIsHeard, Calm, SameMode
  <2>10. ScrollsInDrag'
    BY <1>1, <1>2, <2>1, <2>3 DEF ScrollsInDrag, Calm
  <2>11. PressWillEnd'
    <3> SUFFICES ASSUME Calm({"flick", "held", "unheard", "reentered", "disabled"}), kitMouse.pressed
                 PROVE  IF r.hold = "none" THEN r.mouseDown ELSE FirstIsUp(r.queue)
      BY <1>2, <2>1 DEF PressWillEnd, Calm
    <3>1. ~pointer.mouseDown
      BY <1>1, <1>2, <2>4 DEF PressIsHeard, Calm
    <3>2. FirstIsUp(pointer.queue) /\ pointer.queue # <<>>
      BY <1>1, <3>1 DEF PressWillEnd, FirstIsUp
    <3> QED BY <2>3, <3>2
  <2>12. WaitsInOrder'
    <3>1. kitMouse.last <= stamp /\ kitMouse.last \in Nat
      BY <1>2, <2>1, PointerFacts
    <3> QED BY <1>1, <1>2, <2>1, <2>3, <3>1 DEF WaitsInOrder, Calm
  <2> QED
    BY <2>5, <2>6, <2>7, <2>8, <2>9, <2>10, <2>11, <2>12 DEF PointerInv
<1> QED BY <1>3, <1>5, <1>6

\* FingerMoves: a drag by a finger.
LEMMA FingerMovesInv == PointerInv /\ FingerMoves => PointerInv'
<1> SUFFICES ASSUME PointerInv, FingerMoves PROVE PointerInv'
  OBVIOUS
<1>1. PointerShape /\ StampsArePast /\ GestureIsOne /\ PressIsHeard /\ ScrollsInDrag
  BY DEF PointerInv
<1>2. /\ handTurns' \in Nat /\ handTurns <= handTurns' /\ tap.listens
      /\ tap' = [tap EXCEPT !.moved = TRUE]
      /\ hand' = hand /\ misses' = misses
  BY TurnFacts DEF FingerMoves
<1>3. tap' \in Taps /\ tap'.fingers = tap.fingers /\ tap'.listens = tap.listens /\ tap'.hold = tap.hold
  BY <1>2, PointerFacts DEF Taps
<1>4. ~hand.down
  BY <1>1, <1>2, PointerFacts DEF GestureIsOne, Taps
<1>5. SamePress(pointer, pointer) /\ "middle" \in {"middle", "edge"}
  BY DEF SamePress
<1>6. CASE Takes(pointer) /\ pointer.mouseDown
  <2>1. pointer' = DraggedPointer(pointer, "middle") /\ kitMouse' = DraggedKit(pointer, kitMouse, handTurns')
    BY <1>6 DEF FingerMoves
  <2>2. pointer.hover <= handTurns' /\ pointer \in Pointers
    BY <1>2, PointerFacts
  <2>3. /\ pointer' \in Pointers /\ kitMouse' \in KitMice
        /\ SameMode(pointer, pointer') /\ pointer'.mouseDown /\ pointer'.hold = "none"
        /\ pointer.dragging => pointer'.auto = pointer.auto
        /\ ~pointer.dragging => ~pointer'.auto
        /\ StampsArePast' /\ QueueIsHeld(pointer') /\ PressWillEnd' /\ WaitsInOrder'
    BY <1>2, <1>5, <1>6, <2>1, <2>2, DragKept
  <2>4. PointerShape'
    BY <1>1, <1>2, <1>3, <2>3 DEF PointerShape
  <2>5. GestureIsOne'
    BY <1>1, <1>2, <1>3, <2>3 DEF GestureIsOne, SameMode
  <2>6. PressIsHeard'
    BY <1>1, <1>2, <1>3, <1>6, <2>3 DEF PressIsHeard, Calm, SameMode
  <2>7. ScrollsInDrag'
    BY <1>1, <1>2, <1>4, <2>3 DEF ScrollsInDrag, Calm, SameMode
  <2> QED
    BY <2>3, <2>4, <2>5, <2>6, <2>7 DEF PointerInv
<1>7. CASE ~(Takes(pointer) /\ pointer.mouseDown)
  <2>1. /\ pointer' \in Pointers /\ SamePress(pointer, pointer') /\ kitMouse' = kitMouse
        /\ pointer'.hears = pointer.hears /\ pointer'.dragging = pointer.dragging
        /\ pointer'.enabled = pointer.enabled /\ pointer'.box = pointer.box
        /\ pointer'.hover <= handTurns'
    <3>1. kitMouse' = kitMouse /\ (pointer' = pointer \/ pointer' = [pointer EXCEPT !.hover = handTurns'])
      BY <1>7 DEF FingerMoves
    <3>2. pointer.hover <= handTurns' /\ pointer \in Pointers
      BY <1>2, PointerFacts
    <3> QED BY <1>2, <3>1, <3>2 DEF Pointers, SamePress
  <2>2. PointerShape'
    BY <1>1, <1>2, <1>3, <2>1 DEF PointerShape
  <2>3. StampsArePast' /\ QueueIsHeld(pointer') /\ PressWillEnd' /\ WaitsInOrder'
    BY <1>2, <2>1, <2>2, PressKept
  <2>4. GestureIsOne'
    BY <1>1, <1>2, <1>3, <2>1 DEF GestureIsOne
  <2>5. PressIsHeard' /\ ScrollsInDrag'
    BY <1>1, <1>2, <1>3, <2>1 DEF PressIsHeard, ScrollsInDrag, Calm, SamePress
  <2> QED
    BY <2>2, <2>3, <2>4, <2>5 DEF PointerInv
<1> QED BY <1>6, <1>7

\* HandReleases: heard by the map, by the listeners outside, by both or by none.
LEMMA HandReleasesInv == PointerInv /\ HandReleases => PointerInv'
<1> SUFFICES ASSUME PointerInv, HandReleases PROVE PointerInv'
  OBVIOUS
<1>1. PointerShape /\ StampsArePast /\ QueueIsHeld(pointer) /\ GestureIsOne /\ PressIsHeard
      /\ ScrollsInDrag /\ PressWillEnd /\ WaitsInOrder
  BY DEF PointerInv
<1>2. PICK stamp : stamp = handTurns'
  OBVIOUS
<1>3. /\ stamp \in Nat /\ handTurns <= stamp /\ hand.down /\ tap' = tap
      /\ NotAfter(pointer.queue, stamp) /\ kitMouse.last <= stamp /\ pointer.hover <= stamp
      /\ pointer \in Pointers
  BY <1>2, TurnFacts, PointerFacts DEF HandReleases
<1>4. PICK b : b = BoxOff(pointer)
  OBVIOUS
<1>5. /\ b \in Pointers /\ SamePress(pointer, b) /\ b.hears = pointer.hears /\ b.hover = pointer.hover
      /\ b.dragging = pointer.dragging /\ b.enabled = pointer.enabled /\ b.box = "none"
  BY <1>3, <1>4 DEF BoxOff, Pointers, SamePress
<1>6. PICK inside : inside = (hand.at # "outside" /\ Takes(pointer))
  OBVIOUS
<1>7. PICK first : first = IF inside THEN OnMouseUp(b, stamp) ELSE b
  OBVIOUS
<1>8. PICK off : off = IF b.hears THEN [first EXCEPT !.mouseDown = FALSE, !.hears = FALSE] ELSE first
  OBVIOUS
<1>9. pointer' = IF b.hears /\ Takes(pointer) THEN OnMouseUp(off, stamp) ELSE off
  BY <1>2, <1>4, <1>6, <1>7, <1>8 DEF HandReleases
<1>10. PICK double : double = (inside /\ hand.soon /\ hand.clicks = 1)
  OBVIOUS
<1>11. PICK more : more = (inside /\ MultiClicks(pointer, hand.clicks))
  OBVIOUS
<1>12. kitMouse' = IF double \/ more THEN MultiClickKit(kitMouse, stamp) ELSE kitMouse
  BY <1>2, <1>6, <1>10, <1>11 DEF HandReleases
<1>13. misses' = misses \cup Miss("flick", pointer.recent /\ (pointer.hold = "none" \/ Head(pointer.queue).type = "up"))
                        \cup Miss("held", pointer.dragging /\ pointer.queue = <<>> /\ kitMouse.pressed)
                        \cup Miss("slow", double /\ ~pointer.recent)
                        \cup Miss("unheard", ~inside /\ ~pointer.hears)
                        \cup Miss("reentered", inside /\ pointer.hears)
                        \cup Miss("disabled", ~pointer.enabled)
  BY <1>6, <1>10, <1>11 DEF HandReleases
<1>14. /\ misses \subseteq misses'
       /\ Flicks(pointer) => "flick" \in misses'
       /\ pointer.dragging /\ pointer.queue = <<>> /\ kitMouse.pressed => "held" \in misses'
       /\ double /\ ~pointer.recent => "slow" \in misses'
       /\ ~inside /\ ~pointer.hears => "unheard" \in misses'
       /\ inside /\ pointer.hears => "reentered" \in misses'
       /\ ~pointer.enabled => "disabled" \in misses'
  <2>1. FirstIsUp(pointer.queue) => Head(pointer.queue).type = "up"
    BY PointerFacts DEF FirstIsUp
  <2> QED BY <1>13, <2>1 DEF Miss, Flicks
<1>15. hand' \in Hands /\ ~hand'.down
  <2>1. PICK clicks : clicks = IF ~inside THEN 0 ELSE IF hand.soon /\ hand.clicks < 4 THEN hand.clicks + 1 ELSE 1
    OBVIOUS
  <2>2. clicks \in 0..4 /\ inside \in BOOLEAN
    BY <1>6, <2>1, PointerFacts DEF Hands
  <2>3. hand' = [hand EXCEPT !.down = FALSE, !.soon = inside, !.clicks = clicks]
    BY <1>6, <2>1, PointerFacts DEF HandReleases, Hands
  <2> QED BY <2>2, <2>3, PointerFacts DEF Hands
<1>16. ~tap.listens /\ ~tap.hold
  BY <1>1, <1>3 DEF GestureIsOne
<1>17. QueueIsHeld(b) /\ NotAfter(b.queue, stamp) /\ (Flicks(b) <=> Flicks(pointer))
  BY <1>1, <1>3, <1>5 DEF QueueIsHeld, SamePress, Flicks
<1> DEFINE Heard(p, r) ==
      /\ r \in Pointers /\ SameMode(p, r) /\ ~r.mouseDown
      /\ QueueIsHeld(r) /\ NotAfter(r.queue, stamp)
      /\ \A n \in Nat : n <= stamp /\ InOrderFrom(p.queue, n) => InOrderFrom(r.queue, n)
      /\ r.hold # "press"
      /\ p.recent => r.queue = <<>>
      /\ r.auto => p.auto
      /\ p.hold = "none" /\ ~p.dragging /\ ~Flicks(p) => ~r.auto
      /\ ~(p.dragging /\ p.queue = <<>>) /\ ~Flicks(p) /\ (p.hold = "none" \/ FirstIsUp(p.queue))
            => r.hold # "none" /\ FirstIsUp(r.queue)
<1>18. ASSUME NEW p \in Pointers, QueueIsHeld(p), NotAfter(p.queue, stamp), NEW r, r = OnMouseUp(p, stamp)
       PROVE  Heard(p, r)
  BY <1>3, <1>18, ReleaseEffect
<1>19. \* What every way to hear of it has in common.
       /\ pointer' \in Pointers /\ pointer'.box = "none" /\ pointer'.hover = pointer.hover /\ ~pointer'.hears
       /\ QueueIsHeld(pointer') /\ NotAfter(pointer'.queue, stamp)
       /\ \A n \in Nat : n <= stamp /\ InOrderFrom(pointer.queue, n) => InOrderFrom(pointer'.queue, n)
       /\ inside /\ pointer.recent => pointer'.queue = <<>>
       /\ "unheard" \notin misses' /\ "disabled" \notin misses' =>
             /\ ~pointer'.mouseDown /\ pointer'.hold # "press"
             /\ pointer.hold = "none" /\ ~pointer.dragging /\ ~Flicks(pointer) => ~pointer'.auto
             /\ pointer.auto \/ ~pointer'.auto
             /\ "reentered" \notin misses' =>
                   (~(pointer.dragging /\ pointer.queue = <<>>) /\ ~Flicks(pointer)
                       /\ (pointer.hold = "none" \/ FirstIsUp(pointer.queue))
                     => pointer'.hold # "none" /\ FirstIsUp(pointer'.queue))
  <2>1. CASE inside /\ ~pointer.hears
    <3>1. first = OnMouseUp(b, stamp) /\ pointer' = first
      BY <1>5, <1>7, <1>8, <1>9, <2>1
    <3>2. Heard(b, first)
      BY <1>5, <1>17, <1>18, <3>1
    <3> QED BY <1>5, <1>17, <2>1, <3>1, <3>2 DEF SameMode, SamePress
  <2>2. CASE inside /\ pointer.hears
    <3>1. first = OnMouseUp(b, stamp) /\ Takes(pointer)
      BY <1>6, <1>7, <2>2
    <3>2. Heard(b, first)
      BY <1>5, <1>17, <1>18, <3>1
    <3>3. off = [first EXCEPT !.mouseDown = FALSE, !.hears = FALSE]
      BY <1>5, <1>8, <2>2
    <3>4. /\ off \in Pointers /\ SamePress(first, off) /\ ~off.hears /\ off.hover = first.hover
          /\ off.dragging = first.dragging /\ off.box = first.box
      BY <3>2, <3>3 DEF Pointers, SamePress
    <3>5. QueueIsHeld(off) /\ NotAfter(off.queue, stamp)
      BY <3>2, <3>4 DEF QueueIsHeld, SamePress
    <3>6. pointer' = OnMouseUp(off, stamp)
      BY <1>5, <1>9, <2>2, <3>1
    <3>7. PICK r : r = pointer'
      OBVIOUS
    <3>8. Heard(off, r)
      BY <1>18, <3>4, <3>5, <3>6, <3>7
    <3>9. b.recent => off.queue = <<>>
      BY <3>2, <3>4 DEF SamePress
    <3>10. b.recent => off.recent
      <4>1. IF b.dragging /\ b.queue = <<>>
            THEN first.queue = b.queue /\ first.hold = b.hold /\ first.recent = b.recent /\ first.auto = b.auto
            ELSE IsDouble(b, first) \/ ReleaseWaits(b, first, stamp)
        BY <1>3, <1>5, <3>1, MouseUpEffect
      <4> QED BY <3>4, <4>1 DEF IsDouble, ReleaseWaits, SamePress
    <3>11. \A n \in Nat : n <= stamp /\ InOrderFrom(b.queue, n) => InOrderFrom(r.queue, n)
      BY <3>2, <3>4, <3>8 DEF SamePress
    <3>12. inside /\ pointer.recent => r.queue = <<>>
      BY <1>5, <3>8, <3>10 DEF SamePress
    <3> QED BY <1>5, <1>14, <1>17, <2>2, <3>2, <3>4, <3>7, <3>8, <3>11, <3>12 DEF SameMode, SamePress
  <2>3. CASE ~inside /\ pointer.hears /\ Takes(pointer)
    <3>1. off = [b EXCEPT !.mouseDown = FALSE, !.hears = FALSE] /\ pointer' = OnMouseUp(off, stamp)
      BY <1>5, <1>7, <1>8, <1>9, <2>3
    <3>2. /\ off \in Pointers /\ ~off.hears /\ off.hover = b.hover /\ off.hold = b.hold /\ off.queue = b.queue
          /\ off.recent = b.recent /\ off.auto = b.auto /\ off.dragging = b.dragging /\ off.box = b.box
      BY <1>5, <3>1 DEF Pointers
    <3>3. QueueIsHeld(off) /\ NotAfter(off.queue, stamp) /\ (Flicks(off) <=> Flicks(b))
      BY <1>17, <3>2 DEF QueueIsHeld, Flicks
    <3>4. PICK r : r = pointer'
      OBVIOUS
    <3>5. Heard(off, r)
      BY <1>18, <3>1, <3>2, <3>3, <3>4
    <3> QED BY <1>5, <1>17, <2>3, <3>2, <3>3, <3>4, <3>5 DEF SameMode, SamePress
  <2>4. CASE ~inside /\ ~(pointer.hears /\ Takes(pointer))
    <3>1. "unheard" \in misses' \/ "disabled" \in misses'
      BY <1>14, <2>4 DEF Takes
    <3>2. /\ pointer' \in Pointers /\ ~pointer'.hears /\ pointer'.hover = b.hover /\ pointer'.hold = b.hold
          /\ pointer'.queue = b.queue /\ pointer'.recent = b.recent /\ pointer'.box = b.box
      BY <1>5, <1>7, <1>8, <1>9, <2>4 DEF Pointers
    <3>3. QueueIsHeld(pointer')
      BY <1>17, <3>2 DEF QueueIsHeld
    <3> QED BY <1>3, <1>5, <2>4, <3>1, <3>2, <3>3 DEF SamePress
  <2> QED BY <2>1, <2>2, <2>3, <2>4
<1> HIDE DEF Heard
<1>20. /\ kitMouse' \in KitMice /\ kitMouse'.last <= stamp /\ kitMouse'.late = kitMouse.late
       /\ kitMouse'.pressed => kitMouse.pressed
       /\ kitMouse' = kitMouse \/ ((double \/ more) /\ kitMouse'.last = stamp)
  <2>1. CASE double \/ more
    <3>1. kitMouse' = MultiClickKit(kitMouse, stamp) /\ kitMouse \in KitMice
      BY <1>12, <2>1, PointerFacts
    <3>2. kitMouse' \in KitMice /\ ~kitMouse'.pressed /\ kitMouse'.last = stamp /\ kitMouse'.late = kitMouse.late
      BY <1>3, <3>1, MultiClickEffect
    <3> QED BY <1>3, <2>1, <3>2
  <2>2. CASE ~(double \/ more)
    BY <1>3, <1>12, <2>2, PointerFacts
  <2> QED BY <2>1, <2>2
<1>21. PointerShape'
  BY <1>1, <1>3, <1>15, <1>19, <1>20 DEF PointerShape
<1>22. StampsArePast'
  BY <1>2, <1>3, <1>19, <1>20 DEF StampsArePast
<1>23. GestureIsOne'
  BY <1>1, <1>3, <1>15, <1>16, <1>19 DEF GestureIsOne
<1>24. PressIsHeard'
  BY <1>19 DEF PressIsHeard, Calm
<1>25. ScrollsInDrag'
  <2> SUFFICES ASSUME Calm({"flick", "unheard", "disabled", "switched"})' PROVE ~pointer'.auto
    BY DEF ScrollsInDrag
  <2>1. /\ Calm({"flick", "unheard", "disabled", "switched"})
        /\ "flick" \notin misses' /\ "unheard" \notin misses' /\ "disabled" \notin misses'
    BY <1>14 DEF Calm
  <2>2. pointer.auto => pointer.hold = "none" /\ ~pointer.dragging
    BY <1>1, <2>1 DEF ScrollsInDrag
  <2> QED BY <1>14, <1>19, <2>1, <2>2
<1>26. PressWillEnd'
  <2> SUFFICES ASSUME Calm({"flick", "held", "unheard", "reentered", "disabled"})', kitMouse'.pressed
               PROVE  pointer'.hold # "none" /\ FirstIsUp(pointer'.queue)
    BY DEF PressWillEnd
  <2>1. /\ Calm({"flick", "held", "unheard", "reentered", "disabled"})
        /\ "flick" \notin misses' /\ "held" \notin misses' /\ "unheard" \notin misses'
        /\ "reentered" \notin misses' /\ "disabled" \notin misses'
    BY <1>14 DEF Calm
  <2>2. pointer.hold = "none" \/ FirstIsUp(pointer.queue)
    BY <1>1, <1>20, <2>1 DEF PressWillEnd
  <2>3. ~(pointer.dragging /\ pointer.queue = <<>>) /\ ~Flicks(pointer)
    BY <1>14, <1>20, <2>1
  <2> QED BY <1>19, <2>1, <2>2, <2>3
<1>27. WaitsInOrder'
  <2> SUFFICES ASSUME Calm({"slow", "hover"})'
               PROVE  ~kitMouse'.late /\ InOrderFrom(pointer'.queue, kitMouse'.last)
    BY DEF WaitsInOrder
  <2>1. Calm({"slow", "hover"}) /\ "slow" \notin misses'
    BY <1>14 DEF Calm
  <2>2. ~kitMouse.late /\ InOrderFrom(pointer.queue, kitMouse.last)
    BY <1>1, <2>1 DEF WaitsInOrder
  <2>3. CASE kitMouse' = kitMouse
    BY <1>3, <1>19, <2>2, <2>3, PointerFacts
  <2>4. CASE (double \/ more) /\ kitMouse'.last = stamp
    <3>1. inside /\ pointer.recent
      BY <1>10, <1>11, <1>14, <2>1, <2>4 DEF MultiClicks
    <3>2. pointer'.queue = <<>>
      BY <1>19, <3>1
    <3> QED BY <1>3, <1>20, <2>2, <2>4, <3>2, EmptyQueue
  <2> QED BY <1>20, <2>3, <2>4
<1> QED
  BY <1>19, <1>21, <1>22, <1>23, <1>24, <1>25, <1>26, <1>27 DEF PointerInv

\* FingerUp: the release, when the finger is listened to.
LEMMA FingerUpInv == PointerInv /\ FingerUp => PointerInv'
<1> SUFFICES ASSUME PointerInv, FingerUp PROVE PointerInv'
  OBVIOUS
<1>1. PointerShape /\ StampsArePast /\ QueueIsHeld(pointer) /\ GestureIsOne /\ PressIsHeard
      /\ ScrollsInDrag /\ PressWillEnd /\ WaitsInOrder
  BY DEF PointerInv
<1>2. /\ handTurns' \in Nat /\ handTurns <= handTurns' /\ tap.fingers > 0
      /\ hand' = hand /\ kitMouse' = kitMouse
  BY TurnFacts DEF FingerUp
<1>3. ~hand.down
  BY <1>1, <1>2, PointerFacts DEF GestureIsOne, Taps
<1>4. tap' \in Taps /\ ~tap'.listens /\ ~tap'.hold
  <2>1. PICK t : t = IF tap.listens THEN TapOff(tap) ELSE tap
    OBVIOUS
  <2>2. t \in Taps /\ ~t.listens /\ ~t.hold /\ t.fingers = tap.fingers
    BY <1>1, <2>1, PointerFacts DEF Taps, TapOff, GestureIsOne
  <2>3. PICK n : n = t.fingers - 1
    OBVIOUS
  <2>4. n \in 0..2
    BY <1>2, <2>2, <2>3 DEF Taps
  <2>5. tap' = [t EXCEPT !.fingers = n]
    BY <2>1, <2>3 DEF FingerUp
  <2> QED BY <2>2, <2>4, <2>5 DEF Taps
<1>5. CASE tap.listens /\ Takes(pointer)
  <2>1. PICK r, stamp : r = pointer' /\ stamp = handTurns'
    OBVIOUS
  <2>2. /\ r = OnMouseUp(pointer, stamp) /\ stamp \in Nat /\ pointer \in Pointers
        /\ NotAfter(pointer.queue, stamp)
    BY <1>2, <1>5, <2>1, PointerFacts DEF FingerUp
  <2>3. /\ r \in Pointers /\ SameMode(pointer, r) /\ ~r.mouseDown
        /\ QueueIsHeld(r) /\ NotAfter(r.queue, stamp)
        /\ \A n \in Nat : n <= stamp /\ InOrderFrom(pointer.queue, n) => InOrderFrom(r.queue, n)
        /\ r.hold # "press"
        /\ r.auto => pointer.auto
        /\ ~(pointer.dragging /\ pointer.queue = <<>>) /\ ~Flicks(pointer)
              /\ (pointer.hold = "none" \/ FirstIsUp(pointer.queue))
              => r.hold # "none" /\ FirstIsUp(r.queue)
    BY <1>1, <2>2, ReleaseEffect
  <2>4. /\ misses \subseteq misses'
        /\ Flicks(pointer) => "flick" \in misses'
        /\ pointer.dragging /\ pointer.queue = <<>> /\ kitMouse.pressed => "held" \in misses'
    <3>1. FirstIsUp(pointer.queue) => Head(pointer.queue).type = "up"
      BY PointerFacts DEF FirstIsUp
    <3>2. misses' = misses \cup Miss("flick", pointer.recent /\ (pointer.hold = "none" \/ Head(pointer.queue).type = "up"))
                           \cup Miss("held", pointer.dragging /\ pointer.queue = <<>> /\ kitMouse.pressed)
      BY <1>5 DEF FingerUp
    <3> QED BY <3>1, <3>2 DEF Miss, Flicks
  <2>5. PointerShape'
    BY <1>1, <1>2, <1>4, <2>1, <2>3 DEF PointerShape
  <2>6. StampsArePast'
    BY <1>2, <2>1, <2>3, PointerFacts DEF StampsArePast, SameMode
  <2>7. QueueIsHeld(pointer')
    BY <2>1, <2>3 DEF QueueIsHeld
  <2>8. GestureIsOne'
    BY <1>1, <1>2, <1>3, <1>4, <2>1, <2>3 DEF GestureIsOne, SameMode
  <2>9. PressIsHeard'
    BY <1>1, <1>2, <2>1, <2>3, <2>4 DEF PressIsHeard, Calm, SameMode
  <2>10. ScrollsInDrag'
    BY <1>1, <1>3, <2>1, <2>3, <2>4 DEF ScrollsInDrag, Calm
  <2>11. PressWillEnd'
    BY <1>1, <1>2, <2>1, <2>3, <2>4 DEF PressWillEnd, Calm
  <2>12. WaitsInOrder'
    <3>1. kitMouse.last <= stamp /\ kitMouse.last \in Nat
      BY <1>2, <2>1, PointerFacts
    <3> QED BY <1>1, <1>2, <2>1, <2>3, <2>4, <3>1 DEF WaitsInOrder, Calm
  <2> QED
    BY <2>5, <2>6, <2>7, <2>8, <2>9, <2>10, <2>11, <2>12 DEF PointerInv
<1>6. CASE ~(tap.listens /\ Takes(pointer))
  <2>1. pointer' = pointer /\ misses \subseteq misses'
    BY <1>6 DEF FingerUp
  <2>2. PointerShape'
    BY <1>1, <1>2, <1>4, <2>1 DEF PointerShape
  <2>3. pointer'.hover <= handTurns' /\ SamePress(pointer, pointer')
    BY <1>2, <2>1, PointerFacts DEF SamePress
  <2>4. StampsArePast' /\ QueueIsHeld(pointer') /\ PressWillEnd' /\ WaitsInOrder'
    BY <1>2, <2>1, <2>2, <2>3, PressKept
  <2>5. GestureIsOne'
    BY <1>1, <1>2, <1>3, <1>4, <2>1 DEF GestureIsOne
  <2>6. PressIsHeard'
    BY <1>1, <1>2, <1>3, <1>6, <2>1 DEF PressIsHeard, Calm, Takes
  <2>7. ScrollsInDrag'
    BY <1>1, <1>2, <2>1 DEF ScrollsInDrag, Calm
  <2> QED
    BY <2>2, <2>4, <2>5, <2>6, <2>7 DEF PointerInv
<1> QED BY <1>5, <1>6

\* TapTimer: a finger that was still makes a double click.
LEMMA TapTimerInv == PointerInv /\ TapTimer => PointerInv'
<1> SUFFICES ASSUME PointerInv, TapTimer PROVE PointerInv'
  OBVIOUS
<1>1. PointerShape /\ StampsArePast /\ QueueIsHeld(pointer) /\ GestureIsOne /\ PressIsHeard
      /\ ScrollsInDrag /\ PressWillEnd /\ WaitsInOrder
  BY DEF PointerInv
<1>2. /\ handTurns' = handTurns /\ tap.hold /\ ~pointer.recent /\ pointer.hold # "press"
      /\ hand' = hand /\ misses' = misses /\ handTurns \in Nat
  BY PointerFacts DEF TapTimer
<1>3. tap.listens /\ ~hand.down
  BY <1>1, <1>2, PointerFacts DEF GestureIsOne, Taps
<1>4. pointer.hold = "none" /\ pointer.queue = <<>>
  BY <1>1, <1>2, PointerFacts DEF QueueIsHeld, Pointers
<1>5. CASE tap.moved
  <2>1. tap' = [tap EXCEPT !.hold = FALSE, !.still = FALSE] /\ pointer' = pointer /\ kitMouse' = kitMouse
    BY <1>5 DEF TapTimer
  <2>2. tap' \in Taps /\ tap'.listens = tap.listens /\ tap'.fingers = tap.fingers /\ ~tap'.hold
    BY <2>1, PointerFacts DEF Taps
  <2>3. PointerShape'
    BY <1>1, <1>2, <2>1, <2>2 DEF PointerShape
  <2>4. pointer'.hover <= handTurns' /\ SamePress(pointer, pointer')
    BY <1>2, <2>1, PointerFacts DEF SamePress
  <2>5. StampsArePast' /\ QueueIsHeld(pointer') /\ PressWillEnd' /\ WaitsInOrder'
    BY <1>2, <2>1, <2>3, <2>4, PressKept
  <2>6. GestureIsOne'
    BY <1>1, <1>2, <2>1, <2>2 DEF GestureIsOne
  <2>7. PressIsHeard' /\ ScrollsInDrag'
    BY <1>1, <1>2, <2>1, <2>2 DEF PressIsHeard, ScrollsInDrag, Calm
  <2> QED
    BY <2>3, <2>5, <2>6, <2>7 DEF PointerInv
<1>6. CASE ~tap.moved
  <2>1. tap' = [TapOff(tap) EXCEPT !.still = FALSE]
    BY <1>6 DEF TapTimer
  <2>2. tap' \in Taps /\ ~tap'.listens /\ tap'.fingers = tap.fingers /\ ~tap'.hold
    BY <2>1, PointerFacts DEF Taps, TapOff
  <2>3. GestureIsOne' \/ pointer'.box # "none"
    BY <1>1, <1>2, <2>2 DEF GestureIsOne
  <2>4. CASE Takes(pointer)
    <3>1. PICK r : r = pointer'
      OBVIOUS
    <3>2. /\ r = OnMouseUp(pointer, handTurns) /\ kitMouse' = MultiClickKit(kitMouse, handTurns)
          /\ pointer \in Pointers /\ NotAfter(pointer.queue, handTurns)
          /\ kitMouse \in KitMice /\ kitMouse.last <= handTurns
      BY <1>2, <1>6, <2>4, <3>1, PointerFacts DEF TapTimer
    <3>3. /\ r \in Pointers /\ SameMode(pointer, r) /\ ~r.mouseDown
          /\ QueueIsHeld(r) /\ NotAfter(r.queue, handTurns)
          /\ \A n \in Nat : n <= handTurns /\ InOrderFrom(pointer.queue, n) => InOrderFrom(r.queue, n)
          /\ r.hold # "press"
          /\ r.auto => pointer.auto
      BY <1>1, <1>2, <3>2, ReleaseEffect
    <3>4. PICK k : k = kitMouse'
      OBVIOUS
    <3>5. k \in KitMice /\ ~k.pressed /\ k.last = handTurns /\ k.late = kitMouse.late
      BY <1>2, <3>2, <3>4, MultiClickEffect
    <3>6. PointerShape'
      BY <1>1, <1>2, <2>2, <3>1, <3>3, <3>4, <3>5 DEF PointerShape
    <3>7. StampsArePast'
      BY <1>2, <3>1, <3>3, <3>4, <3>5, PointerFacts DEF StampsArePast, SameMode
    <3>8. QueueIsHeld(pointer')
      BY <3>1, <3>3 DEF QueueIsHeld
    <3>9. GestureIsOne'
      BY <1>1, <1>2, <2>2, <3>1, <3>3 DEF GestureIsOne, SameMode
    <3>10. PressIsHeard'
      BY <1>1, <1>2, <3>1, <3>3 DEF PressIsHeard, Calm, SameMode
    <3>11. ScrollsInDrag'
      BY <1>1, <1>2, <1>3, <3>1, <3>3 DEF ScrollsInDrag, Calm
    <3>12. PressWillEnd'
      BY <3>4, <3>5 DEF PressWillEnd
    <3>13. WaitsInOrder'
      <4>1. InOrderFrom(pointer.queue, handTurns)
        BY <1>2, <1>4, EmptyQueue
      <4>2. InOrderFrom(r.queue, handTurns)
        BY <1>2, <3>3, <4>1
      <4> QED BY <1>1, <1>2, <3>1, <3>4, <3>5, <4>2 DEF WaitsInOrder, Calm
    <3> QED
      BY <3>6, <3>7, <3>8, <3>9, <3>10, <3>11, <3>12, <3>13 DEF PointerInv
  <2>5. CASE ~Takes(pointer)
    <3>1. pointer' = pointer /\ kitMouse' = kitMouse
      BY <1>6, <2>5 DEF TapTimer
    <3>2. PointerShape'
      BY <1>1, <1>2, <2>2, <3>1 DEF PointerShape
    <3>3. pointer'.hover <= handTurns' /\ SamePress(pointer, pointer')
      BY <1>2, <3>1, PointerFacts DEF SamePress
    <3>4. StampsArePast' /\ QueueIsHeld(pointer') /\ PressWillEnd' /\ WaitsInOrder'
      BY <1>2, <3>1, <3>2, <3>3, PressKept
    <3>5. GestureIsOne'
      BY <1>1, <1>2, <2>2, <3>1 DEF GestureIsOne
    <3>6. PressIsHeard' /\ ScrollsInDrag'
      BY <1>1, <1>2, <2>5, <3>1 DEF PressIsHeard, ScrollsInDrag, Calm, Takes
    <3> QED
      BY <3>2, <3>4, <3>5, <3>6 DEF PointerInv
  <2> QED BY <2>4, <2>5
<1> QED BY <1>5, <1>6

\* Every step.
LEMMA PointerNextInv == PointerInv /\ [PointerNext]_pointerVars => PointerInv'
<1> SUFFICES ASSUME PointerInv, [PointerNext]_pointerVars PROVE PointerInv'
  OBVIOUS
<1>1. CASE PointerNext
  BY <1>1, HandPressesInv, HandReleasesInv, HandMovesInv, HandLeavesInv, HandEntersInv, HandMovesOutsideInv,
     HoldTimerInv, HoverTimerInv, PauseInv, SwitchesInv, FingerDownInv, FingerMovesInv, FingerUpInv, TapTimerInv
     DEF PointerNext
<1>2. CASE UNCHANGED pointerVars
  BY <1>2 DEF pointerVars, PointerInv, PointerShape, StampsArePast, GestureIsOne, PressIsHeard,
              ScrollsInDrag, PressWillEnd, WaitsInOrder, Calm
<1> QED BY <1>1, <1>2

\* What the invariant promises.
LEMMA PointerIsRight == PointerInv => ButtonIsReleased /\ OrderIsKept /\ NothingGoesOn
<1> SUFFICES ASSUME PointerInv PROVE ButtonIsReleased /\ OrderIsKept /\ NothingGoesOn
  OBVIOUS
<1>1. PressIsHeard /\ ScrollsInDrag /\ PressWillEnd /\ WaitsInOrder /\ GestureIsOne
  BY DEF PointerInv
<1>2. ASSUME HandsOff PROVE ~tap.listens /\ ~tap.hold /\ pointer.box = "none" /\ ~hand.down /\ pointer.hold = "none"
  BY <1>1, <1>2, PointerFacts DEF HandsOff, GestureIsOne, Taps
<1>3. ButtonIsReleased
  <2> SUFFICES ASSUME HandsOff, kitMouse.pressed,
                      Calm({"flick", "held", "unheard", "reentered", "disabled"})
               PROVE  FALSE
    BY DEF ButtonIsReleased, Calm
  <2>1. pointer.mouseDown
    BY <1>1, <1>2 DEF PressWillEnd
  <2> QED BY <1>1, <1>2, <2>1 DEF PressIsHeard, Calm
<1>4. OrderIsKept
  BY <1>1 DEF WaitsInOrder, OrderIsKept, Calm
<1>5. NothingGoesOn
  <2> SUFFICES ASSUME HandsOff, pointer.auto \/ pointer.hears,
                      Calm({"flick", "unheard", "disabled", "switched"})
               PROVE  FALSE
    BY <1>2 DEF NothingGoesOn, Calm
  <2> QED BY <1>1, <1>2 DEF PressIsHeard, ScrollsInDrag, Calm
<1> QED BY <1>3, <1>4, <1>5

-----------------------------------------------------------------------------
(* The keyboard: the inductive invariant.                                  *)

Keyboards == [altGr : BOOLEAN, handled : BOOLEAN, composing : BOOLEAN, perm : {"view", "edit"}]
Phones == [lock : BOOLEAN, readOnly : BOOLEAN, focused : BOOLEAN, cursor : BOOLEAN,
           handled : BOOLEAN, composing : BOOLEAN]
Boards == [held : SUBSET ModifierKeys, focus : {"doc", "dialog"}]
Texts == [meant : Nat, got : Nat]

KeyboardShape == board \in Boards /\ keys \in Keyboards /\ phone \in Phones /\ texts \in Texts

\* AltGr is taken for what it is, and nothing else for AltGr.
AltGrIsKnown ==
    blunders \cap {"right", "mixed", "shifted"} = {} =>
        /\ "altgr" \in board.held => keys.altGr /\ board.held \cap {"ctrl", "rctrl", "alt"} = {}
        /\ "altgr" \notin board.held /\ "alt" \in board.held /\ board.held \cap {"ctrl", "rctrl"} # {}
              => ~keys.altGr

KeyboardInv ==
    /\ KeyboardShape
    /\ AltGrIsKnown
    /\ StrokeIsSent
    /\ TextArrivesOnce
    /\ KeyboardIsWanted

-----------------------------------------------------------------------------
(* One event of a key.                                                     *)

\* What is kept by an event: all but the two flags.
KeptKeys(k, r) == r \in Keyboards /\ r.perm = k.perm /\ r.composing = k.composing

\* SeeAltGr: only the flag of AltGr.
LEMMA SeeAltGrKept ==
    ASSUME NEW k \in Keyboards, NEW e, NEW s, s = SeeAltGr(k, e)
    PROVE  KeptKeys(k, s)
BY DEF SeeAltGr, Keyboards, KeptKeys

\* OnKeyDown: the flag of AltGr is what the detection makes it, and the focus stays or goes to the document.
LEMMA KeyEventEffect ==
    ASSUME NEW k \in Keyboards, NEW e, NEW focus \in {"doc", "dialog"}, NEW o, o = OnKeyDown(k, e, focus)
    PROVE  /\ KeptKeys(k, o.keys) /\ o.keys.altGr = SeeAltGr(k, e).altGr
           /\ o.focus \in {"doc", "dialog"}
<1>1. PICK s : s = SeeAltGr(k, e)
  OBVIOUS
<1>2. KeptKeys(k, s)
  BY <1>1, SeeAltGrKept
<1> DEFINE Fine(x) == /\ x.keys = s \/ x.keys = [s EXCEPT !.handled = TRUE] \/ x.keys = [s EXCEPT !.handled = FALSE]
                      /\ x.focus \in {"doc", "dialog"}
<1>3. Fine(PlainKey(s, e, focus, TRUE))
  BY DEF PlainKey, Outcome
<1>4. \A sent, prevented : Fine(Outcome(s, sent, prevented, focus))
  BY DEF Outcome
<1>5. \A sent, prevented : Fine(Outcome(s, sent, prevented, CtrlFocus(e, focus)))
  BY DEF Outcome, CtrlFocus
<1>6. Fine(o)
  <2> HIDE DEF Fine
  <2> QED BY <1>1, <1>3, <1>4, <1>5, Zenon DEF OnKeyDown
<1> QED BY <1>1, <1>2, <1>6 DEF Keyboards, KeptKeys

\* What comes of an event of a stroke: nothing, or one message.
Silent(o) == o.sent = <<>>
SendsOnly(o, message) == o.sent = <<message>>

\* A character, or a key with modifiers.
CharTo(focus) == Sent(focus, "input", TRUE, {})
KeyTo(focus, mods) == Sent(focus, "input", FALSE, mods)

\* The modifiers that are sent along.
ModsOf(e) == (IF e.ctrl THEN {"ctrl"} ELSE {}) \cup (IF e.alt THEN {"alt"} ELSE {}) \cup (IF e.shift THEN {"shift"} ELSE {})

\* An event of a stroke has no side, so it says nothing of AltGr.
IsStroke(e) ==
    /\ e.type \in {"keydown", "keypress", "keyup"} /\ e.key \in StrokeKeys /\ e.location = 0
    /\ e.ctrl \in BOOLEAN /\ e.alt \in BOOLEAN /\ e.shift \in BOOLEAN

LEMMA StrokeSeesNoAltGr ==
    ASSUME NEW k, NEW e, IsStroke(e)
    PROVE  SeeAltGr(k, e) = k
BY DEF SeeAltGr, IsStroke

\* With AltGr, a key is not looked at; the character it makes is.
LEMMA AltGrStroke ==
    ASSUME NEW k \in Keyboards, k.altGr, k.perm = "edit", NEW e, IsStroke(e), e.ctrl, e.alt,
           NEW focus, NEW o, o = OnKeyDown(k, e, focus)
    PROVE  /\ e.type # "keypress" => Silent(o) /\ ~o.prevented /\ o.focus = focus /\ o.keys = k
           /\ e.type = "keypress" /\ e.key \in Printable =>
                  SendsOnly(o, CharTo(focus)) /\ o.keys.handled
<1>1. SeeAltGr(k, e) = k /\ e.location = 0
  BY StrokeSeesNoAltGr DEF IsStroke
<1>2. CASE e.type # "keypress"
  <2>1. SkipsForAltGr(k, e)
    BY <1>1, <1>2 DEF SkipsForAltGr
  <2>2. o = Outcome(k, <<>>, FALSE, focus)
    BY <1>1, <2>1, Zenon DEF OnKeyDown
  <2>3. PICK sent : sent = <<>>
    OBVIOUS
  <2>4. o = Outcome(k, sent, FALSE, focus)
    BY <2>2, <2>3, Zenon
  <2>5. o.keys = k /\ o.sent = sent /\ ~o.prevented /\ o.focus = focus
    BY <2>4 DEF Outcome
  <2>6. Silent(o)
    BY <2>3, <2>5, Zenon DEF Silent
  <2> QED BY <1>2, <2>5, <2>6
<1>3. CASE e.type = "keypress" /\ e.key \in Printable
  <2>1. ~SkipsForAltGr(k, e) /\ IsAltGrChar(k, e)
    BY <1>1, <1>3 DEF SkipsForAltGr, IsAltGrChar
  <2>2. PICK mods : mods = (IF e.shift THEN {"shift"} ELSE {})
    OBVIOUS
  <2>3. mods \in {{}, {"shift"}} /\ mods \notin {{"alt"}, {"alt", "shift"}}
    BY <2>2
  <2>4. o = PlainKey(k, e, focus, TRUE)
    BY <1>1, <2>1, <2>2, <2>3 DEF OnKeyDown
  <2>5. ~IgnoreKeyEvent(e)
    BY <1>3 DEF IgnoreKeyEvent, Printable
  <2>6. o = Outcome([k EXCEPT !.handled = TRUE], <<Sent(focus, "input", TRUE, {})>>, FALSE, focus)
    BY <1>3, <2>4, <2>5 DEF PlainKey
  <2>7. PICK sent : sent = <<CharTo(focus)>>
    OBVIOUS
  <2>8. o = Outcome([k EXCEPT !.handled = TRUE], sent, FALSE, focus)
    BY <2>6, <2>7, Zenon DEF CharTo
  <2>9. o.sent = sent /\ o.keys.handled
    BY <2>8 DEF Outcome, Keyboards
  <2>10. SendsOnly(o, CharTo(focus))
    BY <2>7, <2>9, Zenon DEF SendsOnly
  <2> QED BY <1>3, <2>9, <2>10
<1> QED BY <1>2, <1>3

\* With Ctrl: what the browser does itself, or a key with its modifiers.
LEMMA CtrlStroke ==
    ASSUME NEW k \in Keyboards, NEW e, IsStroke(e), e.ctrl, e.alt => ~k.altGr,
           NEW focus, NEW o, o = OnKeyDown(k, e, focus)
    PROVE  /\ ~e.alt /\ ~e.shift /\ e.key \in {"copy", "save"} => Silent(o) /\ (o.prevented <=> e.key # "copy")
           /\ ~(~e.alt /\ ~e.shift /\ e.key \in {"copy", "save"}) /\ e.type = "keydown" =>
                  SendsOnly(o, KeyTo(focus, ModsOf(e))) /\ o.prevented
<1>1. SeeAltGr(k, e) = k /\ e.location = 0
  BY StrokeSeesNoAltGr DEF IsStroke
<1>2. ~SkipsForAltGr(k, e) /\ ~IsAltGrChar(k, e)
  BY <1>1 DEF SkipsForAltGr, IsAltGrChar
<1>3. CASE ~e.alt /\ ~e.shift /\ e.key \in {"copy", "save"}
  <2>1. HandlesCtrl(e)
    BY <1>3 DEF HandlesCtrl
  <2>2. o = Outcome(k, <<>>, e.key \notin {"copy", "ctrl", "rctrl"}, CtrlFocus(e, focus))
    BY <1>1, <1>2, <2>1, Zenon DEF OnKeyDown
  <2>3. Silent(o) /\ o.prevented = (e.key \notin {"copy", "ctrl", "rctrl"})
    BY <2>2 DEF Outcome, Silent
  <2> QED BY <1>3, <2>3
<1>4. CASE ~(~e.alt /\ ~e.shift /\ e.key \in {"copy", "save"}) /\ e.type = "keydown"
  <2>1. ~HandlesCtrl(e)
    BY <1>4 DEF HandlesCtrl, IsStroke, StrokeKeys
  <2>2. PICK mods : mods = ModsOf(e)
    OBVIOUS
  <2>3. "ctrl" \in mods
    BY <2>2 DEF ModsOf
  <2>4. mods \notin {{}, {"shift"}} /\ mods \notin {{"alt"}, {"alt", "shift"}}
    BY <2>3
  <2>5. o = Outcome(k, <<Sent(focus, "input", FALSE, mods)>>, TRUE, focus)
    BY <1>1, <1>2, <1>4, <2>1, <2>2, <2>4 DEF OnKeyDown, ModsOf
  <2>6. PICK sent : sent = <<KeyTo(focus, mods)>>
    OBVIOUS
  <2>7. o = Outcome(k, sent, TRUE, focus)
    BY <2>5, <2>6, Zenon DEF KeyTo
  <2>8. o.sent = sent /\ o.prevented
    BY <2>7 DEF Outcome
  <2>9. SendsOnly(o, KeyTo(focus, ModsOf(e)))
    BY <2>2, <2>6, <2>8, Zenon DEF SendsOnly
  <2> QED BY <1>4, <2>8, <2>9
<1> QED BY <1>3, <1>4

\* With Alt alone, a key that makes no character.
LEMMA AltStroke ==
    ASSUME NEW k \in Keyboards, NEW e, IsStroke(e), ~e.ctrl, e.alt, e.type = "keydown", e.key \notin Printable,
           NEW focus, NEW o, o = OnKeyDown(k, e, focus)
    PROVE  SendsOnly(o, KeyTo(focus, ModsOf(e)))
<1>1. SeeAltGr(k, e) = k
  BY StrokeSeesNoAltGr
<1>2. ~SkipsForAltGr(k, e) /\ ~IsAltGrChar(k, e)
  BY DEF SkipsForAltGr, IsAltGrChar
<1>3. PICK mods : mods = ModsOf(e)
  OBVIOUS
<1>4. "alt" \in mods
  BY <1>3 DEF ModsOf
<1>5. mods \notin {{}, {"shift"}}
  BY <1>4
<1>6. o = Outcome(k, <<Sent(focus, "input", FALSE, mods)>>, TRUE, focus)
  BY <1>1, <1>2, <1>3, <1>5 DEF OnKeyDown, ModsOf
<1>7. PICK sent : sent = <<KeyTo(focus, mods)>>
  OBVIOUS
<1>8. o = Outcome(k, sent, TRUE, focus)
  BY <1>6, <1>7, Zenon DEF KeyTo
<1>9. o.sent = sent
  BY <1>8 DEF Outcome
<1> QED BY <1>3, <1>7, <1>9, Zenon DEF SendsOnly

\* A character, or a key without modifiers.
LEMMA PlainStroke ==
    ASSUME NEW k \in Keyboards, k.perm = "edit", NEW e, IsStroke(e), ~e.ctrl, e.alt => e.key \in Printable,
           NEW focus, NEW o, o = OnKeyDown(k, e, focus)
    PROVE  /\ e.type = "keydown" => ~o.prevented /\ o.focus = focus
           /\ e.type = "keydown" /\ e.key \in Printable => Silent(o)
           /\ e.type = "keydown" /\ e.key \notin Printable /\ ~(e.shift /\ e.key = "insert") =>
                  SendsOnly(o, KeyTo(focus, {}))
           /\ e.shift /\ e.key = "insert" => Silent(o)
           /\ e.type = "keypress" /\ e.key \in Printable =>
                  SendsOnly(o, CharTo(focus)) /\ o.keys.handled
<1>1. SeeAltGr(k, e) = k
  BY StrokeSeesNoAltGr
<1>2. ~SkipsForAltGr(k, e) /\ ~IsAltGrChar(k, e)
  BY DEF SkipsForAltGr, IsAltGrChar
<1>3. PICK mods : mods = ModsOf(e)
  OBVIOUS
<1>4. /\ e.alt => mods \in {{"alt"}, {"alt", "shift"}} /\ mods \ {"alt"} \in {{}, {"shift"}}
      /\ ~e.alt => mods \in {{}, {"shift"}} /\ mods \notin {{"alt"}, {"alt", "shift"}}
  BY <1>3 DEF ModsOf, IsStroke
<1>5. PICK left : left = IF mods \in {{"alt"}, {"alt", "shift"}} /\ e.key \in Printable THEN mods \ {"alt"} ELSE mods
  OBVIOUS
<1>6. left \in {{}, {"shift"}}
  BY <1>4, <1>5 DEF IsStroke
<1>7. o = PlainKey(k, e, focus, TRUE)
  BY <1>1, <1>2, <1>3, <1>5, <1>6 DEF OnKeyDown, ModsOf
<1>8. CASE IgnoreKeyEvent(e)
  <2>1. o = Outcome(k, <<>>, FALSE, focus)
    BY <1>7, <1>8, Zenon DEF PlainKey
  <2>2. e.shift /\ e.key = "insert" /\ e.key \notin Printable
    BY <1>8 DEF IgnoreKeyEvent, Printable
  <2>3. PICK sent : sent = <<>>
    OBVIOUS
  <2>4. o = Outcome(k, sent, FALSE, focus)
    BY <2>1, <2>3, Zenon
  <2>5. o.sent = sent /\ ~o.prevented /\ o.focus = focus
    BY <2>4 DEF Outcome
  <2>6. Silent(o)
    BY <2>3, <2>5, Zenon DEF Silent
  <2> QED BY <2>2, <2>5, <2>6
<1>9. CASE ~IgnoreKeyEvent(e) /\ e.type = "keydown"
  <2>1. PICK sent : sent = IF e.key \in {"arrow", "insert"} THEN <<Sent(focus, "input", FALSE, {})>> ELSE <<>>
    OBVIOUS
  <2>2. o = Outcome([k EXCEPT !.handled = FALSE], sent, FALSE, focus)
    BY <1>7, <1>9, <2>1 DEF PlainKey
  <2>3. e.key \in Printable <=> e.key \notin {"arrow", "insert"}
    BY DEF IsStroke, StrokeKeys, Printable
  <2>4. o.sent = sent /\ ~o.prevented /\ o.focus = focus
    BY <2>2 DEF Outcome
  <2>5. e.key \in Printable => Silent(o)
    BY <2>1, <2>3, <2>4, Zenon DEF Silent
  <2>6. e.key \notin Printable => SendsOnly(o, KeyTo(focus, {}))
    BY <2>1, <2>3, <2>4, Zenon DEF SendsOnly, KeyTo
  <2> QED BY <1>9, <2>4, <2>5, <2>6 DEF IgnoreKeyEvent
<1>10. CASE ~IgnoreKeyEvent(e) /\ e.type = "keypress"
  <2>1. o = Outcome([k EXCEPT !.handled = TRUE], <<Sent(focus, "input", TRUE, {})>>, FALSE, focus)
    BY <1>7, <1>10 DEF PlainKey
  <2>2. PICK sent : sent = <<CharTo(focus)>>
    OBVIOUS
  <2>3. o = Outcome([k EXCEPT !.handled = TRUE], sent, FALSE, focus)
    BY <2>1, <2>2, Zenon DEF CharTo
  <2>4. o.sent = sent /\ o.keys.handled
    BY <2>3 DEF Outcome, Keyboards
  <2>5. SendsOnly(o, CharTo(focus))
    BY <2>2, <2>4, Zenon DEF SendsOnly
  <2> QED BY <1>10, <2>4, <2>5 DEF IgnoreKeyEvent
<1>11. CASE ~IgnoreKeyEvent(e) /\ e.type = "keyup"
  BY <1>11 DEF IgnoreKeyEvent
<1> QED BY <1>8, <1>9, <1>10, <1>11 DEF IsStroke

\* What the three events of a stroke send together.
LEMMA JoinedEvents ==
    ASSUME NEW m
    PROVE  /\ <<>> \o <<>> \o <<>> = <<>>
           /\ <<m>> \o <<>> \o <<>> = <<m>>
           /\ <<>> \o <<m>> \o <<>> = <<m>>
<1>1. <<>> \o <<>> = <<>> /\ <<m>> \o <<>> = <<m>> /\ <<>> \o <<m>> = <<m>>
  OBVIOUS
<1> QED BY <1>1, Zenon

\* The events of a stroke, with the modifiers that are held.
LEMMA StrokeEvent ==
    ASSUME NEW type \in {"keydown", "keypress", "keyup"}, NEW key \in StrokeKeys, NEW held,
           NEW e, e = Event(type, key, held)
    PROVE  /\ IsStroke(e) /\ e.type = type /\ e.key = key
           /\ e.ctrl <=> held \cap {"ctrl", "rctrl", "altgr"} # {}
           /\ e.alt <=> held \cap {"alt", "altgr"} # {}
           /\ e.shift <=> "shift" \in held
<1>1. PICK ctrl, alt, shift, location :
        /\ ctrl = CtrlKey(held) /\ alt = AltKey(held) /\ shift = ("shift" \in held)
        /\ location = CASE key \in {"ctrl", "alt", "shift"} -> 1 [] key \in {"rctrl", "altgr"} -> 2 [] OTHER -> 0
  OBVIOUS
<1>2. location = 0
  BY <1>1 DEF StrokeKeys
<1>3. ctrl \in BOOLEAN /\ alt \in BOOLEAN /\ shift \in BOOLEAN
  BY <1>1 DEF CtrlKey, AltKey
<1>4. e = [type |-> type, key |-> key, ctrl |-> ctrl, alt |-> alt, shift |-> shift, location |-> location]
  BY <1>1, Zenon DEF Event
<1>5. e.type = type /\ e.key = key /\ e.ctrl = ctrl /\ e.alt = alt /\ e.shift = shift /\ e.location = location
  BY <1>4
<1>6. IsStroke(e)
  BY <1>2, <1>3, <1>5 DEF IsStroke
<1> QED BY <1>1, <1>5, <1>6 DEF CtrlKey, AltKey

\* What a stroke means, by the modifiers held.
LEMMA Meaning ==
    ASSUME NEW s, s.key \in StrokeKeys, NEW held, held = s.held, NEW ctrl, ctrl = (held \cap {"ctrl", "rctrl"} # {}),
           NEW mods, mods = (IF ctrl THEN {"ctrl"} ELSE {}) \cup (IF "alt" \in held THEN {"alt"} ELSE {})
                            \cup (IF "shift" \in held THEN {"shift"} ELSE {})
    PROVE  /\ "altgr" \in held /\ s.key \in Printable => Means(s) = <<CharTo(s.to)>>
           /\ "altgr" \in held /\ s.key \notin Printable => Means(s) = <<>>
           /\ "altgr" \notin held /\ ctrl =>
                 IF "alt" \notin held /\ "shift" \notin held /\ s.key \in {"copy", "save"} THEN Means(s) = <<>>
                 ELSE Means(s) = <<KeyTo(s.to, mods)>>
           /\ "altgr" \notin held /\ ~ctrl /\ "alt" \in held /\ s.key \notin Printable =>
                 Means(s) = <<KeyTo(s.to, mods)>>
           /\ "altgr" \notin held /\ ~ctrl /\ ("alt" \in held => s.key \in Printable) =>
                 IF s.key = "insert" /\ "shift" \in held THEN Means(s) = <<>>
                 ELSE Means(s) = IF s.key \in Printable THEN <<CharTo(s.to)>> ELSE <<KeyTo(s.to, {})>>
<1>1. PICK shift : shift = IF "shift" \in held THEN {"shift"} ELSE {}
  OBVIOUS
<1>2. shift = {} <=> "shift" \notin held
  BY <1>1
<1>3. PICK code : code = IF s.key \in Printable THEN <<CharTo(s.to)>> ELSE <<KeyTo(s.to, {})>>
  OBVIOUS
<1>4. code = <<Sent(s.to, "input", s.key \in Printable, {})>>
  <2>1. CASE s.key \in Printable
    <3>1. (s.key \in Printable) = TRUE
      BY <2>1
    <3> QED BY <1>3, <2>1, <3>1, Zenon DEF CharTo
  <2>2. CASE s.key \notin Printable
    <3>1. (s.key \in Printable) = FALSE
      BY <2>2
    <3> QED BY <1>3, <2>2, <3>1, Zenon DEF KeyTo
  <2> QED BY <2>1, <2>2
<1>5. PICK one, two, three :
        /\ one = <<CharTo(s.to)>> /\ two = <<KeyTo(s.to, {"ctrl"} \cup (IF "alt" \in held THEN {"alt"} ELSE {}) \cup shift)>>
        /\ three = <<KeyTo(s.to, {"alt"} \cup shift)>>
  OBVIOUS
<1>6. PICK none : none = <<>>
  OBVIOUS
<1>7. Means(s) =
        IF "altgr" \in held THEN IF s.key \in Printable THEN one ELSE none
        ELSE IF ctrl /\ ~("alt" \in held) /\ shift = {} /\ s.key \in {"copy", "save"} THEN none
        ELSE IF ctrl THEN two
        ELSE IF "alt" \in held /\ s.key \notin Printable THEN three
        ELSE IF s.key = "insert" /\ shift # {} THEN none
        ELSE code
  BY <1>1, <1>4, <1>5, <1>6, Zenon DEF Means, CharTo, KeyTo
<1>8. /\ "altgr" \in held /\ s.key \in Printable => Means(s) = one
      /\ "altgr" \in held /\ s.key \notin Printable => Means(s) = none
      /\ "altgr" \notin held /\ ctrl =>
            IF "alt" \notin held /\ shift = {} /\ s.key \in {"copy", "save"} THEN Means(s) = none
            ELSE Means(s) = two
      /\ "altgr" \notin held /\ ~ctrl /\ "alt" \in held /\ s.key \notin Printable => Means(s) = three
      /\ "altgr" \notin held /\ ~ctrl /\ ("alt" \in held => s.key \in Printable) =>
            IF s.key = "insert" /\ shift # {} THEN Means(s) = none ELSE Means(s) = code
  BY <1>7 DEF Printable
<1>9. ctrl => mods = {"ctrl"} \cup (IF "alt" \in held THEN {"alt"} ELSE {}) \cup shift
  BY <1>1
<1>10. ~ctrl /\ "alt" \in held => mods = {"alt"} \cup shift
  BY <1>1
<1> QED BY <1>2, <1>3, <1>5, <1>6, <1>8, <1>9, <1>10, Zenon

-----------------------------------------------------------------------------
(* The steps.                                                              *)

\* Strikes: what is sent is what the stroke means.
LEMMA StrikesInv == KeyboardInv /\ Strikes => KeyboardInv'
<1> SUFFICES ASSUME KeyboardInv, Strikes PROVE KeyboardInv'
  OBVIOUS
<1>1. KeyboardShape /\ AltGrIsKnown /\ TextArrivesOnce /\ KeyboardIsWanted
  BY DEF KeyboardInv
<1>2. ~keys.composing /\ phone' = phone /\ texts' = texts
  BY DEF Strikes
<1> DEFINE At(type, key) == Event(type, key, board.held)
           Press(key, firefox, down) == /\ key \in Printable /\ ~down.prevented
                                        /\ firefox \/ ~CtrlKey(board.held) \/ "altgr" \in board.held
<1>3. PICK key \in StrokeKeys, firefox \in BOOLEAN :
        LET down == OnKeyDown(keys, At("keydown", key), board.focus)
            pressed == Press(key, firefox, down)
            press == IF pressed THEN OnKeyDown(down.keys, At("keypress", key), down.focus)
                     ELSE Outcome(down.keys, <<>>, FALSE, down.focus)
            typed == pressed /\ (~CtrlKey(board.held) \/ "altgr" \in board.held)
            again == IF typed /\ TextInput(press.keys) = 1 THEN <<Sent(press.focus, "input", TRUE, {})>> ELSE <<>>
            up == OnKeyDown(press.keys, At("keyup", key), press.focus)
        IN  /\ keys' = up.keys
            /\ board' = [board EXCEPT !.focus = up.focus]
            /\ stroke' = [key |-> key, held |-> board.held, to |-> board.focus, perm |-> keys.perm,
                          sent |-> down.sent \o press.sent \o IF keys.perm = "edit" THEN again ELSE <<>>]
            /\ blunders' = IF up.focus # board.focus THEN blunders \cup {"stolen"} ELSE blunders
  BY Zenon DEF Strikes
<1>4. PICK ed, ep, eu : ed = At("keydown", key) /\ ep = At("keypress", key) /\ eu = At("keyup", key)
  OBVIOUS
<1>5. PICK down : down = OnKeyDown(keys, ed, board.focus)
  OBVIOUS
<1>6. PICK pressed : pressed = Press(key, firefox, down)
  OBVIOUS
<1>7. PICK press : press = IF pressed THEN OnKeyDown(down.keys, ep, down.focus)
                           ELSE Outcome(down.keys, <<>>, FALSE, down.focus)
  OBVIOUS
<1>8. PICK typed : typed = (pressed /\ (~CtrlKey(board.held) \/ "altgr" \in board.held))
  OBVIOUS
<1>9. PICK again : again = IF typed /\ TextInput(press.keys) = 1 THEN <<Sent(press.focus, "input", TRUE, {})>> ELSE <<>>
  OBVIOUS
<1>10. PICK up : up = OnKeyDown(press.keys, eu, press.focus)
  OBVIOUS
<1>11. /\ keys' = up.keys
       /\ board' = [board EXCEPT !.focus = up.focus]
       /\ stroke' = [key |-> key, held |-> board.held, to |-> board.focus, perm |-> keys.perm,
                     sent |-> down.sent \o press.sent \o IF keys.perm = "edit" THEN again ELSE <<>>]
       /\ blunders' = IF up.focus # board.focus THEN blunders \cup {"stolen"} ELSE blunders
  <2> HIDE DEF At, Press
  <2> QED BY <1>3, <1>4, <1>5, <1>6, <1>7, <1>8, <1>9, <1>10, Zenon
<1>12. board \in Boards /\ keys \in Keyboards /\ board.focus \in {"doc", "dialog"}
  BY <1>1 DEF KeyboardShape, Boards
<1>13. /\ IsStroke(ed) /\ IsStroke(ep) /\ IsStroke(eu)
       /\ ed.type = "keydown" /\ ep.type = "keypress" /\ ed.key = key /\ ep.key = key
  BY <1>4, StrokeEvent
<1> DEFINE ctrl == board.held \cap {"ctrl", "rctrl"} # {}
<1>14. /\ (ed.ctrl <=> ctrl \/ "altgr" \in board.held) /\ (ep.ctrl <=> ctrl \/ "altgr" \in board.held)
       /\ (ed.alt <=> "alt" \in board.held \/ "altgr" \in board.held)
       /\ (ep.alt <=> "alt" \in board.held \/ "altgr" \in board.held)
       /\ (ed.shift <=> "shift" \in board.held) /\ (ep.shift <=> "shift" \in board.held)
  BY <1>4, StrokeEvent
<1> HIDE DEF At
<1>15. KeptKeys(keys, down.keys) /\ down.keys.altGr = keys.altGr /\ down.focus \in {"doc", "dialog"}
  BY <1>5, <1>12, <1>13, KeyEventEffect, StrokeSeesNoAltGr
<1>16. KeptKeys(keys, press.keys) /\ press.keys.altGr = keys.altGr /\ press.focus \in {"doc", "dialog"}
  <2>1. CASE pressed
    <3>1. press = OnKeyDown(down.keys, ep, down.focus) /\ down.keys \in Keyboards
      BY <1>7, <1>15, <2>1 DEF KeptKeys
    <3>2. KeptKeys(down.keys, press.keys) /\ press.keys.altGr = down.keys.altGr /\ press.focus \in {"doc", "dialog"}
      BY <1>13, <1>15, <3>1, KeyEventEffect, StrokeSeesNoAltGr
    <3> QED BY <1>15, <3>2 DEF KeptKeys
  <2>2. CASE ~pressed
    BY <1>7, <1>15, <2>2 DEF Outcome
  <2> QED BY <2>1, <2>2
<1>17. KeptKeys(keys, up.keys) /\ up.keys.altGr = keys.altGr /\ up.focus \in {"doc", "dialog"}
  <2>1. press.keys \in Keyboards
    BY <1>16 DEF KeptKeys
  <2>2. KeptKeys(press.keys, up.keys) /\ up.keys.altGr = press.keys.altGr /\ up.focus \in {"doc", "dialog"}
    BY <1>10, <1>13, <1>16, <2>1, KeyEventEffect, StrokeSeesNoAltGr
  <2> QED BY <1>16, <2>2 DEF KeptKeys
<1>18. board' \in Boards /\ board'.held = board.held
  BY <1>11, <1>12, <1>17 DEF Boards
<1>19. KeyboardShape'
  BY <1>1, <1>2, <1>11, <1>17, <1>18 DEF KeyboardShape, KeptKeys
<1>20. blunders' \cap {"right", "mixed", "shifted"} = blunders \cap {"right", "mixed", "shifted"}
       /\ blunders \subseteq blunders'
  BY <1>11
<1>21. AltGrIsKnown'
  BY <1>1, <1>11, <1>17, <1>18, <1>20 DEF AltGrIsKnown
<1>22. TextArrivesOnce' /\ KeyboardIsWanted'
  BY <1>1, <1>2, <1>11, <1>17, <1>20 DEF TextArrivesOnce, KeyboardIsWanted, KeptKeys
<1>23. StrokeIsSent'
  <2> SUFFICES ASSUME keys.perm = "edit", blunders \cap {"right", "mixed", "shifted"} = {}
               PROVE  stroke'.sent = Means(stroke')
    BY <1>11, <1>20 DEF StrokeIsSent
  <2>1. PICK s : s = stroke'
    OBVIOUS
  <2>2. s.key = key /\ s.held = board.held /\ s.to = board.focus
    BY <1>11, <2>1
  <2>3. s.sent = down.sent \o press.sent \o again
    BY <1>11, <2>1
  <2>4. PICK mods : mods = (IF ctrl THEN {"ctrl"} ELSE {}) \cup (IF "alt" \in board.held THEN {"alt"} ELSE {})
                           \cup (IF "shift" \in board.held THEN {"shift"} ELSE {})
    OBVIOUS
  <2>5. PICK c : c = ctrl
    OBVIOUS
  <2> HIDE DEF ctrl
  <2>6. /\ "altgr" \in board.held /\ key \in Printable => Means(s) = <<CharTo(board.focus)>>
        /\ "altgr" \in board.held /\ key \notin Printable => Means(s) = <<>>
        /\ "altgr" \notin board.held /\ c =>
                 IF "alt" \notin board.held /\ "shift" \notin board.held /\ key \in {"copy", "save"} THEN Means(s) = <<>>
                 ELSE Means(s) = <<KeyTo(board.focus, mods)>>
        /\ "altgr" \notin board.held /\ ~c /\ "alt" \in board.held /\ key \notin Printable =>
                 Means(s) = <<KeyTo(board.focus, mods)>>
        /\ "altgr" \notin board.held /\ ~c /\ ("alt" \in board.held => key \in Printable) =>
                 IF key = "insert" /\ "shift" \in board.held THEN Means(s) = <<>>
                 ELSE Means(s) = IF key \in Printable THEN <<CharTo(board.focus)>> ELSE <<KeyTo(board.focus, {})>>
    BY <2>2, <2>4, <2>5, Meaning DEF ctrl
  <2>7. ~typed \/ press.keys.handled => again = <<>>
    BY <1>9 DEF TextInput
  <2>8. ~pressed => press.sent = <<>> /\ ~typed
    BY <1>7, <1>8 DEF Outcome
  <2>9. pressed => /\ press = OnKeyDown(down.keys, ep, down.focus)
                   /\ down.keys \in Keyboards /\ down.keys.perm = "edit" /\ down.keys.altGr = keys.altGr
                   /\ key \in Printable /\ ~down.prevented
    BY <1>6, <1>7, <1>15 DEF KeptKeys
  <2>10. key \in Printable /\ ~down.prevented /\ (~c \/ "altgr" \in board.held) => pressed
    BY <1>6, <2>5 DEF ctrl, CtrlKey
  <2>11. c /\ "altgr" \notin board.held => ~typed
    BY <1>8, <2>5 DEF ctrl, CtrlKey
  <2>12. CASE "altgr" \in board.held
    <3>1. keys.altGr /\ ed.ctrl /\ ed.alt /\ ep.ctrl /\ ep.alt
      BY <1>1, <1>14, <2>12 DEF AltGrIsKnown
    <3>2. Silent(down) /\ ~down.prevented /\ down.focus = board.focus
      BY <1>5, <1>12, <1>13, <3>1, AltGrStroke
    <3>3. down.sent = <<>>
      BY <3>2 DEF Silent
    <3>4. CASE key \in Printable
      <4>1. pressed
        BY <2>10, <2>12, <3>2, <3>4
      <4>2. /\ press = OnKeyDown(down.keys, ep, board.focus)
            /\ down.keys \in Keyboards /\ down.keys.perm = "edit" /\ down.keys.altGr
        BY <2>9, <3>1, <3>2, <4>1
      <4>3. SendsOnly(press, CharTo(board.focus)) /\ press.keys.handled
        BY <1>13, <3>1, <3>4, <4>2, AltGrStroke
      <4>4. press.sent = <<CharTo(board.focus)>> /\ again = <<>>
        BY <2>7, <4>3 DEF SendsOnly
      <4> QED BY <2>1, <2>3, <2>6, <2>12, <3>3, <3>4, <4>4, JoinedEvents, Zenon
    <3>5. CASE key \notin Printable
      <4>1. press.sent = <<>> /\ again = <<>>
        BY <2>7, <2>8, <2>9, <3>5
      <4> QED BY <2>1, <2>3, <2>6, <2>12, <3>3, <3>5, <4>1, JoinedEvents, Zenon
    <3> QED BY <3>4, <3>5
  <2>13. CASE "altgr" \notin board.held /\ c
    <3>1. ed.ctrl /\ ep.ctrl /\ (ed.alt => ~keys.altGr) /\ (ep.alt => ~keys.altGr)
      BY <1>1, <1>14, <2>5, <2>13 DEF AltGrIsKnown, ctrl
    <3>2. again = <<>>
      BY <2>7, <2>11, <2>13
    <3>3. CASE "alt" \notin board.held /\ "shift" \notin board.held /\ key \in {"copy", "save"}
      <4>1. ~ed.alt /\ ~ed.shift /\ ~ep.alt /\ ~ep.shift
        BY <1>14, <2>13, <3>3
      <4>2. Silent(down)
        BY <1>5, <1>12, <1>13, <3>1, <3>3, <4>1, CtrlStroke
      <4>3. press.sent = <<>>
        <5>1. CASE pressed
          <6>1. Silent(press)
            BY <1>13, <2>9, <3>1, <3>3, <4>1, <5>1, CtrlStroke
          <6> QED BY <6>1 DEF Silent
        <5> QED BY <2>8, <5>1
      <4>4. down.sent = <<>>
        BY <4>2 DEF Silent
      <4> QED BY <2>1, <2>3, <2>6, <2>13, <3>2, <3>3, <4>3, <4>4, JoinedEvents, Zenon
    <3>4. CASE ~("alt" \notin board.held /\ "shift" \notin board.held /\ key \in {"copy", "save"})
      <4>1. ~(~ed.alt /\ ~ed.shift /\ ed.key \in {"copy", "save"})
        BY <1>13, <1>14, <2>13, <3>4
      <4>2. SendsOnly(down, KeyTo(board.focus, ModsOf(ed))) /\ down.prevented
        BY <1>5, <1>12, <1>13, <3>1, <4>1, CtrlStroke
      <4>3. ModsOf(ed) = mods
        BY <1>14, <2>4, <2>13 DEF ModsOf
      <4>4. down.sent = <<KeyTo(board.focus, mods)>>
        BY <4>2, <4>3 DEF SendsOnly
      <4>5. press.sent = <<>>
        BY <2>8, <2>9, <4>2
      <4> QED BY <2>1, <2>3, <2>6, <2>13, <3>2, <3>4, <4>4, <4>5, JoinedEvents, Zenon
    <3> QED BY <3>3, <3>4
  <2>14. CASE "altgr" \notin board.held /\ ~c /\ "alt" \in board.held /\ key \notin Printable
    <3>1. ~ed.ctrl /\ ed.alt
      BY <1>14, <2>5, <2>14
    <3>2. SendsOnly(down, KeyTo(board.focus, ModsOf(ed)))
      BY <1>5, <1>12, <1>13, <2>14, <3>1, AltStroke
    <3>3. ModsOf(ed) = mods
      BY <1>14, <2>4, <2>5, <2>14 DEF ModsOf
    <3>4. down.sent = <<KeyTo(board.focus, mods)>>
      BY <3>2, <3>3 DEF SendsOnly
    <3>5. press.sent = <<>> /\ again = <<>>
      BY <2>7, <2>8, <2>9, <2>14
    <3> QED BY <2>1, <2>3, <2>6, <2>14, <3>4, <3>5, JoinedEvents, Zenon
  <2>15. CASE "altgr" \notin board.held /\ ~c /\ ("alt" \in board.held => key \in Printable)
    <3>1. /\ ~ed.ctrl /\ ~ep.ctrl /\ (ed.alt => key \in Printable) /\ (ep.alt => key \in Printable)
      BY <1>14, <2>5, <2>15
    <3>2. /\ ~down.prevented /\ down.focus = board.focus
          /\ key \in Printable => Silent(down)
          /\ key \notin Printable /\ ~(ed.shift /\ key = "insert") => SendsOnly(down, KeyTo(board.focus, {}))
          /\ ed.shift /\ key = "insert" => Silent(down)
      BY <1>5, <1>12, <1>13, <3>1, PlainStroke
    <3>3. CASE key \in Printable
      <4>1. pressed
        BY <2>10, <2>15, <3>2, <3>3
      <4>2. SendsOnly(press, CharTo(board.focus)) /\ press.keys.handled
        BY <1>13, <2>9, <3>1, <3>2, <3>3, <4>1, PlainStroke
      <4>3. press.sent = <<CharTo(board.focus)>> /\ again = <<>>
        BY <2>7, <4>2 DEF SendsOnly
      <4>4. down.sent = <<>>
        BY <3>2, <3>3 DEF Silent
      <4>5. key # "insert"
        BY <3>3 DEF Printable
      <4>6. Means(s) = <<CharTo(board.focus)>>
        BY <2>6, <2>15, <3>3, <4>5, Zenon
      <4> QED BY <2>1, <2>3, <4>3, <4>4, <4>6, JoinedEvents, Zenon
    <3>4. CASE key \notin Printable
      <4>1. press.sent = <<>> /\ again = <<>>
        BY <2>7, <2>8, <2>9, <3>4
      <4>2. CASE key = "insert" /\ "shift" \in board.held
        <5>1. down.sent = <<>>
          BY <1>14, <3>2, <4>2 DEF Silent
        <5> QED BY <2>1, <2>3, <2>6, <2>15, <4>1, <4>2, <5>1, JoinedEvents, Zenon
      <4>3. CASE ~(key = "insert" /\ "shift" \in board.held)
        <5>1. down.sent = <<KeyTo(board.focus, {})>>
          BY <1>14, <3>2, <3>4, <4>3 DEF SendsOnly
        <5>2. Means(s) = <<KeyTo(board.focus, {})>>
          BY <2>6, <2>15, <3>4, <4>3, Zenon
        <5> QED BY <2>1, <2>3, <4>1, <5>1, <5>2, JoinedEvents, Zenon
      <4> QED BY <4>2, <4>3
    <3> QED BY <3>3, <3>4
  <2> QED BY <2>12, <2>13, <2>14, <2>15
<1> QED
  BY <1>19, <1>21, <1>22, <1>23 DEF KeyboardInv

\* HoldsModifier, ReleasesModifier: the side of the keyboard tells AltGr from Ctrl with Alt.
LEMMA ModifierInv == KeyboardInv /\ (HoldsModifier \/ ReleasesModifier) => KeyboardInv'
<1> SUFFICES ASSUME KeyboardInv, HoldsModifier \/ ReleasesModifier PROVE KeyboardInv'
  OBVIOUS
<1>1. KeyboardShape /\ AltGrIsKnown /\ StrokeIsSent /\ TextArrivesOnce /\ KeyboardIsWanted
  BY DEF KeyboardInv
<1>2. board \in Boards /\ keys \in Keyboards /\ board.focus \in {"doc", "dialog"} /\ board.held \subseteq ModifierKeys
  BY <1>1 DEF KeyboardShape, Boards
<1>3. phone' = phone /\ stroke' = stroke /\ texts' = texts /\ blunders \subseteq blunders'
  BY DEF HoldsModifier, ReleasesModifier
<1>4. /\ KeptKeys(keys, keys') /\ board' \in Boards
      /\ blunders' \cap {"right", "mixed", "shifted"} = {} =>
            /\ "altgr" \in board'.held => keys'.altGr /\ board'.held \cap {"ctrl", "rctrl", "alt"} = {}
            /\ "altgr" \notin board'.held /\ "alt" \in board'.held /\ board'.held \cap {"ctrl", "rctrl"} # {}
                  => ~keys'.altGr
  <2>1. CASE HoldsModifier
    <3>1. PICK m \in ModifierKeys \ board.held :
            /\ board' = [board EXCEPT !.held = board.held \cup {m}]
            /\ keys' = OnKeyDown(keys, Event("keydown", m, board.held \cup {m}), board.focus).keys
            /\ blunders' = blunders
                 \cup (IF m = "rctrl" /\ AltKey(board.held \cup {m}) THEN {"right"} ELSE {})
                 \cup (IF "altgr" \in board.held \cup {m} /\ (board.held \cup {m}) \cap {"ctrl", "rctrl", "alt"} # {} THEN {"mixed"} ELSE {})
                 \cup (IF "altgr" \in board.held /\ m = "shift" THEN {"shifted"} ELSE {})
      BY <2>1 DEF HoldsModifier
    <3>2. PICK held, e, o : /\ held = board.held \cup {m} /\ e = Event("keydown", m, held)
                            /\ o = OnKeyDown(keys, e, board.focus)
      OBVIOUS
    <3>3. KeptKeys(keys, o.keys) /\ o.keys.altGr = SeeAltGr(keys, e).altGr
      BY <1>2, <3>2, KeyEventEffect
    <3>4. keys' = o.keys
      BY <3>1, <3>2, Zenon
    <3>5. board' \in Boards /\ board'.held = held
      BY <1>2, <3>1, <3>2 DEF Boards
    <3>6. /\ e.type = "keydown" /\ e.location = (IF m \in {"rctrl", "altgr"} THEN 2 ELSE 1)
          /\ (e.ctrl <=> CtrlKey(held)) /\ (e.alt <=> AltKey(held))
      BY <3>2 DEF Event, ModifierKeys
    <3>7. /\ e.ctrl /\ e.alt /\ m \in {"rctrl", "altgr"} => SeeAltGr(keys, e).altGr
          /\ e.ctrl /\ e.alt /\ m \notin {"rctrl", "altgr"} => ~SeeAltGr(keys, e).altGr
      BY <1>2, <3>6 DEF SeeAltGr, Keyboards
    <3> SUFFICES ASSUME blunders' \cap {"right", "mixed", "shifted"} = {}
                 PROVE  /\ "altgr" \in held => o.keys.altGr /\ held \cap {"ctrl", "rctrl", "alt"} = {}
                        /\ "altgr" \notin held /\ "alt" \in held /\ held \cap {"ctrl", "rctrl"} # {} => ~o.keys.altGr
      BY <3>3, <3>4, <3>5
    <3>8. /\ ~(m = "rctrl" /\ AltKey(held))
          /\ ~("altgr" \in held /\ held \cap {"ctrl", "rctrl", "alt"} # {})
          /\ ~("altgr" \in board.held /\ m = "shift")
      BY <3>1, <3>2
    <3>9. ASSUME "altgr" \in held PROVE o.keys.altGr
      <4>1. m = "altgr"
        BY <1>2, <3>2, <3>8, <3>9 DEF ModifierKeys
      <4>2. e.ctrl /\ e.alt
        BY <3>6, <3>9 DEF CtrlKey, AltKey
      <4> QED BY <3>3, <3>7, <4>1, <4>2
    <3>10. ASSUME "altgr" \notin held, "alt" \in held, held \cap {"ctrl", "rctrl"} # {} PROVE ~o.keys.altGr
      <4>1. e.ctrl /\ e.alt
        BY <3>6, <3>10 DEF CtrlKey, AltKey
      <4>2. m \notin {"rctrl", "altgr"}
        BY <3>2, <3>8, <3>10 DEF AltKey
      <4> QED BY <3>3, <3>7, <4>1, <4>2
    <3> QED BY <3>8, <3>9, <3>10
  <2>2. CASE ReleasesModifier
    <3>1. PICK m \in board.held :
            /\ board' = [board EXCEPT !.held = board.held \ {m}]
            /\ keys' = OnKeyDown(keys, Event("keyup", m, board'.held), board.focus).keys
            /\ blunders' = IF "altgr" \in board'.held /\ m = "shift" THEN blunders \cup {"shifted"} ELSE blunders
      BY <2>2 DEF ReleasesModifier
    <3>2. board' \in Boards /\ board'.held = board.held \ {m}
      BY <1>2, <3>1 DEF Boards
    <3>3. PICK held, e, o : /\ held = board'.held /\ e = Event("keyup", m, held)
                            /\ o = OnKeyDown(keys, e, board.focus)
      OBVIOUS
    <3>4. KeptKeys(keys, o.keys) /\ o.keys.altGr = SeeAltGr(keys, e).altGr
      BY <1>2, <3>3, KeyEventEffect
    <3>5. keys' = o.keys
      BY <3>1, <3>3, Zenon
    <3>6. e.type = "keyup"
      BY <3>3 DEF Event
    <3>7. ~keys.altGr => ~SeeAltGr(keys, e).altGr
      BY <1>2, <3>6 DEF SeeAltGr, Keyboards
    <3> SUFFICES ASSUME blunders' \cap {"right", "mixed", "shifted"} = {}
                 PROVE  /\ "altgr" \in held => o.keys.altGr /\ held \cap {"ctrl", "rctrl", "alt"} = {}
                        /\ "altgr" \notin held /\ "alt" \in held /\ held \cap {"ctrl", "rctrl"} # {} => ~o.keys.altGr
      BY <3>2, <3>3, <3>4, <3>5
    <3>8. ~("altgr" \in held /\ m = "shift") /\ blunders \cap {"right", "mixed", "shifted"} = {}
      BY <3>1, <3>3
    <3>9. /\ "altgr" \in board.held => keys.altGr /\ board.held \cap {"ctrl", "rctrl", "alt"} = {}
          /\ "altgr" \notin board.held /\ "alt" \in board.held /\ board.held \cap {"ctrl", "rctrl"} # {} => ~keys.altGr
      BY <1>1, <3>8 DEF AltGrIsKnown
    <3>10. "altgr" \notin held
      BY <1>2, <3>2, <3>3, <3>8, <3>9 DEF ModifierKeys
    <3>11. ASSUME "alt" \in held, held \cap {"ctrl", "rctrl"} # {} PROVE ~o.keys.altGr
      <4>1. ~keys.altGr
        BY <3>2, <3>3, <3>9, <3>11
      <4> QED BY <3>4, <3>7, <4>1
    <3> QED BY <3>10, <3>11
  <2> QED BY <2>1, <2>2
<1>5. KeyboardShape'
  BY <1>1, <1>3, <1>4 DEF KeyboardShape, KeptKeys
<1>6. AltGrIsKnown'
  BY <1>4 DEF AltGrIsKnown
<1>7. StrokeIsSent' /\ TextArrivesOnce' /\ KeyboardIsWanted'
  BY <1>1, <1>3, <1>4 DEF StrokeIsSent, TextArrivesOnce, KeyboardIsWanted, KeptKeys
<1> QED
  BY <1>5, <1>6, <1>7 DEF KeyboardInv

\* The steps of texts, of the phone and of the permission leave the modifiers and the last stroke alone.
LEMMA TextStepInv ==
    ASSUME KeyboardInv,
           keys' \in Keyboards, keys'.altGr = keys.altGr, phone' \in Phones, board' \in Boards,
           board'.held = board.held, stroke' = stroke, blunders \subseteq blunders',
           texts' \in Texts, TextArrivesOnce', KeyboardIsWanted'
    PROVE  KeyboardInv'
<1>1. KeyboardShape /\ AltGrIsKnown /\ StrokeIsSent
  BY DEF KeyboardInv
<1>2. KeyboardShape'
  BY DEF KeyboardShape
<1>3. AltGrIsKnown'
  BY <1>1 DEF AltGrIsKnown
<1>4. StrokeIsSent'
  BY <1>1 DEF StrokeIsSent
<1> QED BY <1>2, <1>3, <1>4 DEF KeyboardInv

\* A text arrives once, or not.
LEMMA OneText ==
    ASSUME texts \in Texts, TextArrivesOnce, blunders \subseteq blunders', NEW n \in Nat,
           texts' = [meant |-> texts.meant + 1, got |-> texts.got + n],
           n = 1 \/ blunders' \cap {"suggested", "phone"} # {}
    PROVE  texts' \in Texts /\ TextArrivesOnce'
<1>1. texts' \in Texts /\ texts'.meant = texts.meant + 1 /\ texts'.got = texts.got + n
  BY DEF Texts
<1>2. texts.meant \in Nat /\ texts.got \in Nat
  BY DEF Texts
<1> QED BY <1>1, <1>2 DEF TextArrivesOnce

\* UpdateCursorAndOverlay, PhoneFocus: the field has the focus only where a text can be entered.
LEMMA PhoneFocusEffect ==
    ASSUME NEW f \in Phones, NEW perm, NEW r, r = PhoneFocus(f, perm) \/ r = UpdateCursorAndOverlay(f, perm)
    PROVE  r \in Phones /\ r.cursor = f.cursor /\ r.lock = f.lock
           /\ (r.focused => perm = "edit" /\ ~r.lock /\ r.cursor)
<1>1. CASE r = PhoneFocus(f, perm)
  BY <1>1 DEF PhoneFocus, Phones
<1>2. CASE r = UpdateCursorAndOverlay(f, perm)
  <2>1. PICK g : g = [f EXCEPT !.readOnly = ~(perm = "edit" /\ f.cursor)]
    OBVIOUS
  <2>2. g \in Phones /\ g.cursor = f.cursor /\ g.lock = f.lock
    BY <2>1 DEF Phones
  <2>3. r = PhoneFocus(g, perm)
    BY <1>2, <2>1, Zenon DEF UpdateCursorAndOverlay
  <2> QED BY <2>2, <2>3 DEF PhoneFocus, Phones
<1> QED BY <1>1, <1>2

\* MovesFocus, Composes, Commits, GivesUpText, SuggestsText: texts at the desk.
LEMMA DeskTextInv ==
    KeyboardInv /\ (MovesFocus \/ Composes \/ Commits \/ GivesUpText \/ SuggestsText) => KeyboardInv'
<1> SUFFICES ASSUME KeyboardInv, MovesFocus \/ Composes \/ Commits \/ GivesUpText \/ SuggestsText
             PROVE  KeyboardInv'
  OBVIOUS
<1>1. /\ board \in Boards /\ keys \in Keyboards /\ phone \in Phones /\ texts \in Texts
      /\ TextArrivesOnce /\ KeyboardIsWanted
  BY DEF KeyboardInv, KeyboardShape
<1>2. CASE MovesFocus
  <2>1. board' \in Boards /\ board'.held = board.held
    BY <1>1, <1>2 DEF MovesFocus, Boards
  <2>2. keys' = keys /\ phone' = phone /\ stroke' = stroke /\ texts' = texts /\ blunders' = blunders
    BY <1>2 DEF MovesFocus
  <2>3. TextArrivesOnce' /\ KeyboardIsWanted'
    BY <1>1, <2>2 DEF TextArrivesOnce, KeyboardIsWanted
  <2> QED BY <1>1, <2>1, <2>2, <2>3, TextStepInv
<1>3. CASE Composes \/ GivesUpText
  <2>1. board' = board /\ stroke' = stroke /\ texts' = texts /\ blunders' = blunders
    BY <1>3 DEF Composes, GivesUpText
  <2>2. keys' \in Keyboards /\ keys'.altGr = keys.altGr /\ keys'.perm = keys.perm
    BY <1>1, <1>3 DEF Composes, GivesUpText, Keyboards
  <2>3. phone' \in Phones /\ phone'.focused = phone.focused /\ phone'.lock = phone.lock /\ phone'.cursor = phone.cursor
    BY <1>1, <1>3 DEF Composes, GivesUpText, Phones
  <2>4. TextArrivesOnce' /\ KeyboardIsWanted'
    BY <1>1, <2>1, <2>2, <2>3 DEF TextArrivesOnce, KeyboardIsWanted
  <2> QED BY <1>1, <2>1, <2>2, <2>3, <2>4, TextStepInv
<1>4. CASE Commits
  <2>1. /\ board' = board /\ stroke' = stroke /\ blunders' = blunders /\ phone' = phone
        /\ keys' = [keys EXCEPT !.composing = FALSE] /\ keys.composing
    BY <1>4 DEF Commits
  <2>2. keys' \in Keyboards /\ keys'.altGr = keys.altGr /\ keys'.perm = keys.perm
    BY <1>1, <2>1 DEF Keyboards
  <2>3. TextInput(keys) = 0 /\ Composed(keys) = 1
    BY <2>1 DEF TextInput, Composed
  <2>4. texts' = [meant |-> texts.meant + 1, got |-> texts.got + 1]
    <3>1. texts.got + 0 + 1 = texts.got + 1
      BY <1>1 DEF Texts
    <3> QED BY <1>4, <2>3, <3>1 DEF Commits
  <2>5. texts' \in Texts /\ TextArrivesOnce'
    <3>1. PICK n \in Nat : n = 1
      OBVIOUS
    <3>2. texts' = [meant |-> texts.meant + 1, got |-> texts.got + n]
      BY <2>4, <3>1
    <3> QED BY <1>1, <2>1, <3>1, <3>2, OneText
  <2>6. KeyboardIsWanted'
    BY <1>1, <2>1, <2>2 DEF KeyboardIsWanted
  <2> QED BY <1>1, <2>1, <2>2, <2>5, <2>6, TextStepInv
<1>5. CASE SuggestsText
  <2>1. PICK key \in BOOLEAN :
          LET down == IF key THEN [keys EXCEPT !.handled = FALSE] ELSE keys IN
          /\ keys' = IF key THEN [down EXCEPT !.handled = TRUE] ELSE down
          /\ texts' = [meant |-> texts.meant + 1, got |-> texts.got + TextInput(down)]
          /\ blunders' = IF ~key /\ keys.handled THEN blunders \cup {"suggested"} ELSE blunders
    BY <1>5, Zenon DEF SuggestsText
  <2>2. board' = board /\ stroke' = stroke /\ phone' = phone /\ ~keys.composing
    BY <1>5 DEF SuggestsText
  <2>3. PICK down : down = IF key THEN [keys EXCEPT !.handled = FALSE] ELSE keys
    OBVIOUS
  <2>4. down \in Keyboards /\ down.altGr = keys.altGr /\ down.perm = keys.perm /\ ~down.composing
        /\ (~down.handled <=> key \/ ~keys.handled)
    BY <1>1, <2>2, <2>3 DEF Keyboards
  <2>5. /\ keys' = IF key THEN [down EXCEPT !.handled = TRUE] ELSE down
        /\ texts' = [meant |-> texts.meant + 1, got |-> texts.got + TextInput(down)]
        /\ blunders' = IF ~key /\ keys.handled THEN blunders \cup {"suggested"} ELSE blunders
    BY <2>1, <2>3, Zenon
  <2>6. keys' \in Keyboards /\ keys'.altGr = keys.altGr /\ keys'.perm = keys.perm
    BY <2>4, <2>5 DEF Keyboards
  <2>7. PICK n : n = TextInput(down)
    OBVIOUS
  <2>8. n \in Nat /\ (n = 1 \/ blunders' \cap {"suggested", "phone"} # {}) /\ blunders \subseteq blunders'
    BY <2>4, <2>5, <2>7 DEF TextInput
  <2>9. texts' = [meant |-> texts.meant + 1, got |-> texts.got + n]
    BY <2>5, <2>7, Zenon
  <2>10. texts' \in Texts /\ TextArrivesOnce'
    BY <1>1, <2>8, <2>9, OneText
  <2>11. KeyboardIsWanted'
    BY <1>1, <2>2, <2>6 DEF KeyboardIsWanted
  <2> QED BY <1>1, <2>2, <2>6, <2>8, <2>10, <2>11, TextStepInv
<1> QED BY <1>2, <1>3, <1>4, <1>5

\* PhoneTypes, PhoneCommits: texts on the phone.
LEMMA PhoneTextInv == KeyboardInv /\ (PhoneTypes \/ PhoneCommits) => KeyboardInv'
<1> SUFFICES ASSUME KeyboardInv, PhoneTypes \/ PhoneCommits PROVE KeyboardInv'
  OBVIOUS
<1>1. /\ board \in Boards /\ keys \in Keyboards /\ phone \in Phones /\ texts \in Texts
      /\ TextArrivesOnce /\ KeyboardIsWanted
  BY DEF KeyboardInv, KeyboardShape
<1>2. board' = board /\ keys' = keys /\ stroke' = stroke
  BY DEF PhoneTypes, PhoneCommits
<1>3. \E n \in Nat : /\ texts' = [meant |-> texts.meant + 1, got |-> texts.got + n]
                     /\ n = 1 \/ blunders' \cap {"suggested", "phone"} # {}
                     /\ blunders \subseteq blunders'
                     /\ phone' \in Phones /\ phone'.focused = phone.focused /\ phone'.lock = phone.lock
                     /\ phone'.cursor = phone.cursor
  <2>1. CASE PhoneTypes
    <3>1. PICK key \in {"pressed", "silent", "none"} :
            LET down == CASE key = "none" -> phone [] OTHER -> [phone EXCEPT !.handled = FALSE]
                press == IF key = "pressed" THEN [down EXCEPT !.handled = TRUE] ELSE down
            IN  /\ phone' = IF key = "none" THEN press ELSE [press EXCEPT !.handled = TRUE]
                /\ texts' = [meant |-> texts.meant + 1,
                             got |-> texts.got + (IF key = "pressed" THEN 1 ELSE 0) + PhoneTextInput(press)]
                /\ blunders' = IF key = "none" /\ phone.handled THEN blunders \cup {"suggested"} ELSE blunders
      BY <2>1, Zenon DEF PhoneTypes
    <3>2. PICK down : down = IF key = "none" THEN phone ELSE [phone EXCEPT !.handled = FALSE]
      OBVIOUS
    <3>3. PICK press : press = IF key = "pressed" THEN [down EXCEPT !.handled = TRUE] ELSE down
      OBVIOUS
    <3>4. /\ press \in Phones /\ press.focused = phone.focused /\ press.lock = phone.lock /\ press.cursor = phone.cursor
          /\ key = "pressed" => press.handled
          /\ key = "silent" => ~press.handled
          /\ key = "none" => press.handled = phone.handled
      BY <1>1, <3>2, <3>3 DEF Phones
    <3>5. /\ phone' = IF key = "none" THEN press ELSE [press EXCEPT !.handled = TRUE]
          /\ texts' = [meant |-> texts.meant + 1,
                       got |-> texts.got + (IF key = "pressed" THEN 1 ELSE 0) + PhoneTextInput(press)]
          /\ blunders' = IF key = "none" /\ phone.handled THEN blunders \cup {"suggested"} ELSE blunders
      BY <3>1, <3>2, <3>3
    <3>6. PICK n : n = (IF key = "pressed" THEN 1 ELSE 0) + PhoneTextInput(press)
      OBVIOUS
    <3>7. n \in Nat /\ (n = 1 \/ blunders' \cap {"suggested", "phone"} # {}) /\ blunders \subseteq blunders'
      BY <3>4, <3>5, <3>6 DEF PhoneTextInput
    <3>8. texts.got + (IF key = "pressed" THEN 1 ELSE 0) + PhoneTextInput(press) = texts.got + n
      <4>1. texts.got \in Nat /\ PhoneTextInput(press) \in Nat
        BY <1>1 DEF Texts, PhoneTextInput
      <4> QED BY <3>6, <4>1
    <3>9. texts' = [meant |-> texts.meant + 1, got |-> texts.got + n]
      BY <3>5, <3>8, Zenon
    <3>10. /\ phone' \in Phones /\ phone'.focused = phone.focused /\ phone'.lock = phone.lock
           /\ phone'.cursor = phone.cursor
      BY <3>4, <3>5 DEF Phones
    <3> QED BY <3>7, <3>9, <3>10
  <2>2. CASE PhoneCommits
    <3>1. PICK key \in BOOLEAN :
            LET f == [phone EXCEPT !.handled = key] IN
            /\ phone' = [f EXCEPT !.composing = FALSE]
            /\ texts' = [meant |-> texts.meant + 1, got |-> texts.got + PhoneTextInput(f) + 1]
            /\ blunders' = IF key THEN blunders ELSE blunders \cup {"phone"}
      BY <2>2, Zenon DEF PhoneCommits
    <3>2. PICK f : f = [phone EXCEPT !.handled = key]
      OBVIOUS
    <3>3. f \in Phones /\ f.handled = key /\ f.focused = phone.focused /\ f.lock = phone.lock /\ f.cursor = phone.cursor
      BY <1>1, <3>2 DEF Phones
    <3>4. /\ phone' = [f EXCEPT !.composing = FALSE]
          /\ texts' = [meant |-> texts.meant + 1, got |-> texts.got + PhoneTextInput(f) + 1]
          /\ blunders' = IF key THEN blunders ELSE blunders \cup {"phone"}
      BY <3>1, <3>2, Zenon
    <3>5. PICK n : n = PhoneTextInput(f) + 1
      OBVIOUS
    <3>6. n \in Nat /\ (n = 1 \/ blunders' \cap {"suggested", "phone"} # {}) /\ blunders \subseteq blunders'
      BY <3>3, <3>4, <3>5 DEF PhoneTextInput
    <3>7. texts.got + PhoneTextInput(f) + 1 = texts.got + n
      <4>1. texts.got \in Nat /\ PhoneTextInput(f) \in Nat
        BY <1>1 DEF Texts, PhoneTextInput
      <4> QED BY <3>5, <4>1
    <3>8. texts' = [meant |-> texts.meant + 1, got |-> texts.got + n]
      BY <3>4, <3>7, Zenon
    <3>9. /\ phone' \in Phones /\ phone'.focused = phone.focused /\ phone'.lock = phone.lock
          /\ phone'.cursor = phone.cursor
      BY <3>3, <3>4 DEF Phones
    <3> QED BY <3>6, <3>8, <3>9
  <2> QED BY <2>1, <2>2
<1>4. texts' \in Texts /\ TextArrivesOnce'
  BY <1>1, <1>3, OneText
<1>5. KeyboardIsWanted'
  BY <1>1, <1>2, <1>3 DEF KeyboardIsWanted
<1> QED BY <1>1, <1>2, <1>3, <1>4, <1>5, TextStepInv

\* ChangesPermission, ShowsCursor, LocksPhone, PhoneKeyboardRises: the keyboard of the phone.
LEMMA PhoneKeyboardInv ==
    KeyboardInv /\ (ChangesPermission \/ ShowsCursor \/ LocksPhone \/ PhoneKeyboardRises) => KeyboardInv'
<1> SUFFICES ASSUME KeyboardInv, ChangesPermission \/ ShowsCursor \/ LocksPhone \/ PhoneKeyboardRises
             PROVE  KeyboardInv'
  OBVIOUS
<1>1. /\ board \in Boards /\ keys \in Keyboards /\ phone \in Phones /\ texts \in Texts
      /\ TextArrivesOnce /\ KeyboardIsWanted
  BY DEF KeyboardInv, KeyboardShape
<1>2. board' = board /\ stroke' = stroke /\ texts' = texts /\ blunders' = blunders
  BY DEF ChangesPermission, ShowsCursor, LocksPhone, PhoneKeyboardRises
<1>3. TextArrivesOnce'
  BY <1>1, <1>2 DEF TextArrivesOnce
<1>4. keys' \in Keyboards /\ keys'.altGr = keys.altGr
  BY <1>1 DEF ChangesPermission, ShowsCursor, LocksPhone, PhoneKeyboardRises, Keyboards
<1>5. phone' \in Phones /\ KeyboardIsWanted'
  <2>1. CASE ChangesPermission
    <3>1. keys' = [keys EXCEPT !.perm = IF keys.perm = "edit" THEN "view" ELSE "edit"]
      BY <2>1 DEF ChangesPermission
    <3>2. keys'.perm = IF keys.perm = "edit" THEN "view" ELSE "edit"
      BY <1>1, <3>1 DEF Keyboards
    <3>3. CASE keys.perm = "edit"
      <4>1. phone' = UpdateCursorAndOverlay(phone, "view")
        BY <2>1, <3>2, <3>3 DEF ChangesPermission
      <4>2. PICK r, perm : r = phone' /\ perm = "view"
        OBVIOUS
      <4>3. r \in Phones /\ (r.focused => perm = "edit")
        BY <1>1, <4>1, <4>2, PhoneFocusEffect
      <4> QED BY <4>2, <4>3 DEF KeyboardIsWanted
    <3>4. CASE keys.perm # "edit"
      <4>1. phone' = phone
        BY <2>1, <3>2, <3>4 DEF ChangesPermission
      <4> QED BY <1>1, <3>4, <4>1 DEF KeyboardIsWanted
    <3> QED BY <3>3, <3>4
  <2>2. CASE ShowsCursor
    <3>1. PICK visible \in BOOLEAN : phone' = UpdateCursorAndOverlay([phone EXCEPT !.cursor = visible], keys.perm)
      BY <2>2 DEF ShowsCursor
    <3>2. PICK f, r : f = [phone EXCEPT !.cursor = visible] /\ r = phone'
      OBVIOUS
    <3>3. f \in Phones /\ r = UpdateCursorAndOverlay(f, keys.perm) /\ keys' = keys
      BY <1>1, <2>2, <3>1, <3>2 DEF Phones, ShowsCursor
    <3>4. r \in Phones /\ (r.focused => keys.perm = "edit" /\ ~r.lock /\ r.cursor)
      BY <3>3, PhoneFocusEffect
    <3> QED BY <3>2, <3>3, <3>4 DEF KeyboardIsWanted
  <2>3. CASE LocksPhone
    <3>1. PICK f, r : f = [phone EXCEPT !.lock = ~@] /\ r = phone'
      OBVIOUS
    <3>2. f \in Phones /\ r = PhoneFocus(f, keys.perm) /\ keys' = keys
      BY <1>1, <2>3, <3>1 DEF Phones, LocksPhone
    <3>3. r \in Phones /\ (r.focused => keys.perm = "edit" /\ ~r.lock /\ r.cursor)
      BY <3>2, PhoneFocusEffect
    <3> QED BY <3>1, <3>2, <3>3 DEF KeyboardIsWanted
  <2>4. CASE PhoneKeyboardRises
    <3>1. keys' = keys
      BY <2>4 DEF PhoneKeyboardRises
    <3>2. CASE ~phone.readOnly /\ keys.perm = "edit"
      <4>1. PICK f, r : f = [phone EXCEPT !.cursor = TRUE] /\ r = phone'
        OBVIOUS
      <4>2. f \in Phones /\ r = UpdateCursorAndOverlay(f, keys.perm)
        BY <1>1, <2>4, <3>2, <4>1 DEF Phones, PhoneKeyboardRises
      <4>3. r \in Phones /\ (r.focused => keys.perm = "edit" /\ ~r.lock /\ r.cursor)
        BY <4>2, PhoneFocusEffect
      <4> QED BY <3>1, <4>1, <4>3 DEF KeyboardIsWanted
    <3>3. CASE ~(~phone.readOnly /\ keys.perm = "edit")
      <4>1. phone' = phone
        BY <2>4, <3>3, Zenon DEF PhoneKeyboardRises
      <4> QED BY <1>1, <3>1, <4>1 DEF KeyboardIsWanted
    <3> QED BY <3>2, <3>3
  <2> QED BY <2>1, <2>2, <2>3, <2>4
<1> QED BY <1>1, <1>2, <1>3, <1>4, <1>5, TextStepInv

\* The initial state, and every step.
LEMMA KeyboardInitInv == KeyboardInit => KeyboardInv
<1> SUFFICES ASSUME KeyboardInit PROVE KeyboardInv
  OBVIOUS
<1>1. KeyboardShape
  BY DEF KeyboardInit, KeyboardShape, Boards, Keyboards, Phones, Texts
<1>2. AltGrIsKnown /\ StrokeIsSent /\ TextArrivesOnce /\ KeyboardIsWanted
  BY DEF KeyboardInit, AltGrIsKnown, StrokeIsSent, TextArrivesOnce, KeyboardIsWanted
<1> QED BY <1>1, <1>2 DEF KeyboardInv

LEMMA KeyboardNextInv == KeyboardInv /\ [KeyboardNext]_keyboardVars => KeyboardInv'
<1> SUFFICES ASSUME KeyboardInv, [KeyboardNext]_keyboardVars PROVE KeyboardInv'
  OBVIOUS
<1>1. CASE KeyboardNext
  BY <1>1, StrikesInv, ModifierInv, DeskTextInv, PhoneTextInv, PhoneKeyboardInv DEF KeyboardNext
<1>2. CASE UNCHANGED keyboardVars
  BY <1>2 DEF keyboardVars, KeyboardInv, KeyboardShape, AltGrIsKnown, StrokeIsSent, TextArrivesOnce,
              KeyboardIsWanted
<1> QED BY <1>1, <1>2

-----------------------------------------------------------------------------
(* The client.                                                             *)

InputInv ==
    /\ usedPart = "pointer" => PointerInv
    /\ usedPart = "keyboard" => KeyboardInv

DialogsPart == usedPart = "dialogs" => DialogsAreSound

\* A step of the client is one of the part the behaviour is about.
LEMMA PartSteps ==
    ASSUME [ControlsNext]_controlVars
    PROVE  /\ usedPart' = usedPart
           /\ usedPart = "pointer" => [PointerNext]_pointerVars
           /\ usedPart = "keyboard" => [KeyboardNext]_keyboardVars
           /\ usedPart = "dialogs" => [DialogsNext]_dialogsVars
<1>1. CASE ControlsNext
  BY <1>1 DEF ControlsNext
<1>2. CASE UNCHANGED controlVars
  BY <1>2 DEF controlVars
<1> QED BY <1>1, <1>2

\* No button or key stays pressed for the kit that the user let go, what is sent comes in order
\* and means what the user meant, and a text arrives once: _onMouseEvent, _executeMouseEvents,
\* the listeners outside the map, _onKeyDown and the input methods of desk and phone.
THEOREM InputIsAlwaysRight == ControlsSpec => []InputIsRight
<1>1. ControlsInit => InputInv
  BY PointerInitInv, KeyboardInitInv DEF ControlsInit, InputInv
<1>2. InputInv /\ [ControlsNext]_controlVars => InputInv'
  BY PartSteps, PointerNextInv, KeyboardNextInv DEF InputInv
<1>3. InputInv => InputIsRight
  BY PointerIsRight DEF InputInv, InputIsRight, KeyboardInv
<1> QED BY <1>1, <1>2, <1>3, PTL DEF ControlsSpec

\* Once everything is read, the browser shows the dialogs the kit has, each with its child and
\* painted as the kit painted it last; the browser has each picture that the kit takes it to
\* have, and a pop-up can be closed: the callbacks of Document and ChildSession::renderWindow
\* in the kit, the handlers of the dialogs' messages in Control.LokDialog.js.
THEOREM DialogsAreAlwaysRight == ControlsSpec => []DialogsAreRight
<1>1. ControlsInit => DialogsPart
  BY SoundInit DEF ControlsInit, DialogsPart
<1>2. DialogsPart /\ [ControlsNext]_controlVars => DialogsPart'
  BY PartSteps, SoundStep DEF DialogsPart
<1>3. DialogsPart => DialogsAreRight
  BY SoundMatches DEF DialogsAreRight, DialogsAreSound, DialogsPart
<1> QED BY <1>1, <1>2, <1>3, PTL DEF ControlsSpec

=============================================================================
