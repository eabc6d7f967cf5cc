--------------------------- MODULE BrowserSlides ---------------------------
(***************************************************************************)
(* The slides of a presentation as the browser keeps them: which one is    *)
(* shown, how many there are, and the list of previews beside them.  The   *)
(* browser inserts and deletes a slide before the kit has done it, and     *)
(* knows a slide by its place, while other users insert and delete too.    *)
(* Places count from 0, as in the code.                                    *)
(***************************************************************************)
EXTENDS Integers, Sequences, SequencesExt

CONSTANTS FirstSlides,    \* slides of the document when it is opened
          InReach,        \* previews near enough to the window to be asked for
          MaxSlideTurns   \* bound: what the user and the others do

VARIABLES
    deck,        \* the kit: the slides in order, and the one this view is at
    fromDeck,    \* messages from the kit
    pane,        \* the browser, with its messages to the kit, see SlidesTypeOK
    slideTurns,  \* how much of the bound is used up
    wrongs       \* history: the named holes that have been met

slidesVars == <<deck, fromDeck, pane, slideTurns, wrongs>>

NoHash == 0
NoPic == <<0, 0>>
Hashes == 0..(FirstSlides + MaxSlideTurns)
Revisions == 0..MaxSlideTurns
NoPlace == 0 - 1

HashesOf(slides) == [i \in DOMAIN slides |-> slides[i][1]]

\* The values the variables take.
SlidesTypeOK ==
    /\ deck.slides \in Seq(Hashes \X Revisions) /\ deck.slides # <<>>
    /\ deck.at \in 0..(Len(deck.slides) - 1)
    /\ pane.parts \in Nat \ {0} /\ pane.at \in 0..(pane.parts - 1)
    /\ pane.tiles \in Seq([hash: Hashes, pic: Hashes \X Revisions, fetched: BOOLEAN])
    /\ pane.hidden \subseteq pane.asked
    /\ wrongs \subseteq {"shifted", "renamed", "unasked", "synced", "behind", "deleted", "twice"}

\* The pane is open, and the previews in reach have been painted.
SlidesInit ==
    LET slides == [i \in 1..FirstSlides |-> <<i, 0>>]
        reached == {i \in 0..(FirstSlides - 1) : i < InReach}
    IN /\ deck = [slides |-> slides, at |-> 0, next |-> FirstSlides + 1]
       /\ fromDeck = <<>>
       /\ pane = [parts |-> FirstSlides, at |-> 0, prev |-> 0, prevStale |-> FALSE,
                  last |-> NoPlace, info |-> <<HashesOf(slides), 0>>,
                  tiles |-> [i \in 1..FirstSlides |->
                              [hash |-> i, fetched |-> i - 1 \in reached,
                               pic |-> IF i - 1 \in reached THEN slides[i] ELSE NoPic]],
                  asked |-> reached, hidden |-> {}, timer |-> FALSE, out |-> <<>>]
       /\ slideTurns = 0 /\ wrongs = {}

-----------------------------------------------------------------------------
(* The kit.  It answers a preview in its own time, but never before a       *)
(* command that was sent ahead of it.                                      *)

Status(d) == <<"status", HashesOf(d.slides), d.at>>

Inserted(d, place) ==
    [d EXCEPT !.slides = InsertAt(@, place + 1, <<d.next, 0>>), !.next = @ + 1]

\* A view stays at its slide; when that one goes, at the one that takes its place.
Deleted(d, place) ==
    LET n == Len(d.slides) - 1
    IN [d EXCEPT !.slides = RemoveAt(@, place + 1),
                 !.at = IF place < @ \/ @ = n THEN @ - 1 ELSE @]

KitInserts ==
    LET d == [Inserted(deck, deck.at + 1) EXCEPT !.at = @ + 1]
    IN /\ deck' = d
       /\ fromDeck' = fromDeck \o <<Status(d), <<"setpart", d.at>>>>
       /\ UNCHANGED wrongs

\* want: the slide that the user saw, known: what the user could know of.
KitDeletes(want, known) ==
    /\ \/ /\ Len(deck.slides) > 1
          /\ deck' = Deleted(deck, deck.at)
          /\ fromDeck' = fromDeck \o <<Status(Deleted(deck, deck.at)),
                                       <<"setpart", Deleted(deck, deck.at).at>>>>
       \/ /\ Len(deck.slides) = 1
          /\ UNCHANGED <<deck, fromDeck>>
    /\ wrongs' = wrongs \cup
          (IF ~known \/ want \in {NoHash, deck.slides[deck.at + 1][1]} THEN {}
           ELSE IF Contains(HashesOf(deck.slides), want) THEN {"deleted"} ELSE {"twice"})

KitSetsPart(part) ==
    /\ \/ /\ part < Len(deck.slides) /\ part # deck.at
          /\ deck' = [deck EXCEPT !.at = part]
          /\ fromDeck' = Append(fromDeck, <<"setpart", part>>)
       \/ /\ part >= Len(deck.slides) \/ part = deck.at
          /\ UNCHANGED <<deck, fromDeck>>
    /\ UNCHANGED wrongs

\* A part that is gone is not painted: the answer shows the current one.
KitPaints(part) ==
    LET shown == IF part < Len(deck.slides) THEN part ELSE deck.at
    IN /\ fromDeck' = Append(fromDeck, <<"tilepreview", part, deck.slides[shown + 1]>>)
       /\ UNCHANGED <<deck, wrongs>>

KitTakes(i) ==
    LET m == pane.out[i]
    IN /\ \A j \in 1..(i - 1) : pane.out[j][1] = "preview"
       /\ pane' = [pane EXCEPT !.out = RemoveAt(@, i)]
       /\ \/ m[1] = "insert" /\ KitInserts
          \/ m[1] = "delete" /\ KitDeletes(m[2], m[3])
          \/ m[1] = "setclientpart" /\ KitSetsPart(m[2])
          \/ m[1] = "preview" /\ KitPaints(m[2])
       /\ UNCHANGED slideTurns

SlideTurn == slideTurns < MaxSlideTurns /\ slideTurns' = slideTurns + 1

\* What the other users do.
OthersInsert(place) ==
    LET d == [Inserted(deck, place) EXCEPT !.at = IF place <= @ THEN @ + 1 ELSE @]
    IN /\ SlideTurn
       /\ deck' = d /\ fromDeck' = Append(fromDeck, Status(d))
       /\ UNCHANGED <<pane, wrongs>>

OthersDelete(place) ==
    /\ SlideTurn /\ Len(deck.slides) > 1
    /\ deck' = Deleted(deck, place)
    /\ fromDeck' = Append(fromDeck, Status(Deleted(deck, place)))
    /\ UNCHANGED <<pane, wrongs>>

SomebodyTypes(place) ==
    /\ SlideTurn
    /\ deck' = [deck EXCEPT !.slides[place + 1][2] = @ + 1]
    /\ fromDeck' = Append(fromDeck, <<"invalidatetiles", place>>)
    /\ UNCHANGED <<pane, wrongs>>

-----------------------------------------------------------------------------
(* The previews.                                                           *)

\* _previewTiles[i]
TileAt(p, i) == p.tiles[i + 1]

\* A request for a preview takes the place of an older one for the same preview.
GetPreview(p, i) ==
    [p EXCEPT !.asked = @ \cup {i}, !.hidden = @ \ {i},
              !.out = Append(SelectSeq(@, LAMBDA m : m # <<"preview", i>>), <<"preview", i>>)]

\* A preview of this place or a later one is asked for, answered or out of date.
UnderWay(place) ==
    \/ \E i \in pane.hidden : i >= place
    \/ \E i \in DOMAIN pane.out : pane.out[i][1] = "preview" /\ pane.out[i][2] >= place
    \/ \E i \in DOMAIN fromDeck : fromDeck[i][1] \in {"tilepreview", "invalidatetiles"} /\ fromDeck[i][2] >= place

\* A preview that is not in reach is asked for when the user scrolls there.
CreatePreview(p, i, hash) ==
    LET q == [p EXCEPT !.tiles = InsertAt(@, i + 1,
                        [hash |-> hash, pic |-> NoPic, fetched |-> i < InReach])]
    IN IF i < InReach THEN GetPreview(q, i) ELSE q

InsertPreview(p, selected, hash) == CreatePreview(p, selected + 1, hash)

DeletePreview(p, selected) == [p EXCEPT !.tiles = RemoveAt(@, selected + 1)]

\* _onScroll, to the end of the list
OnScroll(p) ==
    LET missing == {i \in 0..(Len(p.tiles) - 1) : ~TileAt(p, i).fetched}
        q == FoldLeft(LAMBDA r, i : GetPreview(r, i), p, SetToSeq(missing))
    IN [q EXCEPT !.tiles = [i \in DOMAIN @ |-> [@[i] EXCEPT !.fetched = TRUE]]]

\* _updatePart
UpdatePart(p, part) == IF part >= 0 THEN GetPreview(p, part) ELSE p

\* The first place where the list of hashes and the previews differ.
Differs(p, hashes) ==
    CHOOSE i \in 0..Len(p.tiles) :
        /\ \/ i = Len(p.tiles) \/ i = Len(hashes)
           \/ TileAt(p, i).hash # hashes[i + 1]
        /\ \A j \in 0..(i - 1) : TileAt(p, j).hash = hashes[j + 1]

\* _syncPreviews for one slide more, one less, as many, and any other number.  A slide that
\* was inserted before another one gets its preview behind that one.
SyncOneMore(p, hashes) ==
    LET i == Differs(p, hashes)
    IN InsertPreview(p, IF i = Len(p.tiles) THEN i - 1 ELSE i, hashes[i + 1])

SyncOneLess(p, hashes) == DeletePreview(p, Differs(p, hashes))

\* _updatePreviewProperty of every preview
SyncProperties(p, hashes) ==
    [p EXCEPT !.tiles = [i \in DOMAIN @ |-> [@[i] EXCEPT !.hash = hashes[i]]]]

\* Every preview becomes a placeholder; then the code calls a function that is not there.
SyncAll(p, hashes) ==
    LET n == Len(p.tiles)
        more == FoldLeft(LAMBDA r, i : InsertPreview(r, i - 1, hashes[i + 1]), p,
                         [k \in 1..(Len(hashes) - n) |-> n + k - 1])
    IN [more EXCEPT !.tiles = [i \in 1..Len(hashes) |->
                                [hash |-> hashes[i], pic |-> NoPic, fetched |-> FALSE]]]

\* With a slip: one slide less is always taken for the last.
SyncPreviewsAtEnd(p, hashes) ==
    LET more == Len(hashes) - Len(p.tiles)
    IN CASE more = 0 -> SyncProperties(p, hashes)
         [] more = 1 -> SyncOneMore(p, hashes)
         [] more = 0 - 1 -> DeletePreview(p, Len(p.tiles) - 1)
         [] OTHER -> SyncAll(p, hashes)

SyncPreviews(p, hashes) ==
    LET more == Len(hashes) - Len(p.tiles)
    IN CASE more = 0 -> SyncProperties(p, hashes)
         [] more = 1 -> SyncOneMore(p, hashes)
         [] more = 0 - 1 -> SyncOneLess(p, hashes)
         [] OTHER -> SyncAll(p, hashes)

-----------------------------------------------------------------------------
(* Parts.                                                                  *)

\* setPart, for a part that is there
SetPart(p, part, external) ==
    IF part \notin 0..(p.parts - 1) THEN [p EXCEPT !.prev = p.at]
    ELSE [p EXCEPT !.prev = p.at, !.at = part, !.prevStale = TRUE,
                   !.out = IF external THEN @ ELSE Append(@, <<"setclientpart", part>>)]

Next1(p) == IF p.at < p.parts - 1 THEN p.at + 1 ELSE p.at

\* insertPage and duplicatePage: the new slide comes after the one that is shown.
InsertPage(p) ==
    LET q == [p EXCEPT !.out = Append(@, <<"insert">>)]
        r == [InsertPreview(q, q.at, NoHash) EXCEPT !.parts = @ + 1]
    IN SetPart(r, Next1(r), FALSE)

\* What the user sees is known to the kit too when nothing is under way between them.
UpToDate == pane.out = <<>> /\ fromDeck = <<>>

ShownHash(p) == IF p.at < Len(p.info[1]) THEN p.info[1][p.at + 1] ELSE NoHash

\* With a slip: the slide to go to is sent ahead of the command.
DeletePageLate(p) ==
    LET delete == <<"delete", ShownHash(p), UpToDate>>
        r == [DeletePreview(p, p.at) EXCEPT
                !.parts = @ - 1, !.at = IF @ >= p.parts - 1 THEN @ - 1 ELSE @]
    IN IF p.parts = 1 THEN [p EXCEPT !.out = Append(@, delete)]
       ELSE [SetPart(r, r.at, FALSE) EXCEPT !.out = Append(@, delete)]

\* The command is sent before the number of slides is looked at.
DeletePage(p) ==
    LET q == [p EXCEPT !.out = Append(@, <<"delete", ShownHash(p), UpToDate>>)]
        r == [DeletePreview(q, q.at) EXCEPT
                !.parts = @ - 1, !.at = IF @ >= p.parts - 1 THEN @ - 1 ELSE @]
    IN IF p.parts = 1 THEN q ELSE SetPart(r, r.at, FALSE)

-----------------------------------------------------------------------------
(* Messages.                                                               *)

OnStatusMsg(hashes, at) ==
    \/ /\ pane.info # <<hashes, at>>
       /\ pane' = SyncPreviews([pane EXCEPT !.info = <<hashes, at>>, !.parts = Len(hashes),
                                            !.at = at], hashes)
       /\ LET n == Len(pane.tiles)
          IN wrongs' = wrongs
                \cup (IF hashes # pane.info[1] /\ UnderWay(0) THEN {"shifted"} ELSE {})
                \cup (IF Len(hashes) = n /\ \E i \in 1..n : pane.tiles[i].hash \notin {hashes[i], NoHash}
                      THEN {"renamed"} ELSE {})
                \cup (IF Len(hashes) - n \notin {0 - 1, 0, 1} THEN {"synced"} ELSE {})
                \cup (IF Len(hashes) = n + 1 /\ Differs(pane, hashes) < n THEN {"behind"} ELSE {})
    \/ pane.info = <<hashes, at>> /\ UNCHANGED <<pane, wrongs>>

OnSetPartMsg(part) ==
    /\ pane' = IF part = pane.at THEN pane ELSE SetPart(pane, part, TRUE)
    /\ UNCHANGED wrongs

\* _updatePreview: the answer is for a place in the list, whichever slide is there by now.
UpdatePreview(i, pic) ==
    LET there == i < Len(pane.tiles)
    IN /\ pane' = IF there THEN [pane EXCEPT !.tiles[i + 1].pic = pic] ELSE pane
       /\ UNCHANGED wrongs

\* The slides are invalidated: a part whose preview was never asked for stops the handler.
OnInvalidateTilesMsg(part) ==
    LET new == part = pane.at /\ part # pane.last
        p == IF new THEN UpdatePart(UpdatePart([pane EXCEPT !.last = part], pane.last), part) ELSE pane
    IN IF part \in p.asked
       THEN /\ pane' = [p EXCEPT !.hidden = @ \cup {part}, !.timer = TRUE]
            /\ UNCHANGED wrongs
       ELSE /\ pane' = p
            /\ wrongs' = wrongs \cup {"unasked"}

SlidesReceive ==
    LET m == Head(fromDeck)
    IN /\ fromDeck # <<>> /\ fromDeck' = Tail(fromDeck)
       /\ \/ m[1] = "status" /\ OnStatusMsg(m[2], m[3])
          \/ m[1] = "setpart" /\ OnSetPartMsg(m[2])
          \/ m[1] = "tilepreview" /\ UpdatePreview(m[2], m[3])
          \/ m[1] = "invalidatetiles" /\ OnInvalidateTilesMsg(m[2])
       /\ UNCHANGED <<deck, slideTurns>>

\* With a slip: only the slide that is shown is brought up to date.
InvalidatePreviewsShown ==
    /\ pane.timer
    /\ pane' = (IF pane.at \in pane.asked THEN GetPreview([pane EXCEPT !.timer = FALSE], pane.at)
                ELSE [pane EXCEPT !.timer = FALSE])
    /\ UNCHANGED <<deck, fromDeck, slideTurns, wrongs>>

\* _invalidatePreviews, a second after the last invalidation
InvalidatePreviews ==
    LET due == {i \in pane.asked : \/ i \in pane.hidden \/ i = pane.at
                                   \/ i = pane.prev /\ pane.prevStale}
        p == [pane EXCEPT !.timer = FALSE,
                          !.prevStale = @ /\ pane.prev \notin due]
    IN /\ pane.timer
       /\ pane' = FoldLeft(LAMBDA r, i : GetPreview(r, i), p, SetToSeq(due))
       /\ UNCHANGED <<deck, fromDeck, slideTurns, wrongs>>

-----------------------------------------------------------------------------
(* The user.                                                               *)

UserTurns(p) ==
    /\ SlideTurn /\ pane' = p
    /\ UNCHANGED <<deck, fromDeck>>

UserMovesPreviews(place) ==
    wrongs' = wrongs \cup (IF UnderWay(place) THEN {"shifted"} ELSE {})

\* _setPart: a click on a preview
ClickPreview(i) == i # pane.at /\ UserTurns(SetPart(pane, i, FALSE)) /\ UNCHANGED wrongs

InsertSlide == UserTurns(InsertPage(pane)) /\ UserMovesPreviews(pane.at + 1)
DeleteSlide == UserTurns(DeletePage(pane)) /\ UserMovesPreviews(pane.at)

ScrollPreviews ==
    /\ \E i \in DOMAIN pane.tiles : ~pane.tiles[i].fetched
    /\ pane' = OnScroll(pane)
    /\ UNCHANGED <<deck, fromDeck, slideTurns, wrongs>>

\* .uno:GridVisible has changed: all previews are painted again.
OnGridVisible ==
    /\ UserTurns(OnScroll([pane EXCEPT !.tiles =
                    [i \in DOMAIN @ |-> [@[i] EXCEPT !.fetched = FALSE]]]))
    /\ UNCHANGED wrongs

SlidesNext ==
    \/ \E i \in DOMAIN pane.out : KitTakes(i)
    \/ \E i \in 0..Len(deck.slides) : OthersInsert(i)
    \/ \E i \in 0..(Len(deck.slides) - 1) : OthersDelete(i) \/ SomebodyTypes(i)
    \/ SlidesReceive
    \/ InvalidatePreviews
    \/ \E i \in 0..(Len(pane.tiles) - 1) : ClickPreview(i)
    \/ InsertSlide
    \/ DeleteSlide
    \/ ScrollPreviews
    \/ OnGridVisible

SlidesSpec == SlidesInit /\ [][SlidesNext]_slidesVars

-----------------------------------------------------------------------------
(* Properties.                                                             *)

SlidesQuiet == UpToDate /\ ~pane.timer

\* When browser and kit have heard each other out, the list beside the slides has one
\* preview for each, in their order, and the browser shows the slide that the kit edits:
\* whatever insertPage and deletePage did ahead of the kit, and whatever others did meanwhile.
SlidesAgree ==
    UpToDate => /\ \/ "behind" \in wrongs
                   \/ HashesOf(deck.slides) = [i \in DOMAIN pane.tiles |-> pane.tiles[i].hash]
                /\ Len(pane.tiles) = Len(deck.slides)
                /\ pane.parts = Len(deck.slides)
                /\ pane.at = deck.at

\* Every preview that counts as fetched shows its slide as it is now, unless an answer met a
\* list that had moved on ("shifted"), a list of slides was taken for another one of the same
\* length ("renamed"), or a new slide's preview was put behind the next one ("behind"), or an
\* invalidation was dropped for want of a request ("unasked").
PreviewsAreCurrent ==
    SlidesQuiet /\ wrongs \subseteq {"synced", "deleted", "twice"} =>
        \A i \in DOMAIN pane.tiles :
            \/ pane.tiles[i].pic = deck.slides[i]
            \/ pane.tiles[i].pic = NoPic /\ ~pane.tiles[i].fetched

\* A user who has an up-to-date view deletes the slide that is shown: deletePage names no
\* slide, the kit deletes the one it takes for the current one.  (When another user has just
\* deleted that slide, the next one goes too: "twice".)
DeletesWhatIsShown == "deleted" \notin wrongs

=============================================================================
