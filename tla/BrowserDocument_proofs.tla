------------------------ MODULE BrowserDocument_proofs ------------------------
(***************************************************************************)
(* What the browser shows of the document, for any users, sheets, kinds of *)
(* marks and number of messages.                                           *)
(***************************************************************************)
EXTENDS BrowserDocument, TLAPS

-----------------------------------------------------------------------------
(* Other users' views: the marks.                                          *)

ViewMarks == ViewKinds \X Others
Mark == [part: Sheets \cup {-1}, filled: BOOLEAN, made: BOOLEAN, visible: BOOLEAN]

\* A view that is not there has no cursor, so that none is drawn when its id
\* is used again (_removeView).
UnknownHaveNoCursor ==
    \A v \in Others \ known : "cursor" \in ViewKinds => marks[<<"cursor", v>>] = NoMark

\* Before the first status message there is nothing to draw.
NothingBeforeOpening ==
    sheet.type = "none" =>
        /\ drawn = {} /\ ~zooming
        /\ \A m \in ViewMarks : marks[m] = NoMark

\* What is said of a view that is not there is at most its cell cursor.
MarksInv ==
    /\ UnknownHaveNoCursor
    /\ NothingBeforeOpening
    /\ CursorsAreCurrent
    /\ WhoLeftIsErased

\* Unless a hole was met, who is followed is there, and to follow whoever
\* edits excludes following a user.
FollowedIsThere ==
    gaps = {} =>
        /\ follow.this \in known \cup {Nobody}
        /\ follow.editor => ~follow.user /\ follow.row = {}

ViewsInv ==
    /\ ViewsTypeOK
    /\ MarksInv
    /\ FollowedIsThere
    /\ FollowIsConsistent

\* A cursor and a mark of another kind are shown by their own conditions.
LEMMA ShowsByKind ==
    ASSUME NEW m \in ViewMarks, NEW mark, NEW part, NEW zoom
    PROVE  /\ m[1] = "cursor" => (Shows(m, mark, part, zoom) <=> ShowsCursor(m[2], mark, part, zoom))
           /\ m[1] = "cell" => (Shows(m, mark, part, zoom) <=> ShowsCell(mark, part))
           /\ m[1] = "graphic" => (Shows(m, mark, part, zoom) <=> ShowsGraphic(mark, part))
           /\ m[1] = "selection" => (Shows(m, mark, part, zoom) <=> ShowsSelection(mark, part))
BY DEF Shows

\* What has been made before does not bear on what is shown.
LEMMA ShowsIgnoresMade ==
    ASSUME NEW m \in ViewMarks, NEW a \in Mark, NEW b \in Mark, NEW part, NEW zoom,
           a.part = b.part, a.filled = b.filled, a.visible = b.visible
    PROVE  Shows(m, a, part, zoom) <=> Shows(m, b, part, zoom)
<1>1. m[1] \in {"cursor", "cell", "graphic", "selection"}
      BY ViewsAssumption DEF ViewMarks
<1>2. QED
      BY <1>1, ShowsByKind
         DEF ShowsCursor, ShowsCell, ShowsGraphic, ShowsSelection, OnSheet

\* Nothing is shown of an empty mark.
LEMMA EmptyIsNotShown ==
    ASSUME NEW m \in ViewMarks, NEW mark, mark.filled = FALSE, NEW part, NEW zoom
    PROVE  ~Shows(m, mark, part, zoom)
<1>1. m[1] \in {"cursor", "cell", "graphic", "selection"}
      BY ViewsAssumption DEF ViewMarks
<1>2. QED
      BY <1>1, ShowsByKind DEF ShowsCursor, ShowsCell, ShowsGraphic, ShowsSelection

\* No mark comes before itself, and cursors come before all other marks.
LEMMA BeforeIsStrict ==
    ASSUME NEW m \in ViewMarks
    PROVE  /\ ~Before(m, m)
           /\ \A n \in ViewMarks : m[1] = "cursor" /\ n[1] # "cursor" => Before(m, n)
<1>1. m[1] \in {"cursor", "cell", "graphic", "selection"} /\ m[2] \in Nat
      BY ViewsAssumption DEF ViewMarks, Others
<1>2. KindOrder["cursor"] = 1 /\ KindOrder["cell"] = 2 /\ KindOrder["graphic"] = 3
      /\ KindOrder["selection"] = 4
      BY DEF KindOrder
<1>3. \A n \in ViewMarks : n[1] \in {"cursor", "cell", "graphic", "selection"}
      BY ViewsAssumption DEF ViewMarks
<1>4. QED
      BY <1>1, <1>2, <1>3 DEF Before

\* A mark in the same place, made if the other was.
Remade(k, l) ==
    /\ l.part = k.part /\ l.filled = k.filled /\ l.visible = k.visible
    /\ k.made => l.made

\* The same, and nothing has changed if it is not shown.
Refreshed(m, part, zoom, k, l) == Remade(k, l) /\ (~Shows(m, k, part, zoom) => l = k)

LEMMA MadeIsRemade ==
    ASSUME NEW k \in Mark
    PROVE  /\ k \in Mark /\ Remade(k, k)
           /\ [k EXCEPT !.made = TRUE] \in Mark
           /\ Remade(k, [k EXCEPT !.made = TRUE])
           /\ [k EXCEPT !.made = TRUE].made
BY DEF Mark, Remade

\* The marks after an update: some of those that are shown have been made.
LEMMA UpdatedMarks ==
    ASSUME NEW ms \in SUBSET ViewMarks, NEW mks \in [ViewMarks -> Mark], NEW part, NEW zoom,
           NEW um, um = MarksAfter(ms, mks, part, zoom)
    PROVE  /\ um \in [ViewMarks -> Mark]
           /\ \A m \in ViewMarks : Refreshed(m, part, zoom, mks[m], um[m])
           /\ \A m \in Processed(ms, mks, part, zoom) :
                Shows(m, mks[m], part, zoom) => um[m].made
<1> DEFINE done == Processed(ms, mks, part, zoom)
           show == NewlyShown(ms, mks, part, zoom)
<1>1. um = [m \in ViewMarks |-> IF m \in show THEN [mks[m] EXCEPT !.made = TRUE] ELSE mks[m]]
      BY DEF MarksAfter
<1>2. done \subseteq ViewMarks
      BY DEF Processed
<1>3. \A m \in show : Shows(m, mks[m], part, zoom)
      BY DEF NewlyShown
<1>4. \A m \in done : Shows(m, mks[m], part, zoom) => m \in show
      BY DEF NewlyShown
<1> HIDE DEF show, done
<1>5. \A m \in ViewMarks : um[m] = IF m \in show THEN [mks[m] EXCEPT !.made = TRUE] ELSE mks[m]
      BY <1>1
<1>6. \A m \in ViewMarks : um[m] \in Mark /\ Remade(mks[m], um[m])
  <2>1. TAKE m \in ViewMarks
  <2>2. mks[m] \in Mark
        OBVIOUS
  <2>3. CASE m \in show
    <3>1. um[m] = [mks[m] EXCEPT !.made = TRUE]
          BY <1>5, <2>3
    <3>2. QED
          BY <2>2, <3>1, MadeIsRemade
  <2>4. CASE m \notin show
    <3>1. um[m] = mks[m]
          BY <1>5, <2>4
    <3>2. QED
          BY <2>2, <3>1, MadeIsRemade
  <2>5. QED
        BY <2>3, <2>4
<1>7. um \in [ViewMarks -> Mark]
      BY <1>1, <1>6
<1>8. \A m \in ViewMarks : ~Shows(m, mks[m], part, zoom) => um[m] = mks[m]
      BY <1>3, <1>5
<1>9. \A m \in done : Shows(m, mks[m], part, zoom) => um[m].made
  <2>1. TAKE m \in done
  <2>2. HAVE Shows(m, mks[m], part, zoom)
  <2>3. m \in ViewMarks /\ mks[m] \in Mark
        BY <1>2
  <2>4. um[m] = [mks[m] EXCEPT !.made = TRUE]
        BY <1>4, <1>5, <2>2, <2>3
  <2>5. QED
        BY <2>3, <2>4, MadeIsRemade
<1>10. \A m \in ViewMarks : Refreshed(m, part, zoom, mks[m], um[m])
      BY <1>6, <1>8 DEF Refreshed
<1>11. QED
      BY <1>7, <1>9, <1>10 DEF done

\* What is drawn after an update.
LEMMA UpdatedDrawn ==
    ASSUME NEW ms \in SUBSET ViewMarks, NEW mks \in [ViewMarks -> Mark], NEW part, NEW zoom,
           NEW ud, ud = DrawnAfter(ms, mks, part, zoom), drawn \subseteq ViewMarks
    PROVE  /\ ud \subseteq ViewMarks
           /\ \A m \in ud :
                \/ /\ m \in Processed(ms, mks, part, zoom)
                   /\ Shows(m, mks[m], part, zoom)
                   /\ ~ThrowsOn(m, mks[m], part, zoom)
                \/ m \in drawn /\ m \notin Processed(ms, mks, part, zoom)
           /\ \A m \in Processed(ms, mks, part, zoom) :
                Shows(m, mks[m], part, zoom) => m \in ud
           /\ \A m \in drawn : m[1] = "cursor" /\ m \notin ms => m \in ud
<1> DEFINE bad == Throwing(ms, mks, part, zoom)
           done == Processed(ms, mks, part, zoom)
           show == {m \in done : Shows(m, mks[m], part, zoom)}
           torn == {m \in bad : m[1] = "selection" /\ \A b \in bad : m = b \/ Before(m, b)}
<1>1. ud = (drawn \ (done \cup torn)) \cup show
      BY DEF DrawnAfter, NewlyShown, Torn
<1>2. done \subseteq ms /\ bad \subseteq ms
      BY DEF Processed, Throwing
<1>3. \A m \in done : m \notin bad
      BY <1>2, BeforeIsStrict DEF Processed
<1>4. \A m \in ms : m \notin bad => ~ThrowsOn(m, mks[m], part, zoom)
      BY DEF Throwing
<1> HIDE DEF bad, done
<1>5. QED
      BY <1>1, <1>2, <1>3, <1>4 DEF done

\* As long as no cursor is shown of a view that is not there, the cursors are
\* updated to what they are to show.
LEMMA UpdatedCursors ==
    ASSUME NEW ms \in SUBSET ViewMarks, NEW mks \in [ViewMarks -> Mark], NEW part, NEW zoom,
           NEW ud, ud = DrawnAfter(ms, mks, part, zoom), drawn \subseteq ViewMarks,
           \A m \in ms : m[1] = "cursor" /\ Shows(m, mks[m], part, zoom) => m[2] \in known
    PROVE  \A m \in ViewMarks : m[1] = "cursor" =>
               (m \in ud <=> IF m \in ms THEN Shows(m, mks[m], part, zoom) ELSE m \in drawn)
<1>1. \A b \in Throwing(ms, mks, part, zoom) : b \in ViewMarks /\ b[1] # "cursor"
      BY DEF Throwing, ThrowsOn
<1>2. \A m \in ms : m[1] = "cursor" => m \in Processed(ms, mks, part, zoom)
      BY <1>1, BeforeIsStrict DEF Processed
<1>3. Processed(ms, mks, part, zoom) \subseteq ms
      BY DEF Processed
<1>4. QED
      BY <1>2, <1>3, UpdatedDrawn

\* A selection is drawn anew only for a view that is there.
LEMMA UpdatedSelections ==
    ASSUME NEW ms \in SUBSET ViewMarks, NEW mks \in [ViewMarks -> Mark], NEW part, NEW zoom,
           NEW ud, ud = DrawnAfter(ms, mks, part, zoom), drawn \subseteq ViewMarks,
           \A m \in drawn : m[1] = "selection" => m[2] \in known
    PROVE  \A m \in ud : m[1] = "selection" => m[2] \in known
BY UpdatedDrawn DEF ThrowsOn

-----------------------------------------------------------------------------
(* Other users' views: what a step does to the marks.                      *)

\* The type invariant in the terms of the lemmas.
LEMMA MarksAreTyped ==
    ASSUME ViewsTypeOK
    PROVE  /\ marks \in [ViewMarks -> Mark] /\ drawn \subseteq ViewMarks
           /\ \A m \in drawn : marks[m].made \/ m[1] = "cursor"
           /\ known \subseteq Users
           /\ sheet \in [type: DocKinds, selected: Sheets, shown: Sheets] /\ zooming \in BOOLEAN
BY DEF ViewsTypeOK, ViewMarks, Mark

\* The marks that are shown while the type, the views and the empty cursors
\* are right: nothing is shown of a cursor whose view is not there.
LEMMA ShownCursorIsKnown ==
    ASSUME ViewsTypeOK, UnknownHaveNoCursor, NEW m \in ViewMarks, m[1] = "cursor",
           NEW part, NEW zoom, Shows(m, marks[m], part, zoom)
    PROVE  m[2] \in known
<1>1. m[2] \in Others /\ m = <<"cursor", m[2]>> /\ "cursor" \in ViewKinds
      BY DEF ViewMarks
<1>2. CASE m[2] \notin known
  <2>1. marks[m] = NoMark
        BY <1>1, <1>2 DEF UnknownHaveNoCursor
  <2>2. marks[m].filled = FALSE
        BY <2>1 DEF NoMark
  <2>3. QED
        BY <2>2, EmptyIsNotShown
<1>3. QED
      BY <1>2

\* When a cursor is to be seen, but for zooming.
CursorIsDue(v, mark, type, part) ==
    v \notin Readers /\ mark.visible /\ mark.filled /\ (type = "text" \/ mark.part = part)

LEMMA CursorShown ==
    ASSUME NEW m \in ViewMarks, m[1] = "cursor", NEW mark, NEW part, NEW zoom
    PROVE  Shows(m, mark, part, zoom) <=> ~zoom /\ CursorIsDue(m[2], mark, sheet.type, part)
BY ShowsByKind DEF ShowsCursor, CursorIsDue, OnSheet, IsViewReadOnly

SheetShown == sheet.selected

\* CursorsAreCurrent, with each cursor as a mark.
LEMMA CursorsAreThoseDue ==
    CursorsAreCurrent <=>
        (~zooming => \A m \in ViewMarks : m[1] = "cursor" =>
            (m \in drawn <=> m[2] \in known /\ CursorIsDue(m[2], marks[m], sheet.type, SheetShown)))
<1>1. \A m : m \in ({"cursor"} \cap ViewKinds) \X Others <=> m \in ViewMarks /\ m[1] = "cursor"
      BY DEF ViewMarks
<1>2. \A m \in ViewMarks : m[1] = "cursor" =>
         (Shows(m, marks[m], sheet.selected, FALSE)
            <=> CursorIsDue(m[2], marks[m], sheet.type, sheet.selected))
      BY CursorShown
<1>3. QED
      BY <1>1, <1>2 DEF CursorsAreCurrent, SheetShown

\* Marks, and what is drawn: it has been made, or is a cursor.
MarksTyped(mks, layers) ==
    /\ mks \in [ViewMarks -> Mark]
    /\ layers \subseteq {m \in ViewMarks : mks[m].made \/ m[1] = "cursor"}

\* An update keeps the types.
LEMMA RedrawKeepsTypes ==
    ASSUME ViewsTypeOK,
           NEW ms \in SUBSET ViewMarks, NEW mks \in [ViewMarks -> Mark], NEW part, NEW zoom,
           \A m \in ViewMarks : m \notin ms => mks[m] = marks[m],
           \A m \in ViewMarks : marks[m].made => mks[m].made,
           NEW um, um = MarksAfter(ms, mks, part, zoom),
           NEW ud, ud = DrawnAfter(ms, mks, part, zoom)
    PROVE  MarksTyped(um, ud)
<1>1. drawn \subseteq ViewMarks /\ \A m \in drawn : marks[m].made \/ m[1] = "cursor"
      BY MarksAreTyped
<1>2. um \in [ViewMarks -> Mark]
      BY UpdatedMarks
<1>3. ud \subseteq ViewMarks
      BY <1>1, UpdatedDrawn
<1>4. ASSUME NEW m \in ud
      PROVE  um[m].made \/ m[1] = "cursor"
  <2>0. m \in ViewMarks
        BY <1>3
  <2>1. CASE m \in Processed(ms, mks, part, zoom) /\ Shows(m, mks[m], part, zoom)
        BY <2>0, <2>1, UpdatedMarks
  <2>2. CASE m \in drawn
        BY <2>0, <2>2, <1>1, UpdatedMarks DEF Refreshed, Remade
  <2>3. QED
        BY <1>1, <2>1, <2>2, UpdatedDrawn
<1>5. QED
      BY <1>2, <1>3, <1>4 DEF MarksTyped

\* A step that updates marks and leaves the views alone keeps the marks right,
\* if no cursor of a view that is not there is said to be somewhere, and all
\* cursors are updated when the sheet changes or a zoom ends.
LEMMA RedrawKeepsMarks ==
    ASSUME ViewsTypeOK, MarksInv, sheet.type # "none",
           NEW ms \in SUBSET ViewMarks, NEW mks \in [ViewMarks -> Mark],
           \A m \in ViewMarks : m[1] = "cursor" /\ m \notin ms => mks[m] = marks[m],
           \A m \in ViewMarks : m[1] = "cursor" /\ mks[m] # marks[m] => m[2] \in known,
           NEW part, NEW zoom, part = SheetShown', zoom = zooming', zoom \in BOOLEAN,
           NEW um, um = MarksAfter(ms, mks, part, zoom),
           NEW ud, ud = DrawnAfter(ms, mks, part, zoom), marks' = um, drawn' = ud,
           known' = known, sheet'.type = sheet.type,
           \/ part = SheetShown /\ zoom = zooming
           \/ \A m \in ViewMarks : m[1] = "cursor" => m \in ms
    PROVE  MarksInv'
<1>0. drawn \subseteq ViewMarks
      BY MarksAreTyped
<1>1. \A m \in ViewMarks : m[1] = "cursor" /\ Shows(m, mks[m], part, zoom) => m[2] \in known
      BY ShownCursorIsKnown DEF MarksInv
<1>2. \A m \in ViewMarks : m[1] = "cursor" =>
         (m \in ud <=> IF m \in ms THEN Shows(m, mks[m], part, zoom) ELSE m \in drawn)
      BY <1>0, <1>1, UpdatedCursors
<1>9. \A m \in ViewMarks :
         /\ um[m].part = mks[m].part /\ um[m].filled = mks[m].filled
         /\ um[m].visible = mks[m].visible
         /\ um[m] # mks[m] => Shows(m, mks[m], part, zoom)
  <2>1. \A m \in ViewMarks : Refreshed(m, part, zoom, mks[m], um[m])
        BY UpdatedMarks
  <2>2. QED
        BY <2>1 DEF Refreshed, Remade
<1>3. UnknownHaveNoCursor'
  <2>1. ASSUME NEW v \in Others \ known, "cursor" \in ViewKinds
        PROVE  um[<<"cursor", v>>] = NoMark
    <3> DEFINE m == <<"cursor", v>>
    <3>1. m \in ViewMarks /\ m[1] = "cursor" /\ m[2] = v
          BY <2>1 DEF ViewMarks
    <3> HIDE DEF m
    <3>2. mks[m] = marks[m] /\ marks[m] = NoMark
          BY <3>1, <2>1 DEF MarksInv, UnknownHaveNoCursor, m
    <3>3. ~Shows(m, mks[m], part, zoom)
          BY <3>1, <3>2, EmptyIsNotShown DEF NoMark
    <3>4. um[m] = mks[m]
          BY <3>1, <3>3, <1>9
    <3>5. QED
          BY <3>2, <3>4 DEF m
  <2>2. QED
        BY <2>1 DEF UnknownHaveNoCursor
<1>4. NothingBeforeOpening'
      BY DEF NothingBeforeOpening
<1>5. CursorsAreCurrent'
  <2>1. ASSUME NEW m \in ViewMarks, m[1] = "cursor", ~zoom
        PROVE  m \in ud <=> m[2] \in known /\ CursorIsDue(m[2], um[m], sheet.type, part)
    <3>1. CursorIsDue(m[2], um[m], sheet.type, part) <=> CursorIsDue(m[2], mks[m], sheet.type, part)
          BY <2>1, <1>9 DEF CursorIsDue
    <3>2. CASE m \in ms
          BY <3>1, <3>2, <2>1, <1>1, <1>2, CursorShown
    <3>3. CASE m \notin ms
      <4>1. part = SheetShown /\ ~zooming /\ mks[m] = marks[m]
            BY <2>1, <3>3
      <4>2. m \in drawn <=> m[2] \in known /\ CursorIsDue(m[2], marks[m], sheet.type, SheetShown)
            BY <2>1, <4>1, CursorsAreThoseDue DEF MarksInv
      <4>3. QED
            BY <3>1, <3>3, <4>1, <4>2, <2>1, <1>2
    <3>4. QED
          BY <3>2, <3>3
  <2>2. (CursorsAreCurrent <=>
          (~zooming => \A m \in ViewMarks : m[1] = "cursor" =>
            (m \in drawn <=> m[2] \in known
                              /\ CursorIsDue(m[2], marks[m], sheet.type, SheetShown))))'
        BY CursorsAreThoseDue, PTL
  <2>3. ViewMarks' = ViewMarks
        BY DEF ViewMarks, Others
  <2>4. QED
        BY <2>1, <2>2, <2>3 DEF CursorIsDue
<1>6. WhoLeftIsErased'
  <2>1. \A m \in ud : m[1] = "selection" => m[2] \in known
        BY <1>0, UpdatedSelections DEF MarksInv, WhoLeftIsErased
  <2>2. \A m \in ud : m \in ViewMarks
        BY <1>0, UpdatedDrawn
  <2>3. \A m \in ud : m[1] = "cursor" => m[2] \in known
        BY <1>1, <1>2, <2>2 DEF MarksInv, WhoLeftIsErased
  <2>4. QED
        BY <2>1, <2>3 DEF WhoLeftIsErased
<1>7. QED
      BY <1>3, <1>4, <1>5, <1>6 DEF MarksInv

-----------------------------------------------------------------------------
(* Other users' views: every step keeps the invariant.                     *)

FollowInv == FollowedIsThere /\ FollowIsConsistent

\* What _followThis and the rest of it can be.
Follows == [this: Users \cup {Nobody}, user: BOOLEAN, editor: BOOLEAN,
            editorId: Users \cup {Nobody}, row: SUBSET Users]

\* Whom we follow is not disturbed by what does not touch it.
LEMMA FollowKept ==
    ASSUME FollowInv, UNCHANGED <<known, follow, gaps>>
    PROVE  FollowInv'
BY DEF FollowInv, FollowedIsThere, FollowIsConsistent

LEMMA MarksKept ==
    ASSUME MarksInv, UNCHANGED <<known, marks, drawn, sheet, zooming>>
    PROVE  MarksInv'
BY DEF MarksInv, UnknownHaveNoCursor, NothingBeforeOpening, CursorsAreCurrent, WhoLeftIsErased,
       Shows, ShowsCursor, ShowsCell, ShowsGraphic, ShowsSelection, OnSheet, IsViewReadOnly,
       ViewMarks, Others

\* A message about one mark: of a cursor only if its view is there.
LEMMA MarkedKeepsInv ==
    ASSUME ViewsInv, sheet.type # "none", NEW m \in ViewMarks, NEW new \in Mark,
           marks[m].made => new.made, m[1] = "cursor" => m[2] \in known,
           Marked(m, new), turns' \in 0..MaxTurns
    PROVE  ViewsInv'
<1>1. ViewsTypeOK /\ MarksInv /\ FollowInv
      BY DEF ViewsInv, FollowInv
<1>2. PICK mks : mks = [marks EXCEPT ![m] = new]
      OBVIOUS
<1>3. marks \in [ViewMarks -> Mark]
      BY <1>1, MarksAreTyped
<1>4. mks \in [ViewMarks -> Mark] /\ \A n \in ViewMarks : n # m => mks[n] = marks[n]
      BY <1>2, <1>3
<1>5. mks[m] = new
      BY <1>2, <1>3
<1>6. /\ UNCHANGED <<known, sheet, zooming, follow, gone, byUser, gaps>>
      /\ marks' = MarksAfter({m}, mks, SheetShown, zooming)
      /\ drawn' = DrawnAfter({m}, mks, SheetShown, zooming)
      BY <1>2 DEF Marked, Redraw, UpdateMarks, SheetShown
<1>7. SheetShown' = SheetShown
      BY <1>6 DEF SheetShown
<1>8. zooming \in BOOLEAN
      BY <1>1 DEF ViewsTypeOK
<1>9. \A n \in ViewMarks : marks[n].made => mks[n].made
      BY <1>4, <1>5
<1>10. {m} \in SUBSET ViewMarks
      OBVIOUS
<1> HIDE DEF SheetShown
<1>11. MarksInv'
  <2>1. \A n \in ViewMarks : n[1] = "cursor" /\ n \notin {m} => mks[n] = marks[n]
        BY <1>4
  <2>2. \A n \in ViewMarks : n[1] = "cursor" /\ mks[n] # marks[n] => n[2] \in known
        BY <1>4
  <2>3. PICK part, zoom : part = SheetShown /\ zoom = zooming
        OBVIOUS
  <2>4. PICK um, ud : um = MarksAfter({m}, mks, part, zoom) /\ ud = DrawnAfter({m}, mks, part, zoom)
        OBVIOUS
  <2>5. QED
        BY <1>1, <1>4, <1>6, <1>7, <1>8, <1>10, <2>1, <2>2, <2>3, <2>4, RedrawKeepsMarks
<1>12. ViewsTypeOK'
  <2>1. PICK um, ud : um = MarksAfter({m}, mks, SheetShown, zooming)
                      /\ ud = DrawnAfter({m}, mks, SheetShown, zooming)
        OBVIOUS
  <2>2. MarksTyped(um, ud)
        BY <1>1, <1>4, <1>9, <1>10, <2>1, RedrawKeepsTypes
  <2>3. marks' = um /\ drawn' = ud
        BY <1>6, <2>1
  <2>4. QED
        BY <1>1, <1>6, <2>2, <2>3 DEF ViewsTypeOK, MarksTyped, ViewMarks, Mark, Others
<1>13. FollowInv'
      BY <1>1, <1>6, FollowKept
<1>14. QED
      BY <1>11, <1>12, <1>13 DEF ViewsInv, FollowInv

\* The four messages about marks, and the one that hides a cursor.
LEMMA MarkMessageKeepsInv ==
    ASSUME ViewsInv, sheet.type # "none", turns' \in 0..MaxTurns,
           NEW v \in Others, NEW p \in Sheets, NEW filled \in BOOLEAN,
           \/ InvalidateViewCursorMsg(v, p, filled)
           \/ CellViewCursorMsg(v, p, filled)
           \/ GraphicViewSelectionMsg(v, p, filled)
           \/ TextViewSelectionMsg(v, p, filled)
           \/ VisibleMsg(v, filled)
    PROVE  ViewsInv'
<1>0. marks \in [ViewMarks -> Mark]
      BY MarksAreTyped DEF ViewsInv
<1>1. CASE InvalidateViewCursorMsg(v, p, filled)
  <2> DEFINE m == <<"cursor", v>>
  <2>1. PICK b : b = (marks[m].visible \/ marks[m] = NoMark)
        OBVIOUS
  <2>2. v \in known /\ Marked(m, [part |-> p, filled |-> filled, made |-> marks[m].made, visible |-> b])
        BY <1>1, <2>1 DEF InvalidateViewCursorMsg
  <2>3. m \in ViewMarks /\ m[1] = "cursor" /\ m[2] = v
        BY <2>2 DEF Marked, ViewMarks
  <2>4. b \in BOOLEAN
        BY <2>1
  <2> HIDE DEF m
  <2>5. marks[m] \in Mark
        BY <1>0, <2>3
  <2>6. PICK new : new = [part |-> p, filled |-> filled, made |-> marks[m].made, visible |-> b]
        OBVIOUS
  <2>7. new \in Mark /\ (marks[m].made => new.made)
        BY <2>4, <2>5, <2>6 DEF Mark
  <2>8. QED
        BY <2>2, <2>3, <2>6, <2>7, MarkedKeepsInv
<1>2. CASE CellViewCursorMsg(v, p, filled)
  <2> DEFINE m == <<"cell", v>>
  <2>1. PICK new : new = [marks[m] EXCEPT !.part = p, !.filled = filled]
        OBVIOUS
  <2>2. Marked(m, new)
        BY <1>2, <2>1 DEF CellViewCursorMsg
  <2>3. m \in ViewMarks /\ m[1] # "cursor"
        BY <2>2 DEF Marked, ViewMarks
  <2> HIDE DEF m
  <2>4. marks[m] \in Mark
        BY <1>0, <2>3
  <2>5. new \in Mark /\ (marks[m].made => new.made)
        BY <2>1, <2>4 DEF Mark
  <2>6. QED
        BY <2>2, <2>3, <2>5, MarkedKeepsInv
<1>3. CASE GraphicViewSelectionMsg(v, p, filled)
  <2> DEFINE m == <<"graphic", v>>
  <2>1. PICK new : new = [marks[m] EXCEPT !.part = p, !.filled = filled]
        OBVIOUS
  <2>2. Marked(m, new)
        BY <1>3, <2>1 DEF GraphicViewSelectionMsg
  <2>3. m \in ViewMarks /\ m[1] # "cursor"
        BY <2>2 DEF Marked, ViewMarks
  <2> HIDE DEF m
  <2>4. marks[m] \in Mark
        BY <1>0, <2>3
  <2>5. new \in Mark /\ (marks[m].made => new.made)
        BY <2>1, <2>4 DEF Mark
  <2>6. QED
        BY <2>2, <2>3, <2>5, MarkedKeepsInv
<1>4. CASE TextViewSelectionMsg(v, p, filled)
  <2> DEFINE m == <<"selection", v>>
  <2>1. PICK new : new = [marks[m] EXCEPT !.part = IF filled THEN p ELSE @, !.filled = filled]
        OBVIOUS
  <2>2. Marked(m, new)
        BY <1>4, <2>1 DEF TextViewSelectionMsg
  <2>3. m \in ViewMarks /\ m[1] # "cursor"
        BY <2>2 DEF Marked, ViewMarks
  <2> HIDE DEF m
  <2>4. marks[m] \in Mark
        BY <1>0, <2>3
  <2>5. new \in Mark /\ (marks[m].made => new.made)
        BY <2>1, <2>4 DEF Mark
  <2>6. QED
        BY <2>2, <2>3, <2>5, MarkedKeepsInv
<1>5. CASE VisibleMsg(v, filled)
  <2> DEFINE m == <<"cursor", v>>
  <2>1. PICK new : new = [marks[m] EXCEPT !.visible = filled]
        OBVIOUS
  <2>2. v \in known /\ Marked(m, new)
        BY <1>5, <2>1 DEF VisibleMsg
  <2>3. m \in ViewMarks /\ m[2] = v
        BY <2>2 DEF Marked, ViewMarks
  <2> HIDE DEF m
  <2>4. marks[m] \in Mark
        BY <1>0, <2>3
  <2>5. new \in Mark /\ (marks[m].made => new.made)
        BY <2>1, <2>4 DEF Mark
  <2>6. QED
        BY <2>2, <2>3, <2>5, MarkedKeepsInv
<1>6. QED
      BY <1>1, <1>2, <1>3, <1>4, <1>5

\* An update of all cursors: for another sheet, or when a zoom is over.
LEMMA UpdateKeepsInv ==
    ASSUME ViewsInv, sheet.type # "none", turns' \in 0..MaxTurns,
           NEW ms \in SUBSET ViewMarks, \A m \in ViewMarks : m[1] = "cursor" => m \in ms,
           NEW part \in Sheets, NEW zoom \in BOOLEAN, UpdateMarks(ms, marks, part, zoom),
           part = SheetShown', zoom = zooming', sheet'.type = sheet.type,
           sheet' \in [type: DocKinds, selected: Sheets, shown: Sheets],
           UNCHANGED <<known, follow, gone, gaps>>, byUser' \in BOOLEAN
    PROVE  ViewsInv'
<1>1. ViewsTypeOK /\ MarksInv /\ FollowInv
      BY DEF ViewsInv, FollowInv
<1>2. marks \in [ViewMarks -> Mark]
      BY <1>1, MarksAreTyped
<1>3. PICK um, ud : um = MarksAfter(ms, marks, part, zoom) /\ ud = DrawnAfter(ms, marks, part, zoom)
      OBVIOUS
<1>4. marks' = um /\ drawn' = ud
      BY <1>3 DEF UpdateMarks
<1>5. MarksInv'
      BY <1>1, <1>2, <1>3, <1>4, RedrawKeepsMarks
<1>6. MarksTyped(um, ud)
      BY <1>1, <1>2, <1>3, RedrawKeepsTypes
<1>7. ViewsTypeOK'
      BY <1>1, <1>4, <1>6 DEF ViewsTypeOK, MarksTyped, ViewMarks, Mark, Others
<1>8. FollowInv'
      BY <1>1, FollowKept
<1>9. QED
      BY <1>5, <1>7, <1>8 DEF ViewsInv, FollowInv

LEMMA SwitchPartKeepsInv ==
    ASSUME ViewsInv, turns' \in 0..MaxTurns, NEW part \in Sheets, SwitchPart(part)
    PROVE  ViewsInv'
<1> DEFINE ms == MarksOf(ViewKinds)
<1>1. ms = ViewMarks
      BY DEF MarksOf, ViewMarks
<1>2. /\ sheet.type \in {"spreadsheet", "presentation"}
      /\ UpdateMarks(ms, marks, part, zooming)
      /\ sheet' = [sheet EXCEPT !.selected = part,
                                !.shown = IF Throwing(ms, marks, part, zooming) = {} THEN part ELSE @]
      /\ UNCHANGED <<known, zooming, follow, gone, byUser, gaps>>
      BY DEF SwitchPart
<1> HIDE DEF ms
<1>3. sheet \in [type: DocKinds, selected: Sheets, shown: Sheets] /\ zooming \in BOOLEAN
      /\ byUser \in BOOLEAN
      BY DEF ViewsInv, ViewsTypeOK
<1>4. /\ sheet' \in [type: DocKinds, selected: Sheets, shown: Sheets]
      /\ sheet'.type = sheet.type /\ sheet'.selected = part
      BY <1>2, <1>3
<1>5. part = SheetShown'
      BY <1>4 DEF SheetShown
<1>6. sheet.type # "none" /\ byUser' \in BOOLEAN /\ zooming' = zooming
      /\ UNCHANGED <<known, follow, gone, gaps>>
      BY <1>2, <1>3
<1>7. QED
      BY <1>1, <1>2, <1>3, <1>4, <1>5, <1>6, UpdateKeepsInv

LEMMA ZoomEndsKeepsInv ==
    ASSUME ViewsInv, ZoomEnds
    PROVE  ViewsInv'
<1> DEFINE ms == MarksOf({"cursor"})
<1>1. ms \in SUBSET ViewMarks /\ \A m \in ViewMarks : m[1] = "cursor" => m \in ms
      BY DEF MarksOf, ViewMarks
<1>2. PICK part : part = SheetShown
      OBVIOUS
<1>3. /\ zooming /\ zooming' = FALSE
      /\ UpdateMarks(ms, marks, part, FALSE)
      /\ UNCHANGED <<known, sheet, follow, gone, byUser, turns, gaps>>
      BY <1>2 DEF ZoomEnds, SheetShown
<1> HIDE DEF ms
<1>4. sheet \in [type: DocKinds, selected: Sheets, shown: Sheets] /\ byUser \in BOOLEAN
      /\ turns \in 0..MaxTurns
      BY DEF ViewsInv, ViewsTypeOK
<1>5. sheet.type # "none"
      BY <1>3 DEF ViewsInv, MarksInv, NothingBeforeOpening
<1>6. /\ sheet' \in [type: DocKinds, selected: Sheets, shown: Sheets]
      /\ sheet'.type = sheet.type /\ turns' \in 0..MaxTurns /\ byUser' \in BOOLEAN
      BY <1>3, <1>4
<1>7. part = SheetShown' /\ part \in Sheets
      BY <1>2, <1>3, <1>4 DEF SheetShown
<1>8. PICK zoom \in BOOLEAN : zoom = FALSE
      OBVIOUS
<1>9. zoom = zooming' /\ UpdateMarks(ms, marks, part, zoom)
      BY <1>3, <1>8
<1>10. QED
      BY <1>1, <1>3, <1>5, <1>6, <1>7, <1>9, UpdateKeepsInv

\* The first status message, before which nothing is known.
LEMMA ViewsOpenKeepsInv ==
    ASSUME ViewsInv, NEW type \in DocKinds, ViewsOpen(type)
    PROVE  ViewsInv'
<1>1. ViewsTypeOK /\ MarksInv /\ FollowInv
      BY DEF ViewsInv, FollowInv
<1>2. /\ sheet.type = "none" /\ sheet' = [sheet EXCEPT !.type = type]
      /\ UNCHANGED <<known, marks, drawn, zooming, follow, gone, byUser, turns, gaps>>
      BY DEF ViewsOpen
<1>3. drawn = {} /\ ~zooming /\ \A m \in ViewMarks : marks[m] = NoMark
      BY <1>1, <1>2 DEF MarksInv, NothingBeforeOpening
<1>4. ViewsTypeOK'
      BY <1>1, <1>2 DEF ViewsTypeOK
<1>5. CursorsAreCurrent'
  <2>1. ASSUME NEW m \in ViewMarks, NEW t, NEW p
        PROVE  ~CursorIsDue(m[2], marks[m], t, p)
        BY <1>3 DEF CursorIsDue, NoMark
  <2>2. (CursorsAreCurrent <=>
          (~zooming => \A m \in ViewMarks : m[1] = "cursor" =>
            (m \in drawn <=> m[2] \in known
                              /\ CursorIsDue(m[2], marks[m], sheet.type, SheetShown))))'
        BY CursorsAreThoseDue, PTL
  <2>3. ViewMarks' = ViewMarks
        BY DEF ViewMarks, Others
  <2>4. QED
        BY <1>2, <1>3, <2>1, <2>2, <2>3 DEF CursorIsDue
<1>6. MarksInv'
      BY <1>1, <1>2, <1>3, <1>5
         DEF MarksInv, UnknownHaveNoCursor, NothingBeforeOpening, WhoLeftIsErased, ViewMarks, Others
<1>7. FollowInv'
      BY <1>1, <1>2, FollowKept
<1>8. QED
      BY <1>4, <1>6, <1>7 DEF ViewsInv, FollowInv

LEMMA ZoomStartsKeepsInv ==
    ASSUME ViewsInv, ZoomStarts, sheet.type # "none", turns' \in 0..MaxTurns
    PROVE  ViewsInv'
<1>1. ViewsTypeOK /\ MarksInv /\ FollowInv
      BY DEF ViewsInv, FollowInv
<1>2. ViewsTypeOK'
      BY <1>1 DEF ZoomStarts, ViewsTypeOK
<1>3. MarksInv'
      BY <1>1 DEF ZoomStarts, MarksInv, UnknownHaveNoCursor, NothingBeforeOpening,
                  CursorsAreCurrent, WhoLeftIsErased
<1>4. FollowInv'
      BY <1>1, FollowKept DEF ZoomStarts
<1>5. QED
      BY <1>2, <1>3, <1>4 DEF ViewsInv, FollowInv

\* Views that leave take their cursors and selections with them.
LEMMA LeavingKeepsMarks ==
    ASSUME ViewsTypeOK, MarksInv, sheet.type # "none", NEW vs \in SUBSET Users,
           SetViews(vs), RemoveViews(known \ vs), UNCHANGED <<sheet, zooming>>
    PROVE  MarksInv' /\ MarksTyped(marks', drawn')
<1> DEFINE left == known \ vs
<1>0. /\ marks \in [ViewMarks -> Mark] /\ drawn \subseteq ViewMarks
      /\ \A m \in drawn : marks[m].made \/ m[1] = "cursor"
      BY MarksAreTyped
<1>1. marks' = [m \in ViewMarks |-> IF m[1] = "cursor" /\ m[2] \in left THEN NoMark ELSE marks[m]]
      BY <1>0 DEF RemoveViews, Uncursored
<1>2. drawn' = {m \in drawn : m[1] \in {"cursor", "selection"} => m[2] \notin left}
      BY DEF RemoveViews
<1>3. known' = vs
      BY DEF SetViews
<1>4. NoMark \in Mark /\ NoMark.filled = FALSE
      BY DEF NoMark, Mark
<1>5. marks' \in [ViewMarks -> Mark]
      BY <1>0, <1>1, <1>4
<1>6. \A m \in ViewMarks : IF m[1] = "cursor" /\ m[2] \in left THEN marks'[m] = NoMark
                           ELSE marks'[m] = marks[m]
      BY <1>1
<1>7. MarksTyped(marks', drawn')
      BY <1>0, <1>2, <1>5, <1>6 DEF MarksTyped
<1>8. UnknownHaveNoCursor'
  <2>1. ASSUME NEW v \in Others \ vs, "cursor" \in ViewKinds
        PROVE  marks'[<<"cursor", v>>] = NoMark
    <3>1. <<"cursor", v>> \in ViewMarks
          BY <2>1 DEF ViewMarks
    <3>2. CASE v \in known
          BY <3>1, <3>2, <2>1, <1>6
    <3>3. CASE v \notin known
          BY <3>1, <3>3, <2>1, <1>6 DEF MarksInv, UnknownHaveNoCursor
    <3>4. QED
          BY <3>2, <3>3
  <2>2. QED
        BY <2>1, <1>3 DEF UnknownHaveNoCursor
<1>9. WhoLeftIsErased'
      BY <1>2, <1>3 DEF MarksInv, WhoLeftIsErased
<1>10. NothingBeforeOpening'
      BY DEF NothingBeforeOpening
<1>11. CursorsAreCurrent'
  <2>1. ASSUME NEW m \in ViewMarks, m[1] = "cursor", ~zooming
        PROVE  m \in drawn' <=> m[2] \in vs /\ CursorIsDue(m[2], marks'[m], sheet.type, SheetShown)
    <3>1. m \in drawn <=> m[2] \in known /\ CursorIsDue(m[2], marks[m], sheet.type, SheetShown)
          BY <2>1, CursorsAreThoseDue DEF MarksInv
    <3>2. CASE m[2] \in left
          BY <3>2, <2>1, <1>2
    <3>3. CASE m[2] \in known /\ m[2] \in vs
          BY <3>1, <3>3, <2>1, <1>2, <1>6
    <3>4. CASE m[2] \notin known
      <4>1. marks[m] = NoMark /\ marks'[m] = NoMark
        <5>1. m[2] \in Others /\ m = <<"cursor", m[2]>> /\ "cursor" \in ViewKinds
              BY <2>1 DEF ViewMarks
        <5>2. marks[m] = NoMark
              BY <3>4, <5>1 DEF MarksInv, UnknownHaveNoCursor
        <5>3. QED
              BY <3>4, <5>2, <1>6, <2>1
      <4>2. m \notin drawn /\ ~CursorIsDue(m[2], marks'[m], sheet.type, SheetShown)
            BY <4>1, <3>1, <3>4, <1>4 DEF CursorIsDue
      <4>3. QED
            BY <4>2, <1>2
    <3>5. QED
          BY <3>2, <3>3, <3>4
  <2>2. (CursorsAreCurrent <=>
          (~zooming => \A m \in ViewMarks : m[1] = "cursor" =>
            (m \in drawn <=> m[2] \in known
                              /\ CursorIsDue(m[2], marks[m], sheet.type, SheetShown))))'
        BY CursorsAreThoseDue, PTL
  <2>3. ViewMarks' = ViewMarks /\ SheetShown' = SheetShown
        BY DEF ViewMarks, Others, SheetShown
  <2>4. QED
        BY <2>1, <2>2, <2>3, <1>3 DEF CursorIsDue
<1>12. QED
      BY <1>7, <1>8, <1>9, <1>10, <1>11 DEF MarksInv

\* Nobody is not a view.
LEMMA NobodyIsNoView == Nobody \notin Users
BY ViewsAssumption DEF Nobody

\* When the one we follow leaves, nobody is followed.
LEMMA LeavingKeepsFollow ==
    ASSUME ViewsTypeOK, FollowInv, NEW vs \in SUBSET Users,
           SetViews(vs), RemoveViews(known \ vs), gaps' = gaps
    PROVE  FollowInv' /\ follow' \in Follows
<1> DEFINE left == known \ vs
<1>1. follow' = IF follow.this \in left
                  THEN [follow EXCEPT !.this = Nobody, !.user = FALSE, !.row = @ \ left]
                  ELSE [follow EXCEPT !.row = @ \ left]
      BY DEF RemoveViews, ForgetFollowed
<1>2. follow \in Follows /\ known \subseteq Users
      BY DEF ViewsTypeOK, Follows
<1>3. known' = vs
      BY DEF SetViews
<1>4. CASE follow.this \in left
  <2>1. /\ follow' = [follow EXCEPT !.this = Nobody, !.user = FALSE, !.row = @ \ left]
        BY <1>1, <1>4
  <2>2. /\ follow' \in Follows /\ follow'.this = Nobody /\ follow'.user = FALSE
        /\ follow'.editor = follow.editor /\ follow'.row = follow.row \ left
        BY <1>2, <2>1 DEF Follows
  <2>3. QED
        BY <1>3, <1>4, <2>2 DEF FollowInv, FollowedIsThere, FollowIsConsistent
<1>5. CASE follow.this \notin left
  <2>1. /\ follow' = [follow EXCEPT !.row = @ \ left]
        BY <1>1, <1>5
  <2>2. /\ follow' \in Follows /\ follow'.this = follow.this /\ follow'.user = follow.user
        /\ follow'.editor = follow.editor /\ follow'.row = follow.row \ left
        BY <1>2, <2>1 DEF Follows
  <2>3. QED
        BY <1>2, <1>3, <1>5, <2>2, NobodyIsNoView DEF FollowInv, FollowedIsThere, FollowIsConsistent
<1>6. QED
      BY <1>4, <1>5

LEMMA LeavingKeepsInv ==
    ASSUME ViewsInv, sheet.type # "none", turns' \in 0..MaxTurns,
           \/ \E vs \in SUBSET Users : ViewInfo(vs)
           \/ ViewsReconnect
    PROVE  ViewsInv'
<1>1. ViewsTypeOK /\ MarksInv /\ FollowInv
      BY DEF ViewsInv, FollowInv
<1>2. PICK vs \in SUBSET Users :
         /\ SetViews(vs) /\ RemoveViews(known \ vs)
         /\ gone' \subseteq Users
         /\ UNCHANGED <<sheet, zooming, byUser, gaps>>
  <2>1. CASE \E vs \in SUBSET Users : ViewInfo(vs)
        BY <2>1, <1>1 DEF ViewInfo, ViewsTypeOK
  <2>2. CASE ViewsReconnect
    <3>1. {} \in SUBSET Users /\ known \ {} = known
          OBVIOUS
    <3>2. QED
          BY <2>2, <3>1 DEF ViewsReconnect
  <2>3. QED
        BY <2>1, <2>2
<1>3. MarksInv' /\ MarksTyped(marks', drawn')
      BY <1>1, <1>2, LeavingKeepsMarks
<1>4. FollowInv' /\ follow' \in Follows
      BY <1>1, <1>2, LeavingKeepsFollow
<1>5. known' = vs
      BY <1>2 DEF SetViews
<1>6. ViewsTypeOK'
      BY <1>1, <1>2, <1>3, <1>4, <1>5
         DEF ViewsTypeOK, MarksTyped, Follows, ViewMarks, Mark, Others
<1>7. QED
      BY <1>3, <1>4, <1>6 DEF ViewsInv, FollowInv

-----------------------------------------------------------------------------
(* Other users' views: following.                                          *)

\* A step that touches whom we follow only.
LEMMA FollowingKeepsInv ==
    ASSUME ViewsInv, UNCHANGED <<known, marks, drawn, sheet, zooming, gone>>,
           follow' \in Follows, byUser' \in BOOLEAN, turns' \in 0..MaxTurns,
           gaps' \subseteq {"host", "goto", "editor"}, FollowInv'
    PROVE  ViewsInv'
<1>1. MarksInv'
      BY MarksKept DEF ViewsInv
<1>2. ViewsTypeOK'
      BY DEF ViewsInv, ViewsTypeOK, Follows
<1>3. QED
      BY <1>1, <1>2 DEF ViewsInv, FollowInv

\* What is known of whom we follow.
LEMMA FollowIsTyped ==
    ASSUME ViewsInv
    PROVE  /\ follow \in Follows /\ known \subseteq Users /\ FollowInv
           /\ gaps \subseteq {"host", "goto", "editor"} /\ turns \in 0..MaxTurns
           /\ byUser \in BOOLEAN
BY DEF ViewsInv, ViewsTypeOK, Follows, FollowInv

\* The ending of _setFollowing.
LEMMA UnfollowEnds ==
    ASSUME NEW f \in Follows, NEW u \in Follows, u = Unfollow(f)
    PROVE  /\ ~u.user /\ ~u.editor
           /\ f.this \in known => u.this = Nobody /\ u.row = f.row \ {f.this}
           /\ f.this \notin known => u.this = f.this /\ u.row = f.row
BY DEF Unfollow, Follows

LEMMA UnfollowTyped ==
    ASSUME NEW f \in Follows
    PROVE  Unfollow(f) \in Follows
BY DEF Unfollow, Follows

LEMMA UnfollowKeepsFollow ==
    ASSUME ViewsInv, follow' = Unfollow(follow), known' = known,
           gaps' = {} => gaps = {}
    PROVE  follow' \in Follows /\ FollowInv'
<1>1. follow \in Follows /\ known \subseteq Users /\ FollowInv
      BY FollowIsTyped
<1>2. follow' \in Follows
      BY <1>1, UnfollowTyped
<1>3. /\ ~follow'.user /\ ~follow'.editor
      /\ follow.this \in known => follow'.this = Nobody /\ follow'.row = follow.row \ {follow.this}
      /\ follow.this \notin known => follow'.this = follow.this /\ follow'.row = follow.row
      BY <1>1, <1>2, UnfollowEnds
<1>4. QED
      BY <1>1, <1>2, <1>3 DEF FollowInv, FollowedIsThere, FollowIsConsistent, Follows

LEMMA OwnCursorKeepsInv ==
    ASSUME ViewsInv, OwnCursorMsg
    PROVE  ViewsInv'
<1>1. follow \in Follows /\ gaps \subseteq {"host", "goto", "editor"} /\ turns \in 0..MaxTurns
      /\ FollowInv
      BY FollowIsTyped
<1>2. UNCHANGED <<known, marks, drawn, sheet, zooming, gone, turns, gaps>>
      BY DEF OwnCursorMsg
<1>3. follow' = Unfollow(follow) \/ follow' = follow
      BY DEF OwnCursorMsg
<1>4. byUser' \in BOOLEAN
      BY DEF OwnCursorMsg
<1>5. follow' \in Follows /\ FollowInv'
  <2>1. CASE follow' = Unfollow(follow)
        BY <1>2, <2>1, UnfollowKeepsFollow
  <2>2. CASE follow' = follow
        BY <1>1, <1>2, <2>2, FollowKept
  <2>3. QED
        BY <1>3, <2>1, <2>2
<1>6. QED
      BY <1>1, <1>2, <1>4, <1>5, FollowingKeepsInv

LEMMA UserActsKeepsInv ==
    ASSUME ViewsInv, UserActs, turns' \in 0..MaxTurns
    PROVE  ViewsInv'
<1>1. follow \in Follows /\ gaps \subseteq {"host", "goto", "editor"} /\ FollowInv
      BY FollowIsTyped
<1>2. UNCHANGED <<known, marks, drawn, sheet, zooming, follow, gone, gaps>> /\ byUser' = TRUE
      BY DEF UserActs
<1>3. FollowInv'
      BY <1>1, <1>2, FollowKept
<1>4. QED
      BY <1>1, <1>2, <1>3, FollowingKeepsInv

LEMMA EditorKeepsInv ==
    ASSUME ViewsInv, NEW v \in Users, EditorMsg(v), turns' \in 0..MaxTurns
    PROVE  ViewsInv'
<1>1. follow \in Follows /\ gaps \subseteq {"host", "goto", "editor"} /\ FollowInv
      /\ byUser \in BOOLEAN
      BY FollowIsTyped
<1>2. /\ follow' = [follow EXCEPT !.editorId = v, !.this = IF follow.editor THEN v ELSE @]
      /\ gaps' = gaps \cup (IF follow.editor THEN UnknownEditor(v) ELSE {})
      /\ UNCHANGED <<known, marks, drawn, sheet, zooming, gone, byUser>>
      BY DEF EditorMsg
<1>3. /\ follow' \in Follows
      /\ follow'.this = IF follow.editor THEN v ELSE follow.this
      /\ follow'.user = follow.user /\ follow'.editor = follow.editor /\ follow'.row = follow.row
      BY <1>1, <1>2 DEF Follows
<1>4. gaps' = {} => gaps = {} /\ (follow.editor => v \in known)
      BY <1>2, NobodyIsNoView DEF UnknownEditor
<1>5. gaps' \subseteq {"host", "goto", "editor"}
      BY <1>1, <1>2 DEF UnknownEditor
<1>6. FollowInv'
      BY <1>1, <1>2, <1>3, <1>4 DEF FollowInv, FollowedIsThere, FollowIsConsistent
<1>7. QED
      BY <1>1, <1>2, <1>3, <1>5, <1>6, FollowingKeepsInv

LEMMA ClickUserKeepsInv ==
    ASSUME ViewsInv, NEW v \in Users, ClickUser(v), turns' \in 0..MaxTurns
    PROVE  ViewsInv'
<1>1. follow \in Follows /\ gaps \subseteq {"host", "goto", "editor"} /\ FollowInv
      /\ byUser \in BOOLEAN /\ known \subseteq Users
      BY FollowIsTyped
<1>2. /\ v \in known
      /\ UNCHANGED <<known, marks, drawn, sheet, zooming, gone, byUser, gaps>>
      BY DEF ClickUser
<1>3. \/ follow' = follow
      \/ follow' = Unfollow(follow)
      \/ \E f : /\ f = IF follow.this # Nobody THEN Unfollow(follow) ELSE follow
                /\ follow' = [f EXCEPT !.this = v, !.user = TRUE, !.editor = FALSE, !.row = @ \cup {v}]
                /\ follow.this # Nobody => follow.this \in known
      BY DEF ClickUser
<1>4. CASE follow' = follow
  <2>1. FollowInv'
        BY <1>1, <1>2, <1>4, FollowKept
  <2>2. QED
        BY <1>1, <1>2, <1>4, <2>1, FollowingKeepsInv
<1>5. CASE follow' = Unfollow(follow)
  <2>1. follow' \in Follows /\ FollowInv'
        BY <1>2, <1>5, UnfollowKeepsFollow
  <2>2. QED
        BY <1>1, <1>2, <2>1, FollowingKeepsInv
<1>6. ASSUME NEW f, f = IF follow.this # Nobody THEN Unfollow(follow) ELSE follow,
             follow' = [f EXCEPT !.this = v, !.user = TRUE, !.editor = FALSE, !.row = @ \cup {v}],
             follow.this # Nobody => follow.this \in known
      PROVE  ViewsInv'
  <2>1. f \in Follows
        BY <1>1, <1>6, UnfollowTyped
  <2>2. gaps = {} => f.row = {}
    <3>1. CASE follow.this # Nobody
      <4>1. f = Unfollow(follow)
            BY <1>6, <3>1
      <4>2. f.row = follow.row \ {follow.this}
            BY <1>1, <1>6, <2>1, <3>1, <4>1, UnfollowEnds
      <4>3. QED
            BY <1>1, <4>2 DEF FollowInv, FollowIsConsistent
    <3>2. CASE follow.this = Nobody
      <4>1. follow.row \subseteq Users
            BY <1>1 DEF Follows
      <4>2. QED
            BY <1>1, <1>6, <3>2, <4>1, NobodyIsNoView DEF FollowInv, FollowIsConsistent
    <3>3. QED
          BY <3>1, <3>2
  <2>3. /\ follow' \in Follows /\ follow'.this = v /\ follow'.user = TRUE
        /\ follow'.editor = FALSE /\ follow'.row = f.row \cup {v}
        BY <1>6, <2>1 DEF Follows
  <2>4. FollowInv'
        BY <1>2, <2>2, <2>3 DEF FollowInv, FollowedIsThere, FollowIsConsistent
  <2>5. QED
        BY <1>1, <1>2, <2>3, <2>4, FollowingKeepsInv
<1>7. QED
      BY <1>3, <1>4, <1>5, <1>6

\* To follow whoever edits, when it is known that he is there.
LEMMA CheckEditorKeepsInv ==
    ASSUME ViewsInv, NEW checked \in BOOLEAN, CheckEditor(checked), turns' \in 0..MaxTurns
    PROVE  ViewsInv'
<1>1. follow \in Follows /\ gaps \subseteq {"host", "goto", "editor"} /\ FollowInv
      /\ byUser \in BOOLEAN /\ known \subseteq Users
      BY FollowIsTyped
<1>2. /\ checked # follow.editor
      /\ UNCHANGED <<known, marks, drawn, sheet, zooming, gone, byUser>>
      BY DEF CheckEditor
<1>3. gaps' \subseteq {"host", "goto", "editor"}
      BY <1>1 DEF CheckEditor, UnknownEditor
<1>4. gaps' = {} => gaps = {}
      BY DEF CheckEditor
<1>5. CASE ~checked
  <2>1. follow.editor
        BY <1>1, <1>2, <1>5 DEF Follows
  <2>2. follow' = [follow EXCEPT !.editor = FALSE, !.this = Nobody]
        BY <1>5 DEF CheckEditor
  <2>3. /\ follow' \in Follows /\ follow'.this = Nobody /\ follow'.user = follow.user
        /\ follow'.editor = FALSE /\ follow'.row = follow.row
        BY <1>1, <2>2 DEF Follows
  <2>4. FollowInv'
        BY <1>1, <1>2, <1>4, <2>1, <2>3 DEF FollowInv, FollowedIsThere, FollowIsConsistent
  <2>5. QED
        BY <1>1, <1>2, <1>3, <2>3, <2>4, FollowingKeepsInv
<1>6. CASE checked
  <2> DEFINE stops == follow.editorId # Nobody /\ GoToThrows(follow.editorId)
  <2>1. PICK f : f = [follow EXCEPT !.user = FALSE, !.editor = TRUE]
        OBVIOUS
  <2>2. follow' = IF stops THEN f
                  ELSE [f EXCEPT !.this = IF f.editorId # Nobody THEN f.editorId ELSE @, !.row = {}]
        BY <1>6, <2>1 DEF CheckEditor
  <2>3. gaps' = {} => ~stops /\ follow.editorId \in known \cup {Nobody}
        BY <1>6 DEF CheckEditor, UnknownEditor
  <2> HIDE DEF stops
  <2>4. /\ f \in Follows /\ f.this = follow.this /\ f.user = FALSE /\ f.editor = TRUE
        /\ f.editorId = follow.editorId
        BY <1>1, <2>1 DEF Follows
  <2>5. CASE stops
    <3>1. follow' \in Follows
          BY <2>2, <2>4, <2>5
    <3>2. FollowInv'
          BY <2>3, <2>5 DEF FollowInv, FollowedIsThere, FollowIsConsistent
    <3>3. QED
          BY <1>1, <1>2, <1>3, <3>1, <3>2, FollowingKeepsInv
  <2>6. CASE ~stops
    <3>1. follow' = [f EXCEPT !.this = IF f.editorId # Nobody THEN f.editorId ELSE @, !.row = {}]
          BY <2>2, <2>6
    <3>2. /\ follow' \in Follows
          /\ follow'.this = IF f.editorId # Nobody THEN f.editorId ELSE f.this
          /\ follow'.user = FALSE /\ follow'.editor = TRUE /\ follow'.row = {}
          BY <2>4, <3>1 DEF Follows
    <3>3. FollowInv'
          BY <1>1, <1>2, <1>4, <2>3, <2>4, <3>2 DEF FollowInv, FollowedIsThere, FollowIsConsistent
    <3>4. QED
          BY <1>1, <1>2, <1>3, <3>2, <3>3, FollowingKeepsInv
  <2>7. QED
        BY <2>5, <2>6
<1>7. QED
      BY <1>5, <1>6

\* What _setFollowing(true, v) makes of f.
Started(f, v, u) ==
    /\ u \in Follows /\ u.row = f.row
    /\ v # Nobody => u.user = TRUE /\ u.editor = FALSE
    /\ v = Nobody => u.user = FALSE /\ u.editor = TRUE
    /\ u.this \in {f.this} \cup (IF v # Nobody THEN {v} ELSE {f.editorId} \ {Nobody})
    /\ v # Nobody /\ ~GoToThrows(v) => u.this = v

LEMMA FollowedStarts ==
    ASSUME NEW f \in Follows, NEW v \in Users \cup {Nobody}, NEW u, u = Followed(f, v)
    PROVE  Started(f, v, u)
<1>1. CASE v # Nobody
  <2>1. (v # Nobody) = TRUE /\ (v = Nobody) = FALSE
        BY <1>1
  <2>2. u = [f EXCEPT !.user = TRUE, !.editor = FALSE, !.this = IF GoToThrows(v) THEN @ ELSE v]
        BY <1>1, <2>1 DEF Followed
  <2>3. QED
        BY <1>1, <2>2 DEF Follows, Started
<1>2. CASE v = Nobody
  <2>1. (v # Nobody) = FALSE /\ (v = Nobody) = TRUE
        BY <1>2
  <2>2. u = [f EXCEPT !.user = FALSE, !.editor = TRUE,
                      !.this = IF f.editorId = Nobody \/ GoToThrows(f.editorId) THEN @ ELSE f.editorId]
        BY <1>2, <2>1 DEF Followed
  <2>3. QED
        BY <1>2, <2>2 DEF Follows, Started
<1>3. QED
      BY <1>1, <1>2

\* The page: unless it names a view that has left, or a row is highlighted.
LEMMA HostKeepsInv ==
    ASSUME ViewsInv, NEW on \in BOOLEAN, NEW v \in Users \cup {Nobody}, HostFollows(on, v),
           turns' \in 0..MaxTurns
    PROVE  ViewsInv'
<1>1. follow \in Follows /\ gaps \subseteq {"host", "goto", "editor"} /\ FollowInv
      /\ byUser \in BOOLEAN /\ known \subseteq Users
      BY FollowIsTyped
<1>2. UNCHANGED <<known, marks, drawn, sheet, zooming, gone, byUser>>
      BY DEF HostFollows
<1>3. gaps' \subseteq {"host", "goto", "editor"}
      BY <1>1 DEF HostFollows, UnknownEditor
<1>4. gaps' = {} => gaps = {}
      BY DEF HostFollows
<1>5. CASE ~on
  <2>1. follow' = Unfollow(follow)
        BY <1>5 DEF HostFollows
  <2>2. follow' \in Follows /\ FollowInv'
        BY <1>2, <1>4, <2>1, UnfollowKeepsFollow
  <2>3. QED
        BY <1>1, <1>2, <1>3, <2>2, FollowingKeepsInv
<1>6. CASE on
  <2>1. follow' = Followed(follow, v)
        BY <1>6 DEF HostFollows
  <2>2. gaps' = {} => /\ v \in known \cup {Nobody} /\ follow.row = {}
                      /\ v = Nobody => follow.editorId \in known \cup {Nobody}
                      /\ v # Nobody => ~GoToThrows(v)
        BY <1>6 DEF HostFollows, UnknownEditor
  <2>3. /\ follow' \in Follows /\ follow'.row = follow.row
        /\ v # Nobody => follow'.user = TRUE /\ follow'.editor = FALSE
        /\ v = Nobody => follow'.user = FALSE /\ follow'.editor = TRUE
        /\ follow'.this \in {follow.this}
                              \cup (IF v # Nobody THEN {v} ELSE {follow.editorId} \ {Nobody})
        /\ v # Nobody /\ ~GoToThrows(v) => follow'.this = v
    <3>1. PICK f \in Follows : f = follow
          BY <1>1
    <3>2. PICK u : u = Followed(f, v)
          OBVIOUS
    <3>3. Started(f, v, u)
          BY <3>2, FollowedStarts
    <3>4. follow' = u
          BY <2>1, <3>1, <3>2
    <3>5. QED
          BY <3>1, <3>3, <3>4 DEF Started
  <2>4. FollowInv'
        BY <1>1, <1>2, <1>4, <2>2, <2>3 DEF FollowInv, FollowedIsThere, FollowIsConsistent
  <2>5. QED
        BY <1>1, <1>2, <1>3, <2>3, <2>4, FollowingKeepsInv
<1>7. QED
      BY <1>5, <1>6

-----------------------------------------------------------------------------
(* Other users' views: the behaviours.                                     *)

LEMMA ViewsInitInv ==
    ASSUME ViewsInit
    PROVE  ViewsInv
<1>1. ViewsTypeOK
  <2>1. NoMark \in Mark
        BY DEF NoMark, Mark
  <2>2. marks \in [ViewMarks -> Mark]
        BY <2>1 DEF ViewsInit, ViewMarks
  <2>3. sheet \in [type: DocKinds, selected: Sheets, shown: Sheets]
        BY ViewsAssumption DEF ViewsInit, DocKinds
  <2>4. follow \in Follows
        BY DEF ViewsInit, Follows
  <2>5. /\ known \subseteq Users /\ zooming \in BOOLEAN /\ gone \subseteq Users
        /\ byUser \in BOOLEAN /\ gaps \subseteq {"host", "goto", "editor"}
        /\ turns \in 0..MaxTurns /\ drawn = {}
    <3>1. /\ known = {} /\ drawn = {} /\ zooming = FALSE /\ gone = {}
          /\ byUser = FALSE /\ turns = 0 /\ gaps = {}
          BY Zenon DEF ViewsInit
    <3>2. zooming \in BOOLEAN /\ byUser \in BOOLEAN
          BY <3>1
    <3>3. 0 \in 0..MaxTurns
          BY ViewsAssumption
    <3>4. QED
          BY <3>1, <3>2, <3>3
  <2>6. drawn \subseteq {m \in ViewKinds \X Others : marks[m].made \/ m[1] = "cursor"}
        BY <2>5
  <2>7. QED
        BY <2>2, <2>3, <2>4, <2>5, <2>6 DEF ViewsTypeOK, ViewMarks, Mark, Follows
<1>2. NothingBeforeOpening /\ UnknownHaveNoCursor /\ WhoLeftIsErased
      BY DEF ViewsInit, NothingBeforeOpening, UnknownHaveNoCursor, WhoLeftIsErased, ViewMarks
<1>3. CursorsAreCurrent
  <2>1. ASSUME NEW m \in ViewMarks
        PROVE  m \notin drawn /\ m[2] \notin known
        BY DEF ViewsInit
  <2>2. QED
        BY <2>1, CursorsAreThoseDue
<1>4. FollowInv
      BY DEF ViewsInit, FollowInv, FollowedIsThere, FollowIsConsistent
<1>5. QED
      BY <1>1, <1>2, <1>3, <1>4 DEF ViewsInv, MarksInv, FollowInv

LEMMA ViewsTurnKeepsInv ==
    ASSUME ViewsInv, ViewsTurn, sheet.type # "none", turns' \in 0..MaxTurns
    PROVE  ViewsInv'
<1>1. CASE (\E vs \in SUBSET Users : ViewInfo(vs)) \/ ViewsReconnect
      BY <1>1, LeavingKeepsInv
<1>2. ASSUME NEW v \in Others, NEW p \in Sheets, NEW filled \in BOOLEAN,
             \/ InvalidateViewCursorMsg(v, p, filled)
             \/ CellViewCursorMsg(v, p, filled)
             \/ GraphicViewSelectionMsg(v, p, filled)
             \/ TextViewSelectionMsg(v, p, filled)
             \/ VisibleMsg(v, filled)
      PROVE  ViewsInv'
      BY <1>2, MarkMessageKeepsInv
<1>3. ASSUME NEW v \in Users, EditorMsg(v)
      PROVE  ViewsInv'
      BY <1>3, EditorKeepsInv
<1>4. CASE UserActs
      BY <1>4, UserActsKeepsInv
<1>5. ASSUME NEW p \in Sheets, SwitchPart(p)
      PROVE  ViewsInv'
      BY <1>5, SwitchPartKeepsInv
<1>6. CASE ZoomStarts
      BY <1>6, ZoomStartsKeepsInv
<1>7. ASSUME NEW v \in Users, ClickUser(v)
      PROVE  ViewsInv'
      BY <1>7, ClickUserKeepsInv
<1>8. ASSUME NEW checked \in BOOLEAN, CheckEditor(checked)
      PROVE  ViewsInv'
      BY <1>8, CheckEditorKeepsInv
<1>9. ASSUME NEW on \in BOOLEAN, NEW v \in Users \cup {Nobody}, HostFollows(on, v)
      PROVE  ViewsInv'
      BY <1>9, HostKeepsInv
<1>10. CASE \E v \in Others, visible \in BOOLEAN : VisibleMsg(v, visible)
  <2>1. 0 \in Sheets
        BY ViewsAssumption
  <2>2. QED
        BY <1>2, <1>10, <2>1
<1>11. QED
      BY <1>1, <1>2, <1>3, <1>4, <1>5, <1>6, <1>7, <1>8, <1>9, <1>10 DEF ViewsTurn

LEMMA ViewsNextKeepsInv ==
    ASSUME ViewsInv, ViewsNext
    PROVE  ViewsInv'
<1>1. CASE \E type \in DocKinds \ {"none"} : ViewsOpen(type)
      BY <1>1, ViewsOpenKeepsInv
<1>2. CASE sheet.type # "none" /\ turns < MaxTurns /\ turns' = turns + 1 /\ ViewsTurn
  <2>1. turns \in 0..MaxTurns
        BY FollowIsTyped
  <2>2. turns' \in 0..MaxTurns
        BY <1>2, <2>1, ViewsAssumption
  <2>3. QED
        BY <1>2, <2>2, ViewsTurnKeepsInv
<1>3. CASE OwnCursorMsg
      BY <1>3, OwnCursorKeepsInv
<1>4. CASE ZoomEnds
      BY <1>4, ZoomEndsKeepsInv
<1>5. QED
      BY <1>1, <1>2, <1>3, <1>4 DEF ViewsNext

LEMMA ViewsKept ==
    ASSUME ViewsInv, UNCHANGED viewsVars
    PROVE  ViewsInv'
<1>1. UNCHANGED <<known, marks, drawn, sheet, zooming, follow, gone, byUser, turns, gaps>>
      BY DEF viewsVars
<1>2. FollowInv' /\ follow' \in Follows /\ byUser' \in BOOLEAN /\ turns' \in 0..MaxTurns
      /\ gaps' \subseteq {"host", "goto", "editor"}
      BY <1>1, FollowIsTyped, FollowKept
<1>3. QED
      BY <1>1, <1>2, FollowingKeepsInv

\* In a behaviour about the views, the cursors on the screen are those of the
\* users who are there, nothing of those who left is seen, and following is on
\* everywhere or nowhere (TileLayer.js:2040, 1320, Map.js:1520).
THEOREM ViewsAreAlwaysRight == DocumentSpec => []ViewsAreRight
<1> DEFINE Inv == shownPart = "views" => ViewsInv
<1>1. DocumentInit => Inv
      BY ViewsInitInv DEF DocumentInit
<1>2. Inv /\ [DocumentNext]_documentVars => Inv'
  <2>1. SUFFICES ASSUME Inv, [DocumentNext]_documentVars, shownPart' = "views"
                 PROVE  ViewsInv'
        OBVIOUS
  <2>2. CASE DocumentNext
    <3>1. shownPart = "views" /\ ViewsNext
          BY <2>1, <2>2 DEF DocumentNext
    <3>2. QED
          BY <2>1, <3>1, ViewsNextKeepsInv
  <2>3. CASE UNCHANGED documentVars
    <3>1. shownPart = "views" /\ UNCHANGED viewsVars
          BY <2>1, <2>3 DEF documentVars
    <3>2. QED
          BY <2>1, <3>1, ViewsKept
  <2>4. QED
        BY <2>1, <2>2, <2>3
<1>3. Inv => ViewsAreRight
      BY DEF ViewsInv, MarksInv, ViewsAreRight
<1>4. QED
      BY <1>1, <1>2, <1>3, PTL DEF DocumentSpec
=============================================================================
