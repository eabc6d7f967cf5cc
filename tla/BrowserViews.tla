---------------------------- MODULE BrowserViews ----------------------------
(***************************************************************************)
(* The other users of the document as one browser shows them: who is there *)
(* (map._viewInfo), where their cursors, cell cursors, selected graphics   *)
(* and text selections are, what of it is drawn, and whom we follow.       *)
(*                                                                         *)
(* The server's messages about the views are not ordered with the messages *)
(* that announce a view, so any of them may come at any time.  A handler   *)
(* that reads the name or the colour of a view it does not know throws,    *)
(* and the rest of it is not executed.                                     *)
(***************************************************************************)
EXTENDS Integers

CONSTANTS Users,       \* view ids, our own included: a set of naturals
          Me,          \* our own view id
          Readers,     \* the views that are read only
          Sheets,      \* the parts of the document
          ViewKinds,   \* of "cursor", "cell", "graphic", "selection": those used
          MaxTurns     \* bound: messages of the server and actions of the user

ASSUME ViewsAssumption ==
    /\ Users \subseteq Nat /\ Me \in Users
    /\ 0 \in Sheets
    /\ ViewKinds \subseteq {"cursor", "cell", "graphic", "selection"}
    /\ MaxTurns \in Nat

VARIABLES
    known,     \* the views in _viewInfo, which are the rows of the user list
    marks,     \* _viewCursors, _cellViewCursors, _graphicViewMarkers, _viewSelections
    drawn,     \* the layers of _viewLayerGroup, as <<kind, view>>
    sheet,     \* _selectedPart, and the part the grid shows
    zooming,   \* _isZooming
    follow,    \* _followThis, _followUser, _followEditor, _editorId, selected row
    gone,      \* the view ids that have been used up since we connected
    byUser,    \* map.lastActionByUser
    turns,     \* how much of MaxTurns is used up
    gaps       \* history: the named holes the following has gone through

viewsVars == <<known, marks, drawn, sheet, zooming, follow, gone, byUser, turns, gaps>>

Nobody == -1
NoMark == [part |-> -1, filled |-> FALSE, made |-> FALSE, visible |-> FALSE]
DocKinds == {"none", "text", "spreadsheet", "presentation"}
Others == Users \ {Me}

\* The values the variables take.
ViewsTypeOK ==
    /\ known \subseteq Users
    /\ marks \in [ViewKinds \X Others ->
                    [part: Sheets \cup {-1}, filled: BOOLEAN, made: BOOLEAN, visible: BOOLEAN]]
    /\ drawn \subseteq {m \in ViewKinds \X Others : marks[m].made \/ m[1] = "cursor"}
    /\ sheet \in [type: DocKinds, selected: Sheets, shown: Sheets]
    /\ zooming \in BOOLEAN
    /\ follow \in [this: Users \cup {Nobody}, user: BOOLEAN, editor: BOOLEAN,
                   editorId: Users \cup {Nobody}, row: SUBSET Users]
    /\ gone \subseteq Users
    /\ byUser \in BOOLEAN
    /\ turns \in 0..MaxTurns
    /\ gaps \subseteq {"host", "goto", "editor"}

ViewsInit ==
    /\ known = {}
    /\ marks = [m \in ViewKinds \X Others |-> NoMark]
    /\ drawn = {}
    /\ sheet = [type |-> "none", selected |-> 0, shown |-> 0]
    /\ zooming = FALSE
    /\ follow = [this |-> Nobody, user |-> FALSE, editor |-> FALSE, editorId |-> Nobody, row |-> {}]
    /\ gone = {}
    /\ byUser = FALSE
    /\ turns = 0
    /\ gaps = {}

-----------------------------------------------------------------------------
(* Drawing a mark.                                                         *)

\* The conditions of _onUpdateViewCursor, _onUpdateCellViewCursor,
\* _onUpdateGraphicViewSelection and _onUpdateTextViewSelection.
OnSheet(mark, part) == sheet.type = "text" \/ mark.part = part
IsViewReadOnly(v) == v \in Readers
ShowsCursor(v, mark, part, zoom) ==
    ~IsViewReadOnly(v) /\ mark.visible /\ ~zoom /\ mark.filled /\ OnSheet(mark, part)
ShowsCell(mark, part) == mark.filled /\ mark.part = part
ShowsGraphic(mark, part) == mark.filled /\ OnSheet(mark, part)
ShowsSelection(mark, part) == mark.filled /\ OnSheet(mark, part)

Shows(m, mark, part, zoom) ==
    CASE m[1] = "cursor" -> ShowsCursor(m[2], mark, part, zoom)
      [] m[1] = "cell" -> ShowsCell(mark, part)
      [] m[1] = "graphic" -> ShowsGraphic(mark, part)
      [] m[1] = "selection" -> ShowsSelection(mark, part)

\* A marker is made once, with the colour of its view; a text selection every time.
ThrowsOn(m, mark, part, zoom) ==
    Shows(m, mark, part, zoom) /\ m[2] \notin known /\ (m[1] = "selection" \/ ~mark.made)

\* eachView: one kind after the other, and integer keys ascend.
KindOrder == [cursor |-> 1, cell |-> 2, graphic |-> 3, selection |-> 4]
Before(m, n) == \/ KindOrder[m[1]] < KindOrder[n[1]]
                \/ m[1] = n[1] /\ m[2] < n[2]

\* The marks of some kinds, as far as they are used.
MarksOf(kinds) == (kinds \cap ViewKinds) \X Others

\* The update of the marks ms, one before the other until one throws: which
\* of them throw or would, and which are updated.
Throwing(ms, mks, part, zoom) == {m \in ms : ThrowsOn(m, mks[m], part, zoom)}
Processed(ms, mks, part, zoom) ==
    {m \in ms : \A b \in Throwing(ms, mks, part, zoom) : Before(m, b)}
NewlyShown(ms, mks, part, zoom) ==
    {m \in Processed(ms, mks, part, zoom) : Shows(m, mks[m], part, zoom)}

\* A selection that cannot be made anew has been taken away before.
Torn(ms, mks, part, zoom) ==
    LET bad == Throwing(ms, mks, part, zoom)
    IN  {m \in bad : m[1] = "selection" /\ \A b \in bad : m = b \/ Before(m, b)}

\* The marks, and what is drawn, after it.
MarksAfter(ms, mks, part, zoom) ==
    LET show == NewlyShown(ms, mks, part, zoom)
    IN  [m \in DOMAIN mks |-> IF m \in show THEN [mks[m] EXCEPT !.made = TRUE] ELSE mks[m]]
DrawnAfter(ms, mks, part, zoom) ==
    (drawn \ (Processed(ms, mks, part, zoom) \cup Torn(ms, mks, part, zoom)))
        \cup NewlyShown(ms, mks, part, zoom)

UpdateMarks(ms, mks, part, zoom) ==
    /\ marks' = MarksAfter(ms, mks, part, zoom)
    /\ drawn' = DrawnAfter(ms, mks, part, zoom)

Redraw(ms, mks) == UpdateMarks(ms, mks, sheet.selected, zooming)

-----------------------------------------------------------------------------
(* Following.                                                              *)

\* Both end with a call of the marker, which a view on another part, or a
\* reader, does not have.
GoToViewCursorThrows(v) ==
    /\ v # Me /\ "cursor" \in ViewKinds
    /\ marks[<<"cursor", v>>].visible /\ marks[<<"cursor", v>>].filled
    /\ ~marks[<<"cursor", v>>].made
GoToCellViewCursorThrows(v) ==
    /\ v # Me /\ "cell" \in ViewKinds
    /\ marks[<<"cell", v>>].filled
    /\ v \notin known \/ ~marks[<<"cell", v>>].made

\* _goToViewId
GoToThrows(v) ==
    /\ v # Nobody
    /\ IF sheet.type = "spreadsheet" THEN GoToCellViewCursorThrows(v) ELSE GoToViewCursorThrows(v)

\* The branch of _setFollowing that ends following: deselectUser throws when
\* the row is not in the list, and _followThis is left as it is.
Unfollow(f) ==
    IF f.this \in known THEN [f EXCEPT !.user = FALSE, !.editor = FALSE, !.this = Nobody, !.row = @ \ {f.this}]
    ELSE [f EXCEPT !.user = FALSE, !.editor = FALSE]

\* _setFollowing(true, v); v is Nobody to follow whoever edits.
Followed(f, v) ==
    LET to == IF v # Nobody THEN v ELSE f.editorId
    IN [f EXCEPT !.user = v # Nobody, !.editor = v = Nobody,
                 !.this = IF to = Nobody \/ GoToThrows(to) THEN @ ELSE to]

\* To follow an editor who is not in the user list is a hole of its own.
UnknownEditor(v) == IF v \in known \cup {Nobody} THEN {} ELSE {"editor"}

-----------------------------------------------------------------------------
(* Views that come and go.                                                 *)

\* The first status message tells the type of the document.
ViewsOpen(type) ==
    /\ sheet.type = "none"
    /\ sheet' = [sheet EXCEPT !.type = type]
    /\ UNCHANGED <<known, marks, drawn, zooming, follow, gone, byUser, turns, gaps>>

\* onRemoveView of the toolbar
ForgetFollowed(vs) ==
    follow' = IF follow.this \in vs
                THEN [follow EXCEPT !.this = Nobody, !.user = FALSE, !.row = @ \ vs]
                ELSE [follow EXCEPT !.row = @ \ vs]

Uncursored(vs) ==
    marks' = [m \in DOMAIN marks |-> IF m[1] = "cursor" /\ m[2] \in vs THEN NoMark ELSE marks[m]]

\* With a slip: the selection, and the listener, forgotten.
RemoveCursorsOnly(vs) ==
    /\ Uncursored(vs)
    /\ drawn' = {m \in drawn : m[1] = "cursor" => m[2] \notin vs}
    /\ follow' = [follow EXCEPT !.row = @ \ vs]

\* _removeView of each of the views vs.  Of what is drawn for them, cell
\* cursors and graphics stay, and so does all that is known but the cursor.
RemoveViews(vs) ==
    /\ Uncursored(vs)
    /\ drawn' = {m \in drawn : m[1] \in {"cursor", "selection"} => m[2] \notin vs}
    /\ ForgetFollowed(vs)

\* map.addView and map.removeView: the user list follows.
SetViews(vs) == known' = vs

\* _onViewInfoMsg: the views that are new are added, the others removed.
ViewInfo(vs) ==
    /\ vs \cap gone = {} /\ Me \in vs
    /\ SetViews(vs)
    /\ RemoveViews(known \ vs)
    /\ gone' = gone \cup (known \ vs)
    /\ UNCHANGED <<sheet, zooming, byUser, gaps>>

\* removeAllViews when the connection is lost.  A new kit counts from zero.
ViewsReconnect ==
    /\ known # {}
    /\ SetViews({})
    /\ RemoveViews(known)
    /\ gone' = {}
    /\ UNCHANGED <<sheet, zooming, byUser, gaps>>

-----------------------------------------------------------------------------
(* What the server says of a view.                                         *)

Marked(m, new) ==
    /\ m[1] \in ViewKinds
    /\ Redraw({m}, [marks EXCEPT ![m] = new])
    /\ UNCHANGED <<known, sheet, zooming, follow, gone, byUser, gaps>>

\* Three of the handlers ignore a view they do not know, _onCellViewCursorMsg
\* does not.  A cursor is visible until the server says otherwise.
InvalidateViewCursorMsg(v, part, filled) ==
    LET old == marks[<<"cursor", v>>]
    IN v \in known /\ Marked(<<"cursor", v>>,
           [part |-> part, filled |-> filled, made |-> old.made, visible |-> old.visible \/ old = NoMark])
CellViewCursorMsg(v, part, filled) ==
    Marked(<<"cell", v>>, [marks[<<"cell", v>>] EXCEPT !.part = part, !.filled = filled])
GraphicViewSelectionMsg(v, part, filled) ==
    v \in known /\ Marked(<<"graphic", v>>, [marks[<<"graphic", v>>] EXCEPT !.part = part, !.filled = filled])
TextViewSelectionMsg(v, part, filled) ==
    v \in known /\ Marked(<<"selection", v>>,
        [marks[<<"selection", v>>] EXCEPT !.part = IF filled THEN part ELSE @, !.filled = filled])

\* _onViewCursorVisibleMsg
VisibleMsg(v, visible) ==
    LET m == <<"cursor", v>>
    IN v \in known /\ marks[m] # NoMark /\ Marked(m, [marks[m] EXCEPT !.visible = visible])

\* _updateEditor
EditorMsg(v) ==
    /\ follow' = [follow EXCEPT !.editorId = v, !.this = IF follow.editor THEN v ELSE @]
    /\ gaps' = gaps \cup (IF follow.editor THEN UnknownEditor(v) ELSE {})
    /\ UNCHANGED <<known, marks, drawn, sheet, zooming, gone, byUser>>

\* _onInvalidateCursorMsg, as far as it ends following.
OwnCursorMsg ==
    LET ends == byUser /\ (follow.editor \/ follow.user)
    IN /\ follow' = IF ends THEN Unfollow(follow) ELSE follow
       /\ byUser' = (ends /\ follow.this \notin known)
       /\ UNCHANGED <<known, marks, drawn, sheet, zooming, gone, turns, gaps>>

-----------------------------------------------------------------------------
(* The user, and the page the browser is embedded in.                      *)

UserActs ==
    /\ ~byUser /\ byUser' = TRUE
    /\ UNCHANGED <<known, marks, drawn, sheet, zooming, follow, gone, gaps>>

\* With a slip: the cursors forgotten.
SwitchPartWithoutCursors(part) ==
    LET ms == MarksOf({"cell", "graphic", "selection"})
    IN /\ sheet.type \in {"spreadsheet", "presentation"}
       /\ UpdateMarks(ms, marks, part, zooming)
       /\ sheet' = [sheet EXCEPT !.selected = part,
                                 !.shown = IF Throwing(ms, marks, part, zooming) = {} THEN part ELSE @]
       /\ UNCHANGED <<known, zooming, follow, gone, byUser, gaps>>

\* setPart: every mark is updated.  If one throws, the grid is not told.
SwitchPart(part) ==
    LET ms == MarksOf(ViewKinds)
    IN /\ sheet.type \in {"spreadsheet", "presentation"}
       /\ UpdateMarks(ms, marks, part, zooming)
       /\ sheet' = [sheet EXCEPT !.selected = part,
                                 !.shown = IF Throwing(ms, marks, part, zooming) = {} THEN part ELSE @]
       /\ UNCHANGED <<known, zooming, follow, gone, byUser, gaps>>

\* _onZoomStart
ZoomStarts ==
    /\ ~zooming /\ zooming' = TRUE
    /\ UNCHANGED <<known, marks, drawn, sheet, follow, gone, byUser, gaps>>

\* _onZoomEnd and updateAllViewCursors
ZoomEnds ==
    /\ zooming /\ zooming' = FALSE
    /\ UpdateMarks(MarksOf({"cursor"}), marks, sheet.selected, FALSE)
    /\ UNCHANGED <<known, sheet, follow, gone, byUser, turns, gaps>>

\* With a slip: without ending what was followed before.
ClickUserOnTop(v) ==
    /\ v \in known
    /\ follow' = IF GoToThrows(v) \/ v = Me THEN follow
                 ELSE [follow EXCEPT !.this = v, !.user = TRUE, !.editor = FALSE, !.row = @ \cup {v}]
    /\ UNCHANGED <<known, marks, drawn, sheet, zooming, gone, byUser, gaps>>

\* onUseritemClicked and selectUser: a click on a row of the user list.
ClickUser(v) ==
    /\ v \in known
    /\ follow' = IF GoToThrows(v) \/ v = Me THEN follow
                 ELSE IF follow.this # Nobody /\ follow.this \notin known THEN Unfollow(follow)
                 ELSE [(IF follow.this # Nobody THEN Unfollow(follow) ELSE follow) EXCEPT
                         !.this = v, !.user = TRUE, !.editor = FALSE, !.row = @ \cup {v}]
    /\ UNCHANGED <<known, marks, drawn, sheet, zooming, gone, byUser, gaps>>

\* editorUpdate: the check box of the user list, which shows _followEditor.
CheckEditor(checked) ==
    LET f == [follow EXCEPT !.user = FALSE, !.editor = TRUE]
        stops == follow.editorId # Nobody /\ GoToThrows(follow.editorId)
    IN /\ checked # follow.editor
       /\ follow' = IF ~checked THEN [follow EXCEPT !.editor = FALSE, !.this = Nobody]
                    ELSE IF stops THEN f
                    ELSE [f EXCEPT !.this = IF f.editorId # Nobody THEN f.editorId ELSE @, !.row = {}]
       /\ gaps' = gaps \cup (IF checked THEN UnknownEditor(follow.editorId) ELSE {})
                       \cup (IF checked /\ stops THEN {"goto"} ELSE {})
       /\ UNCHANGED <<known, marks, drawn, sheet, zooming, gone, byUser>>

\* Action_FollowUser: the page names a view it has been told of, perhaps
\* one that has left since, and the user list does not hear of it.
HostFollows(on, v) ==
    /\ follow' = IF on THEN Followed(follow, v) ELSE Unfollow(follow)
    /\ gaps' = gaps \cup (IF on /\ (v \notin known \cup {Nobody} \/ follow.row # {}) THEN {"host"} ELSE {})
                    \cup (IF on /\ v = Nobody THEN UnknownEditor(follow.editorId) ELSE {})
                    \cup (IF on /\ GoToThrows(IF v = Nobody THEN follow.editorId ELSE v) THEN {"goto"} ELSE {})
    /\ UNCHANGED <<known, marks, drawn, sheet, zooming, gone, byUser>>

-----------------------------------------------------------------------------

\* What the browser does not decide: messages, and what the user does.
ViewsTurn ==
    \/ \E vs \in SUBSET Users : ViewInfo(vs)
    \/ ViewsReconnect
    \/ \E v \in Others, p \in Sheets, filled \in BOOLEAN :
          \/ InvalidateViewCursorMsg(v, p, filled)
          \/ CellViewCursorMsg(v, p, filled)
          \/ GraphicViewSelectionMsg(v, p, filled)
          \/ TextViewSelectionMsg(v, p, filled)
    \/ "cursor" \in ViewKinds /\ \E v \in Others, visible \in BOOLEAN : VisibleMsg(v, visible)
    \/ \E v \in Users : EditorMsg(v)
    \/ UserActs
    \/ \E p \in Sheets : SwitchPart(p)
    \/ ZoomStarts
    \/ \E v \in Users : ClickUser(v)
    \/ \E checked \in BOOLEAN : CheckEditor(checked)
    \/ \E on \in BOOLEAN, v \in Users \cup {Nobody} : HostFollows(on, v)

ViewsNext ==
    \/ \E type \in DocKinds \ {"none"} : ViewsOpen(type)
    \/ sheet.type # "none" /\ turns < MaxTurns /\ turns' = turns + 1 /\ ViewsTurn
    \/ OwnCursorMsg
    \/ ZoomEnds

ViewsSpec == ViewsInit /\ [][ViewsNext]_viewsVars

-----------------------------------------------------------------------------
(* Properties.                                                             *)

\* Outside a zoom animation the coloured cursors on the screen are exactly
\* those of the editing users who are there, have a visible cursor, and have
\* it on the part we look at, whatever order parts, zooms, users and their
\* messages change in (TileLayer.js:2040, Parts.js:50, TileLayer.js:1971).
CursorsAreCurrent ==
    ~zooming => \A m \in ({"cursor"} \cap ViewKinds) \X Others :
        m \in drawn <=> m[2] \in known /\ Shows(m, marks[m], sheet.selected, FALSE)

\* Nobody who has left is seen: no cursor and no text selection of a view
\* that is not in _viewInfo is drawn, also not by a later switch of parts or
\* under the id of another user (TileLayer.js:1320).
WhoLeftIsErased == \A m \in drawn : m[1] \in {"cursor", "selection"} => m[2] \in known

\* As long as the page has not interfered and no marker was missing, we
\* follow a user who is there, nobody else is highlighted in the user list,
\* and following nobody is written -1 (Map.js:1520, toolbar.js:2727, 2895).
FollowIsConsistent ==
    gaps = {} =>
        /\ follow.user => follow.this \in known
        /\ ~follow.user /\ ~follow.editor => follow.this = Nobody
        /\ follow.row \subseteq {follow.this}

=============================================================================
