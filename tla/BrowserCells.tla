---------------------------- MODULE BrowserCells ----------------------------
(***************************************************************************)
(* The cell cursor of a spreadsheet: where the browser draws it and scrolls *)
(* to, the keys that move it by a page, the button of a cell with a list,  *)
(* the range that is marked, and the blinking cursor.                      *)
(*                                                                         *)
(* One column is modelled.  A row is 4 high, so that the quarter of a row  *)
(* that the code leaves free is 1.                                         *)
(***************************************************************************)
EXTENDS Integers, Sequences

CONSTANTS LastRow,      \* the rows are 0..LastRow
          Page,         \* rows that fit into the window
          Lists,        \* cells with a list of values, <<sheet, row>>
          MaxCellTurns  \* bound: what the user does

\* A window holds two rows or more, and no more than the sheet has.
ASSUME CellsAssumption == LastRow \in Nat /\ Page \in 2..(LastRow + 1)

VARIABLES
    calc,       \* the kit: the sheet shown, the cell on each sheet, the range
    calcIn,     \* messages to the kit
    calcOut,    \* messages from the kit
    cur,        \* the browser, see CellsTypeOK
    looking,    \* history: the cursor moved, and the user has not scrolled since
    cellTurns,  \* how much of the bound is used up
    lapses      \* history: the named holes that have been met

cellsVars == <<calc, calcIn, calcOut, cur, looking, cellTurns, lapses>>

Rows == 0..LastRow
NoRow == 0 - 1
AnyRow == Rows \cup {NoRow}
Tabs == {0, 1}
RowHeight == 4
WindowHeight == Page * RowHeight
DocHeight == (LastRow + 1) * RowHeight
Tops == 0..(DocHeight - WindowHeight)

\* The values the variables take.
CellsTypeOK ==
    /\ calc \in [tab: Tabs, row: [Tabs -> Rows], range: BOOLEAN]
    /\ cur \in [edit: BOOLEAN,
                at: AnyRow, prev: AnyRow,           \* _cellCursor, _prevCellCursor
                xy: AnyRow, prevXY: AnyRow,         \* _cellCursorXY, _prevCellCursorXY
                pgUp: AnyRow, pgDn: AnyRow,         \* _cellCursorOnPgUp, _cellCursorOnPgDn
                drawn: AnyRow,                      \* where _cellCursorMarker is on the map
                valid: AnyRow, button: AnyRow,      \* _validatedCellXY, and where its button is
                top: Tops,                          \* the top of the window
                area: BOOLEAN, marks: BOOLEAN,      \* _cellSelectionArea, _selections
                visible: BOOLEAN, focused: BOOLEAN, zooming: BOOLEAN, filled: BOOLEAN,
                caret: BOOLEAN, timer: BOOLEAN]
    /\ looking \in BOOLEAN
    /\ lapses \subseteq {"again", "still", "edit"}

CellsInit ==
    /\ calc = [tab |-> 0, row |-> [t \in Tabs |-> 0], range |-> FALSE]
    /\ calcIn = <<>>
    /\ calcOut = <<<<"cell", 0>>>> \o (IF <<0, 0>> \in Lists THEN <<<<"list", 0, TRUE>>>> ELSE <<>>)
    /\ cur = [edit |-> TRUE, at |-> NoRow, prev |-> NoRow, xy |-> NoRow, prevXY |-> NoRow,
              pgUp |-> NoRow, pgDn |-> NoRow, drawn |-> NoRow, valid |-> NoRow, button |-> NoRow,
              top |-> 0, area |-> FALSE, marks |-> FALSE, visible |-> FALSE, focused |-> TRUE,
              zooming |-> FALSE, filled |-> FALSE, caret |-> FALSE, timer |-> FALSE]
    /\ looking = FALSE /\ cellTurns = 0 /\ lapses = {}

-----------------------------------------------------------------------------
(* The kit.                                                                *)

Listed(tab, row) == <<tab, row>> \in Lists

\* The messages about a cursor that goes from one cell to another: the buttons
\* may be told in either order.
Moves(tab, row, newTab, newRow, showFirst) ==
    LET hide == IF Listed(tab, row) THEN <<<<"list", row, FALSE>>>> ELSE <<>>
        show == IF Listed(newTab, newRow) THEN <<<<"list", newRow, TRUE>>>> ELSE <<>>
    IN <<<<"cell", newRow>>>> \o (IF showFirst /\ tab = newTab THEN show \o hide ELSE hide \o show)

\* The end of a range; its marks may not be told.
RangeEnds(marksToo) ==
    IF ~calc.range THEN <<>>
    ELSE IF marksToo THEN <<<<"area", FALSE>>, <<"marks", FALSE>>>>
    ELSE <<<<"area", FALSE>>>>

Goal(key, row) ==
    CASE key = "down" -> IF row < LastRow THEN row + 1 ELSE row
      [] key = "up" -> IF row > 0 THEN row - 1 ELSE row
      [] key = "pgdn" -> IF row + Page > LastRow THEN LastRow ELSE row + Page
      [] key = "pgup" -> IF row < Page THEN 0 ELSE row - Page

\* A key that leaves the cursor where it is has no answer.
CalcAnswers(showFirst, marksToo) ==
    LET m == Head(calcIn)
        row == calc.row[calc.tab]
    IN /\ calcIn # <<>> /\ calcIn' = Tail(calcIn)
       /\ \/ /\ m[1] = "key" /\ Goal(m[2], row) # row
             /\ calc' = [calc EXCEPT !.row[calc.tab] = Goal(m[2], row), !.range = FALSE]
             /\ calcOut' = calcOut \o RangeEnds(marksToo)
                                   \o Moves(calc.tab, row, calc.tab, Goal(m[2], row), showFirst)
          \/ /\ m[1] = "key" /\ Goal(m[2], row) = row
             /\ UNCHANGED <<calc, calcOut>>
          \/ /\ m[1] = "range"
             /\ calc' = [calc EXCEPT !.range = TRUE]
             /\ calcOut' = calcOut \o <<<<"area", TRUE>>, <<"marks", TRUE>>>>
          \/ /\ m[1] = "type"
             /\ UNCHANGED calc
             /\ calcOut' = calcOut \o <<<<"empty">>, <<"cursorvisible">>>>
          \/ /\ m[1] = "tab" /\ m[2] # calc.tab
             /\ calc' = [calc EXCEPT !.tab = m[2], !.range = FALSE]
             /\ calcOut' = calcOut \o RangeEnds(marksToo)
                                   \o Moves(calc.tab, row, m[2], calc.row[m[2]], FALSE)
          \/ /\ m[1] = "tab" /\ m[2] = calc.tab
             /\ UNCHANGED <<calc, calcOut>>
       /\ UNCHANGED <<cur, looking, cellTurns, lapses>>

-----------------------------------------------------------------------------
(* What the browser draws.                                                 *)

\* _updateCursorAndOverlay
Blinks(c) == c.edit /\ c.visible /\ c.focused /\ ~c.zooming /\ c.filled
Caret(c) == [c EXCEPT !.caret = Blinks(c)]

\* _hideCursorIfVisible
HideCursorIfVisible(c) == IF c.visible THEN Caret([c EXCEPT !.visible = FALSE]) ELSE c

\* _addDropDownMarker and _removeDropDownMarker
AddDropDown(c) == IF c.valid # NoRow /\ c.valid = c.xy THEN [c EXCEPT !.button = c.at] ELSE c
RemoveDropDown(c) == IF c.valid = NoRow THEN [c EXCEPT !.button = NoRow] ELSE c

Clamped(top) == IF top < 0 THEN 0 ELSE IF top > DocHeight - WindowHeight THEN DocHeight - WindowHeight ELSE top

InWindow(row, top) == top <= row * RowHeight /\ (row + 1) * RowHeight <= top + WindowHeight

\* With a slip: only half a window is kept after a page key.
PageScrollHalf(row, guard, top) == row * RowHeight + WindowHeight \div 2

\* The page keys keep the cursor at its height in the window, or bring it to
\* the middle when that is not possible.
PageScroll(row, guard, top) ==
    LET t == top + (row - guard) * RowHeight
    IN IF row * RowHeight < t \/ (row + 1) * RowHeight > t + WindowHeight
       THEN row * RowHeight - WindowHeight \div 2
       ELSE t

\* The other keys bring the cell to the edge of the window, a little off it.
StepScroll(row, top) ==
    IF row * RowHeight < top THEN row * RowHeight - RowHeight \div 4
    ELSE IF (row + 1) * RowHeight > top + WindowHeight
    THEN (row + 1) * RowHeight - WindowHeight + RowHeight \div 4
    ELSE top

\* _onUpdateCellCursor; moved tells that the cursor went some way.
UpdateCellCursor(c, moved, onPgUpDn) ==
    LET away == c.at # NoRow /\ ~InWindow(c.at, c.top) /\ c.xy # c.prevXY
        top == IF onPgUpDn THEN PageScroll(c.at, IF c.pgUp # NoRow THEN c.pgUp ELSE c.pgDn, c.top)
               ELSE IF moved THEN StepScroll(c.at, c.top)
               ELSE c.top
        seen == IF away THEN [c EXCEPT !.top = Clamped(top), !.prevXY = c.xy] ELSE c
        free == IF onPgUpDn THEN [seen EXCEPT !.pgUp = NoRow, !.pgDn = NoRow] ELSE seen
    IN RemoveDropDown(IF c.at # NoRow THEN AddDropDown([free EXCEPT !.drawn = c.at, !.button = NoRow])
                      ELSE [c EXCEPT !.drawn = NoRow])

\* With a slip: what was marked stays.
StillMarked(c) == c

\* _removeSelection, when no range is selected any more
Unmarked(c) == IF ~c.area THEN [c EXCEPT !.marks = FALSE] ELSE c

\* With a slip: the cursor is remembered without looking at the page keys.
OnPageKeyNever(c) == FALSE

OnPageKey(c) ==
    /\ c.at # NoRow /\ c.prev # c.at
    /\ c.prev # NoRow /\ (c.pgUp = c.prev \/ c.pgDn = c.prev)

\* _onCellCursorMsg with a cell, or with NoRow for EMPTY
CellCursorMsg(row) ==
    LET at == IF cur.edit THEN row ELSE NoRow
        c == [cur EXCEPT !.at = at, !.xy = at, !.filled = @ \/ at # NoRow]
        h == IF at # NoRow THEN HideCursorIfVisible(c) ELSE c
        moved == at # NoRow /\ (IF h.prev # NoRow THEN h.prev # at ELSE at # 0)
        onPgUpDn == OnPageKey(h)
        p == IF at # NoRow /\ h.prev # at THEN [h EXCEPT !.prev = at] ELSE h
    IN /\ cur' = Unmarked(UpdateCellCursor(p, moved, onPgUpDn))
       /\ looking' = (at # NoRow /\ (looking \/ cur.drawn # at))
       /\ lapses' = lapses \cup (IF at # NoRow /\ ~InWindow(at, cur.top)
                                 THEN (IF cur.prevXY = at THEN {"again"} ELSE {})
                                      \cup (IF ~moved THEN {"still"} ELSE {})
                                 ELSE {})

\* With a slip: the button is taken for the cell it was last told of.
ValidityListButtonOnly(row, show) ==
    IF show THEN AddDropDown([cur EXCEPT !.valid = row])
    ELSE RemoveDropDown([cur EXCEPT !.valid = NoRow])

\* _onValidityListButtonMsg
ValidityListButton(row, show) ==
    IF show THEN AddDropDown([cur EXCEPT !.valid = row,
                                         !.button = IF cur.valid \notin {NoRow, row} THEN NoRow ELSE @])
    ELSE IF cur.valid = row THEN RemoveDropDown([cur EXCEPT !.valid = NoRow])
    ELSE cur

\* _onCellSelectionAreaMsg and _onTextSelectionMsg
SelectionArea(there) == [cur EXCEPT !.area = there /\ cur.edit]
SelectionMarks(there) == [cur EXCEPT !.marks = there]

\* _onCursorVisibleMsg
CursorVisible == Caret([cur EXCEPT !.visible = TRUE])

CellsReceive ==
    LET m == Head(calcOut)
    IN /\ calcOut # <<>> /\ calcOut' = Tail(calcOut)
       /\ \/ m[1] = "cell" /\ CellCursorMsg(m[2])
          \/ m[1] = "empty" /\ CellCursorMsg(NoRow)
          \/ /\ m[1] \notin {"cell", "empty"}
             /\ cur' = CASE m[1] = "list" -> ValidityListButton(m[2], m[3])
                         [] m[1] = "area" -> SelectionArea(m[2])
                         [] m[1] = "marks" -> SelectionMarks(m[2])
                         [] m[1] = "cursorvisible" -> CursorVisible
             /\ UNCHANGED <<looking, lapses>>
       /\ UNCHANGED <<calc, calcIn, cellTurns>>

-----------------------------------------------------------------------------
(* The user.                                                               *)

CellTurn == cellTurns < MaxCellTurns /\ cellTurns' = cellTurns + 1

\* _postKeyboardEvent: a page key waits until the last one has moved the cursor.
PressKey(key) ==
    /\ CellTurn
    /\ cur.edit
    /\ \/ key = "pgup" /\ cur.prev # NoRow /\ cur.pgUp # NoRow /\ UNCHANGED <<cur, calcIn>>
       \/ key = "pgdn" /\ cur.prev # NoRow /\ cur.pgDn # NoRow /\ UNCHANGED <<cur, calcIn>>
       \/ /\ ~(key = "pgup" /\ cur.pgUp # NoRow) /\ ~(key = "pgdn" /\ cur.pgDn # NoRow)
          /\ cur' = [cur EXCEPT !.pgUp = IF key = "pgup" THEN cur.prev ELSE @,
                                !.pgDn = IF key = "pgdn" THEN cur.prev ELSE @]
          /\ calcIn' = Append(calcIn, <<"key", key>>)
    /\ UNCHANGED <<calc, calcOut, looking, lapses>>

\* Typing into the cell, or marking a range with the mouse.
Posts(m) ==
    /\ CellTurn
    /\ cur.edit
    /\ calcIn' = Append(calcIn, m)
    /\ UNCHANGED <<calc, calcOut, cur, looking, lapses>>

\* The double click that lets the user type into an empty cell.
DoubleClick ==
    /\ CellTurn
    /\ cur.edit /\ ~cur.visible /\ cur.at # NoRow /\ calcOut = <<>>
    /\ cur' = LET c == [cur EXCEPT !.at = NoRow, !.xy = NoRow]
              IN Caret([Unmarked(UpdateCellCursor(c, FALSE, FALSE)) EXCEPT !.visible = TRUE])
    /\ UNCHANGED <<calc, calcIn, calcOut, looking, lapses>>

ScrollTo(top) ==
    /\ CellTurn
    /\ top # cur.top
    /\ cur' = [cur EXCEPT !.top = top]
    /\ looking' = FALSE
    /\ UNCHANGED <<calc, calcIn, calcOut, lapses>>

\* _clearSelections
ClearSelections(c) ==
    UpdateCellCursor([Caret(c) EXCEPT !.marks = FALSE, !.at = NoRow], FALSE, FALSE)

\* setPart by a click on a tab
SelectTab(tab) ==
    /\ CellTurn
    /\ calcIn' = Append(calcIn, <<"tab", tab>>)
    /\ cur' = ClearSelections([cur EXCEPT !.top = 0])
    /\ looking' = FALSE
    /\ UNCHANGED <<calc, calcOut, lapses>>

\* _onEditorLostFocus
LoseFocus ==
    /\ CellTurn
    /\ cur.focused
    /\ cur' = Caret([cur EXCEPT !.focused = FALSE])
    /\ UNCHANGED <<calc, calcIn, calcOut, looking, lapses>>

\* _onEditorGotFocus
GetFocus ==
    /\ ~cur.focused
    /\ cur' = [cur EXCEPT !.focused = TRUE, !.timer = TRUE]
    /\ UNCHANGED <<calc, calcIn, calcOut, looking, cellTurns, lapses>>

\* The timer of _onEditorGotFocus
FocusApplied ==
    /\ cur.timer
    /\ cur' = Caret([cur EXCEPT !.timer = FALSE])
    /\ UNCHANGED <<calc, calcIn, calcOut, looking, cellTurns, lapses>>

\* _onZoomStart
CellsZoom ==
    /\ CellTurn
    /\ ~cur.zooming
    /\ cur' = [cur EXCEPT !.zooming = TRUE]
    /\ UNCHANGED <<calc, calcIn, calcOut, looking, lapses>>

\* With a slip: the cursor is left to the next message.
CellsZoomedOnly ==
    /\ cur.zooming
    /\ cur' = [cur EXCEPT !.zooming = FALSE]
    /\ UNCHANGED <<calc, calcIn, calcOut, looking, cellTurns, lapses>>

\* _onZoomEnd
CellsZoomed ==
    /\ cur.zooming
    /\ cur' = Caret([cur EXCEPT !.zooming = FALSE])
    /\ UNCHANGED <<calc, calcIn, calcOut, looking, cellTurns, lapses>>

\* The permission is taken away and given back.
CellsReadOnly ==
    /\ CellTurn
    /\ cur.edit
    /\ cur' = ClearSelections([cur EXCEPT !.edit = FALSE])
    /\ UNCHANGED <<calc, calcIn, calcOut, looking, lapses>>

CellsEdit ==
    /\ ~cur.edit
    /\ cur' = [cur EXCEPT !.edit = TRUE]
    /\ lapses' = lapses \cup {"edit"}
    /\ UNCHANGED <<calc, calcIn, calcOut, looking, cellTurns>>

-----------------------------------------------------------------------------

CellsNext ==
    \/ \E first, marks \in BOOLEAN : CalcAnswers(first, marks)
    \/ CellsReceive
    \/ \E key \in {"up", "down", "pgup", "pgdn"} : PressKey(key)
    \/ Posts(<<"range">>)
    \/ Posts(<<"type">>)
    \/ DoubleClick
    \/ \E top \in {0, DocHeight - WindowHeight} : ScrollTo(top)
    \/ \E tab \in Tabs : SelectTab(tab)
    \/ LoseFocus
    \/ GetFocus
    \/ FocusApplied
    \/ CellsZoom
    \/ CellsZoomed
    \/ CellsReadOnly
    \/ CellsEdit

CellsSpec == CellsInit /\ [][CellsNext]_cellsVars

-----------------------------------------------------------------------------
(* Properties.                                                             *)

CellsQuiet == calcIn = <<>> /\ calcOut = <<>> /\ cur.edit

\* A page key that is waited for is always freed by the next move of the
\* cursor: the place it remembers is the last place of the cursor, through
\* changes of the sheet and of the permission too.  Otherwise the key would be
\* dead for good (TileLayer.js:1058, 1917).
PageKeyIsFreed ==
    /\ cur.pgUp \in {NoRow, cur.prev}
    /\ cur.pgDn \in {NoRow, cur.prev}

\* When the cursor has moved, the window shows it, until the user scrolls: the
\* pages and the steps scroll far enough at both ends of the sheet.  Not so
\* when the cursor comes back to the last cell that was scrolled to, or is
\* at the same place on another sheet (TileLayer.js:2707, 2751, 1051).
CursorIsInWindow ==
    looking /\ cur.at # NoRow => InWindow(cur.at, cur.top) \/ lapses \cap {"again", "still"} # {}

\* When all is answered, the button of a list is at the cursor, and only if
\* its cell has one, whatever the order in which the cursor and the button
\* are told (TileLayer.js:2784, 2803, 2813).
ListButtonIsRight ==
    CellsQuiet /\ cur.at # NoRow
        => cur.button = (IF Listed(calc.tab, cur.at) THEN cur.at ELSE NoRow)

\* Nothing is left marked when no range is selected (TileLayer.js:1069).
MarksFollowRange ==
    CellsQuiet /\ cur.marks => calc.range

\* The blinking cursor is there if and only if it should be; only a user who
\* has just been allowed to edit may have to wait for it
\* (TileLayer.js:2025, 1967, Map.js:1250).
CaretIsRight ==
    ~cur.zooming /\ ~cur.timer
        => /\ cur.caret => Blinks(cur)
           /\ Blinks(cur) => cur.caret \/ "edit" \in lapses
=============================================================================
