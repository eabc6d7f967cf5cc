--------------------------- MODULE BrowserHeaders ---------------------------
(***************************************************************************)
(* The headers of a spreadsheet: the rows (or columns) that the browser    *)
(* knows of, which of them it paints as selected, and the commands that a  *)
(* drag or the menu of a header sends.  The kit answers with one entry for *)
(* each run of rows of the same size.                                      *)
(***************************************************************************)
EXTENDS Integers, Sequences, SequencesExt, FiniteSetsExt

CONSTANTS FirstSizes,     \* the sizes of the rows at first
          Shown,          \* how many rows the kit answers with
          MaxHeadTurns    \* bound: what the users do

VARIABLES
    calcSheet,   \* the kit: sizes of the rows, cell cursor, selection <<first, last>>
    headIn,      \* messages to the kit
    headOut,     \* messages from the kit
    head,        \* the header in the browser, see HeadTypeOK
    headTurns,   \* how much of the bound is used up
    faulty       \* history: the named holes that have been met

headVars == <<calcSheet, headIn, headOut, head, headTurns, faulty>>

Count == Len(FirstSizes)
RowNumbers == 1..Count
Normal == 3
Tall == 6
NoRange == <<-1, -1>>
NotSelected == <<0, 0>>
Ranges == {p \in RowNumbers \X RowNumbers : p[1] <= p[2]}
Sizes == {0, Normal, Tall}

\* The end of row r.
EndOf(rows, r) == FoldSeq(+, 0, SubSeq(rows, 1, r))

\* The values the variables take: entries of _data start at 1, row numbers are index + start.
HeadTypeOK ==
    /\ calcSheet.rows \in [RowNumbers -> Sizes] /\ calcSheet.cursor \in RowNumbers
    /\ calcSheet.sel \in Ranges \cup {NotSelected}
    /\ head.axis \in {"none", "row", "column"} /\ head.top \in 0..Count - 1
    /\ head.start \in 0..Count /\ head.current \in RowNumbers \cup {-1}
    /\ head.sel[1] \in RowNumbers \cup {-1} /\ head.sel[2] \in RowNumbers \cup {-1, 0}
    /\ head.lit \subseteq RowNumbers /\ head.over \in 0..Count /\ head.last \in 0..Count
    /\ head.drag \in {"none", "down", "moved"} /\ head.clicks \in 0..2
    /\ faulty \subseteq {"last", "offscreen", "unlit", "edge", "hasty", "shifted", "misaimed"}

HeadInit ==
    /\ calcSheet = [rows |-> FirstSizes, cursor |-> 1, sel |-> NotSelected]
    /\ headIn = <<>> /\ headOut = <<>>
    /\ head = [axis |-> "none", top |-> 0, start |-> 0, data |-> <<>>, current |-> -1,
               sel |-> NoRange, lit |-> {}, over |-> 0, hit |-> FALSE, last |-> 0, drag |-> "none",
               clicks |-> 0, cellCursor |-> <<1, Normal>>, selection |-> NoRange]
    /\ headTurns = 0 /\ faulty = {}

-----------------------------------------------------------------------------
(* The kit.                                                                *)

\* The answer to .uno:ViewRowColumnHeaders: where the window starts, the first row of each run
\* with its end, and the last row.
Runs(rows, top) ==
    LET end == IF top + Shown < Count THEN top + Shown ELSE Count
        firsts == {r \in top + 1..end : r = top + 1 \/ r = end \/ rows[r] # rows[r - 1]}
        order == SetToSortSeq(firsts, <)
    IN <<<<top, EndOf(rows, top)>>>> \o [i \in DOMAIN order |-> <<order[i], EndOf(rows, order[i])>>]

SelectionMsg(s) ==
    <<"selection", IF s.sel = NotSelected THEN NoRange
                   ELSE <<EndOf(s.rows, s.sel[1] - 1) + 1, EndOf(s.rows, s.sel[2]) - 1>>>>

CursorMsg(s) == <<"cellcursor", s.cursor, s.rows[s.cursor]>>

Selects(first, last) == [calcSheet EXCEPT !.cursor = first, !.sel = <<first, last>>]

\* The rows that a command is about: the selected ones, else the one of the cursor.
Aimed(s) == IF s.sel = NotSelected THEN <<s.cursor, s.cursor>> ELSE s.sel

Resized(s, range, size) ==
    [s EXCEPT !.rows = [r \in RowNumbers |-> IF r \in range[1]..range[2] THEN size ELSE @[r]]]

Commanded(s, command) ==
    LET at == Aimed(s)[1]
    IN CASE command = "insert" -> [s EXCEPT !.rows = SubSeq(InsertAt(@, at, Normal), 1, Count)]
         [] command = "delete" -> [s EXCEPT !.rows = Append(RemoveAt(@, at), Normal)]
         [] command = "hide" -> Resized(s, Aimed(s), 0)
         [] command \in {"show", "optimal"} -> Resized(s, Aimed(s), Normal)

\* After a change of the rows the kit sends what depends on their places.
SheetChanges(s) ==
    /\ calcSheet' = s
    /\ headOut' = headOut \o <<<<"invalidateheader">>, CursorMsg(s), SelectionMsg(s)>>

SheetAnswers ==
    LET m == Head(headIn)
    IN /\ headIn # <<>> /\ headIn' = Tail(headIn)
       /\ \/ /\ m[1] = "headers"
             /\ headOut' = Append(headOut, <<"headers", Runs(calcSheet.rows, m[2])>>)
             /\ UNCHANGED <<calcSheet, faulty>>
          \/ /\ m[1] = "select"
             /\ calcSheet' = Selects(m[2][1], m[2][2])
             /\ headOut' = headOut \o <<CursorMsg(calcSheet'), SelectionMsg(calcSheet')>>
             /\ UNCHANGED faulty
          \/ /\ m[1] = "click"
             /\ calcSheet' = [calcSheet EXCEPT !.cursor = m[2], !.sel = NotSelected]
             /\ headOut' = headOut \o <<CursorMsg(calcSheet'), SelectionMsg(calcSheet')>>
             /\ UNCHANGED faulty
          \/ /\ m[1] = "uno"
             /\ SheetChanges(Commanded(calcSheet, m[2]))
             /\ faulty' = faulty \cup (IF Aimed(calcSheet) # m[3] THEN {"misaimed"} ELSE {})
          \/ /\ m[1] = "size"
             /\ SheetChanges(Resized(calcSheet, <<m[2], m[2]>>, Tall))
             /\ UNCHANGED faulty
       /\ UNCHANGED <<head, headTurns>>

HeadTurn == headTurns < MaxHeadTurns /\ headTurns' = headTurns + 1

\* Another user inserts a row.
OthersInsertRow(r) ==
    /\ HeadTurn
    /\ SheetChanges([calcSheet EXCEPT !.rows = SubSeq(InsertAt(@, r, Normal), 1, Count)])
    /\ faulty' = faulty \cup {"shifted"}
    /\ UNCHANGED <<headIn, head>>

-----------------------------------------------------------------------------
(* The entries of a header, L.Control.Header.DataImpl.                     *)

Entry(index, pos, size) == [index |-> index, pos |-> pos, size |-> size]
NoEntry == Entry(0, 0, 0)

\* _endIndex
EndIndex(data) == IF data = <<>> THEN -1 ELSE Last(data).index

\* The range that index is in: the last one that starts at or before it.
GetFirstIndexLessOrEqual(data, index) == Max({i \in DOMAIN data : data[i].index <= index})

ComputeEntry(run, index) == Entry(index, run.pos + (index - run.index) * run.size, run.size)

Get(data, index) ==
    IF index < 1 \/ index > EndIndex(data) THEN NoEntry
    ELSE ComputeEntry(data[GetFirstIndexLessOrEqual(data, index)], index)

IsZeroSize(data, index) ==
    ~(index > 0 /\ index < EndIndex(data)) \/ Get(data, index).size = 0

\* getFirst, getNext: all entries in turn
Entries(data) == 1..EndIndex(data)

\* With a slip: a run is taken for one row longer than it is.
FillWithLongRuns(h, rows) ==
    LET start == rows[1][1]
        heights[i \in 2..Len(rows)] ==
            rows[i][2] - (IF i = 2 THEN rows[1][2]
                          ELSE rows[i - 1][2] + heights[i - 1] * (rows[i][1] - rows[i - 1][1]))
    IN [h EXCEPT !.start = start, !.current = -1, !.sel = NoRange, !.lit = {}, !.over = 0, !.last = 0,
                 !.data = [i \in DOMAIN rows |->
                             IF i = 1 THEN Entry(0, rows[1][2], 0)
                             ELSE Entry(rows[i][1] - start, rows[i][2], heights[i])]]

\* fillRows: the size of a run is what lies between its first row's end and the end of the run
\* before, which is computed in turn from its own size.
FillRows(h, rows) ==
    LET start == rows[1][1]
        heights[i \in 2..Len(rows)] ==
            rows[i][2] - (IF i = 2 THEN rows[1][2]
                          ELSE rows[i - 1][2] + heights[i - 1] * (rows[i][1] - rows[i - 1][1] - 1))
    IN [h EXCEPT !.start = start, !.current = -1, !.sel = NoRange, !.lit = {}, !.over = 0, !.last = 0,
                 !.data = [i \in DOMAIN rows |->
                             IF i = 1 THEN Entry(0, rows[1][2], 0)
                             ELSE Entry(rows[i][1] - start, rows[i][2], heights[i])]]

\* fillColumns
FillColumns(h, columns) == FillRows(h, columns)

-----------------------------------------------------------------------------
(* What is painted as selected.                                            *)

\* An entry of no size is not painted.
Painted(h, S) == {i \in S : Get(h.data, i).size > 0}

Lighten(h, S) == [h EXCEPT !.lit = @ \cup Painted(h, S)]
Unlight(h, S) == [h EXCEPT !.lit = @ \ Painted(h, S)]

IsHighlighted(h, i) == IF h.sel = NoRange THEN i = h.current ELSE h.sel[1] <= i /\ i <= h.sel[2]

\* drawHeaderEntry, when it is not told: as the header thinks it is selected
Redrawn(h, i) == IF IsHighlighted(h, i) THEN Lighten(h, {i}) ELSE Unlight(h, {i})

\* With a slip: the current row is not painted again.
ClearSelectionOnly(h) ==
    IF h.sel = NoRange THEN h ELSE [Unlight(h, h.sel[1]..h.sel[2]) EXCEPT !.sel = NoRange]

ClearSelection(h) ==
    IF h.sel = NoRange THEN h
    ELSE [Lighten(Unlight(h, h.sel[1]..h.sel[2]), {h.current}) EXCEPT !.sel = NoRange]

\* The first and the last entry that lie in start..end, -1 when there is none.
ItStart(data, start, end) ==
    LET first == Get(data, 1)
        found == {i \in Entries(data) : LET e == Get(data, i) IN e.pos - e.size <= start /\ start < e.pos}
    IN IF found # {} THEN Max(found)
       ELSE IF start < first.pos - first.size /\ end > first.pos - first.size THEN 1 ELSE -1

ItEnd(data, end) ==
    LET found == {i \in Entries(data) : LET e == Get(data, i) IN e.pos - e.size <= end /\ end <= e.pos}
    IN IF found # {} THEN Min(found) ELSE -1

\* updateSelection.  Where the selection goes on beyond the last entry, its end is taken to be
\* the entry before the last.
UpdateSelection(h, start, end) ==
    LET itStart == ItStart(h.data, start, end)
        atEnd == ItEnd(h.data, end)
        itEnd == IF itStart # -1 /\ atEnd = -1 THEN EndIndex(h.data) - 1 ELSE atEnd
        seen == IF itStart = -1 THEN {} ELSE itStart..(IF atEnd = -1 THEN EndIndex(h.data) ELSE atEnd)
        cursorOut == itStart # -1 /\ itEnd # -1 /\ h.current # -1 /\ h.current \notin itStart..itEnd
        h1 == Lighten(h, seen)
        h2 == IF cursorOut THEN Unlight(h1, {h.current}) ELSE h1
        h3 == IF h.sel[1] # -1 /\ itStart > h.sel[1] THEN Unlight(h2, h.sel[1]..itStart - 1) ELSE h2
        h4 == IF h.sel[2] # -1 /\ itEnd # -1 /\ itEnd < h.sel[2] THEN Unlight(h3, itEnd + 1..h.sel[2])
              ELSE h3
    IN IF h.data = <<>> THEN h ELSE [h4 EXCEPT !.sel = <<itStart, itEnd>>]

UpdateCurrent(h, cursorPos, slim) ==
    LET prev == Get(h.data, cursorPos - 1)
        zero == slim /\ cursorPos > 0 /\ prev # NoEntry /\ prev.size = 0
        here == cursorPos \in Entries(h.data) /\ ~zero
        moved == IF h.sel = NoRange
                 THEN Lighten(Unlight(h, {h.current}), IF here THEN {cursorPos} ELSE {}) ELSE h
    IN IF h.data = <<>> THEN h
       ELSE IF cursorPos < 0 THEN [Unlight(h, {h.current}) EXCEPT !.current = -1]
       ELSE [moved EXCEPT !.current = IF here THEN cursorPos ELSE -1]

\* _onUpdateCurrentRow: the cursor is slim in a row that is hidden.
OnUpdateCurrentRow(h) == UpdateCurrent(h, h.cellCursor[1] - h.start, h.cellCursor[2] <= 1)

\* _onUpdateSelectionHeader
OnUpdateSelectionHeader(h) ==
    IF h.selection = NoRange THEN ClearSelection(h) ELSE UpdateSelection(h, h.selection[1], h.selection[2])

\* The named holes of the two.
SelectionHoles(h) ==
    LET to == h.selection
    IN IF to = NoRange \/ h.data = <<>> THEN {}
       ELSE (IF ItStart(h.data, to[1], to[2]) # -1 /\ ItEnd(h.data, to[2]) = -1 THEN {"last"} ELSE {})
            \cup (IF ItStart(h.data, to[1], to[2]) = -1 THEN {"offscreen"} ELSE {})

CurrentHoles(h) == IF h.sel # NoRange /\ h.cellCursor[1] < h.start THEN {"unlit"} ELSE {}

-----------------------------------------------------------------------------
(* Messages of the kit.                                                    *)

AskHeaders(top) == <<<<"headers", top>>>>

\* viewRowColumnHeaders, and the cursor and the selection once more
OnViewRowColumnHeaders(rows) ==
    LET filled == IF head.axis = "row" THEN FillRows(head, rows) ELSE FillColumns(head, rows)
        pointed == OnUpdateCurrentRow(filled)
    IN /\ head' = IF Len(rows) < 2 THEN head ELSE OnUpdateSelectionHeader(pointed)
       /\ faulty' = faulty \cup SelectionHoles(filled)
       /\ UNCHANGED headIn

OnHeadCellCursor(row, size) ==
    LET h == [head EXCEPT !.cellCursor = <<row, size>>]
    IN /\ head' = OnUpdateCurrentRow(h)
       /\ faulty' = faulty \cup CurrentHoles(h)
       /\ UNCHANGED headIn

OnHeadSelection(range) ==
    LET h == [head EXCEPT !.selection = range]
    IN /\ head' = OnUpdateSelectionHeader(h)
       /\ faulty' = faulty \cup SelectionHoles(h)
       /\ UNCHANGED headIn

OnInvalidateHeader ==
    /\ headIn' = headIn \o AskHeaders(head.top)
    /\ UNCHANGED <<head, faulty>>

HeadReceives ==
    LET m == Head(headOut)
    IN /\ headOut # <<>> /\ headOut' = Tail(headOut)
       /\ \/ m[1] = "headers" /\ OnViewRowColumnHeaders(m[2])
          \/ m[1] = "cellcursor" /\ OnHeadCellCursor(m[2], m[3])
          \/ m[1] = "selection" /\ OnHeadSelection(m[2])
          \/ m[1] = "invalidateheader" /\ OnInvalidateHeader
       /\ UNCHANGED <<calcSheet, headTurns>>

-----------------------------------------------------------------------------
(* The user.                                                               *)

HeadUser(h, sent) ==
    /\ HeadTurn /\ head.axis # "none"
    /\ head' = h /\ headIn' = headIn \o sent
    /\ UNCHANGED <<calcSheet, headOut>>

\* _initialize, at the first permission: this is the header of the rows or of the columns.
Initialize(axis) ==
    /\ head.axis = "none"
    /\ head' = [head EXCEPT !.axis = axis]
    /\ headIn' = AskHeaders(0)
    /\ UNCHANGED <<calcSheet, headOut, headTurns, faulty>>

\* The page is scrolled, and the headers of the new place are asked for.
OnCalcScroll(top) ==
    /\ top # head.top
    /\ HeadUser([head EXCEPT !.top = top], AskHeaders(top))
    /\ UNCHANGED faulty

ClickCell(r) == HeadUser(head, <<<<"click", r>>>>) /\ UNCHANGED faulty
SelectCells(range) == HeadUser(head, <<<<"select", range>>>>) /\ UNCHANGED faulty

\* _onMouseMove: the row that was under the mouse and the one that is now are painted again.
OnMouseMove(i, hit) ==
    /\ head.drag = "none" /\ i \in Entries(head.data) /\ Get(head.data, i).size > 0
    /\ <<i, hit>> # <<head.over, head.hit>>
    /\ HeadUser([IF i = head.over THEN head ELSE Redrawn(Redrawn(head, head.over), i)
                 EXCEPT !.over = i, !.hit = hit], <<>>)
    /\ UNCHANGED faulty

\* _onHeaderMouseOut: the menu is about the row that the mouse was over last.
OnHeaderMouseOut ==
    /\ head.drag = "none" /\ head.over # 0
    /\ head' = [Redrawn(head, head.over) EXCEPT !.last = head.over + head.start, !.over = 0,
                                               !.hit = FALSE]
    /\ UNCHANGED <<calcSheet, headIn, headOut, headTurns, faulty>>

HeaderMouseDown ==
    /\ head.drag = "none" /\ head.hit /\ head.over # 0
    /\ HeadUser([head EXCEPT !.drag = "down"], <<>>)
    /\ UNCHANGED faulty

OnMouseMoveForDragging ==
    /\ head.drag = "down"
    /\ head' = [head EXCEPT !.drag = "moved"]
    /\ UNCHANGED <<calcSheet, headIn, headOut, headTurns, faulty>>

\* The row that a drag is about: the one whose border it is, or the hidden one after it.
NextIfHidden(h) == h.over + h.start + (IF IsZeroSize(h.data, h.over + 1) THEN 1 ELSE 0)

\* onDragEnd of a row, and of a column, which also asks for the headers
HeaderDragEnd(h) == IF h.over = 0 \/ NextIfHidden(h) \notin RowNumbers THEN <<>>
                ELSE <<<<"size", NextIfHidden(h)>>>>

HeaderDragEndColumn(h) == HeaderDragEnd(h) \o AskHeaders(h.top)

\* onDragClick: the second of two clicks gives the row its best size.
OnDragClick(h, clicks) ==
    IF h.over = 0 \/ clicks # 2 THEN <<>>
    ELSE LET r == h.over + h.start
         IN <<<<"select", <<r, r>>>>, <<"uno", "optimal", <<r, r>>>>>>

\* The border is dragged to another row than the one it belongs to.
WrongRow(h) ==
    /\ HeaderDragEnd(h) # <<>>
    /\ LET r == HeaderDragEnd(h)[1][2]
           pressed == h.over + h.start
       IN r # pressed /\ Get(h.data, r - h.start).size # 0

HeaderMouseUp ==
    LET moved == head.drag = "moved"
        clicks == IF moved THEN 0 ELSE (head.clicks + 1) % 3
    IN /\ head.drag # "none"
       /\ head' = [head EXCEPT !.drag = "none", !.clicks = clicks]
       /\ headIn' = headIn \o (IF ~moved THEN OnDragClick(head, clicks)
                               ELSE IF head.axis = "row" THEN HeaderDragEnd(head) ELSE HeaderDragEndColumn(head))
       /\ faulty' = faulty \cup (IF ~moved \/ ~WrongRow(head) THEN {}
                                 ELSE IF head.over >= EndIndex(head.data) - 1 THEN {"edge"}
                                 ELSE {"misaimed"})
       /\ UNCHANGED <<calcSheet, headOut, headTurns>>

\* 400 ms after a click
ResetClickCount ==
    /\ head.clicks # 0
    /\ head' = [head EXCEPT !.clicks = 0]
    /\ UNCHANGED <<calcSheet, headIn, headOut, headTurns, faulty>>

\* _onClick: the row under the mouse is selected.
OnClickHeader ==
    /\ head.over # 0 /\ ~head.hit /\ head.drag = "none"
    /\ LET r == head.over + head.start
       IN HeadUser(head, <<<<"select", <<r, r>>>>>>)
    /\ UNCHANGED faulty

\* With a slip: the row of the menu is not selected before the command.
MenuWithoutSelecting(command, r) == <<<<"uno", command, <<r, r>>>>>>

\* insertRow, deleteRow, hideRow, showRow, optimalHeight: the command has no argument, so the
\* row is selected first, unless something is selected.
MenuOnRow(command, r) ==
    IF head.selection = NoRange THEN <<<<"select", <<r, r>>>>, <<"uno", command, <<r, r>>>>>>
    ELSE <<<<"uno", command, calcSheet.sel>>>>

\* The browser's selection is not the kit's any more when the command goes out.
Hasty == \E m \in ToSet(headIn) : m[1] \in {"select", "click"}
Lagging == \E m \in ToSet(headOut) : m[1] = "selection"

InsertRow == MenuOnRow("insert", head.last)
DeleteRow == MenuOnRow("delete", head.last)
HideRow == MenuOnRow("hide", head.last)
ShowRow == MenuOnRow("show", head.last)
OptimalHeight == MenuOnRow("optimal", head.last)

\* The columns ask for their headers after the command.
InsertColumn == InsertRow \o AskHeaders(head.top)
DeleteColumn == DeleteRow \o AskHeaders(head.top)
HideColumn == HideRow \o AskHeaders(head.top)
ShowColumn == ShowRow \o AskHeaders(head.top)

MenuCommand ==
    /\ head.last # 0
    /\ \E sent \in IF head.axis = "row" THEN {InsertRow, DeleteRow, HideRow, ShowRow, OptimalHeight}
                   ELSE {InsertColumn, DeleteColumn, HideColumn, ShowColumn, OptimalHeight} :
          HeadUser(head, sent)
    /\ faulty' = faulty \cup (IF Hasty \/ Lagging THEN {"hasty"} ELSE {})

HeadNext ==
    \/ \E axis \in {"row", "column"} : Initialize(axis)
    \/ SheetAnswers
    \/ HeadReceives
    \/ \E r \in RowNumbers :
          \/ OthersInsertRow(r)
          \/ ClickCell(r)
          \/ \E hit \in BOOLEAN : OnMouseMove(r, hit)
    \/ \E range \in Ranges : SelectCells(range)
    \/ \E top \in 0..Count - 2 : OnCalcScroll(top)
    \/ OnHeaderMouseOut
    \/ HeaderMouseDown
    \/ OnMouseMoveForDragging
    \/ HeaderMouseUp
    \/ ResetClickCount
    \/ OnClickHeader
    \/ MenuCommand

HeadSpec == HeadInit /\ [][HeadNext]_headVars

-----------------------------------------------------------------------------
(* Properties.                                                             *)

HeadQuiet == headIn = <<>> /\ headOut = <<>> /\ head.data # <<>>

\* Every row that the header shows has the place and the size that it has in the kit, whatever
\* runs the kit's answer was made of, and however answers and changes crossed.
HeaderShowsRows ==
    HeadQuiet => \A i \in Entries(head.data) :
        LET e == Get(head.data, i)
        IN e.pos = EndOf(calcSheet.rows, i + head.start) /\ e.size = calcSheet.rows[i + head.start]

\* The rows painted as selected are those of the selection, else the one of the cell cursor.
\* (Not when a selection went on beyond the last row that is shown, "last", or lay wholly
\* outside, "offscreen", or the cursor went above the window in a selection, "unlit".)
HighlightIsRight ==
    HeadQuiet /\ faulty \cap {"last", "offscreen", "unlit"} = {} =>
        head.lit = {i \in Entries(head.data) :
                       /\ calcSheet.rows[i + head.start] # 0
                       /\ i + head.start \in Aimed(calcSheet)[1]..Aimed(calcSheet)[2]}

\* A command of the menu, and the end of a drag, reach the row that the user pointed at, or the
\* rows that were selected: in between the header may be filled again.  (Not when the selection
\* is being changed at the same time, "hasty", or by another user's insertion, "shifted".)
CommandsAreAimed == faulty \cap {"hasty", "shifted"} = {} => "misaimed" \notin faulty

=============================================================================
