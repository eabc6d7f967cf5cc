---------------------------- MODULE BrowserSheets ----------------------------
(***************************************************************************)
(* The sheets of a spreadsheet: the tabs, the commands that add, remove,    *)
(* hide and show sheets by their number, which others may change meanwhile, *)
(* and the notes of the sheet that is shown.                                *)
(*                                                                         *)
(* The kit numbers the sheets of all users alike, hidden ones included; the *)
(* browser guesses the outcome of its own commands and is corrected by the  *)
(* next status.  Numbers count from 0, as in the code.                      *)
(***************************************************************************)
EXTENDS Integers, Sequences, FiniteSets, SequencesExt

CONSTANTS FirstSheets,      \* the sheets of the document at first
          FirstHidden,      \* the ones among them that are hidden
          FirstNotes,       \* notes there are at first, <<sheet, note>>
          FreshSheets,      \* names for sheets that are inserted
          MaxBookTurns,     \* bound: what the user does
          MaxBookNews       \* bound: what others do, and the kit of its own accord

VARIABLES
    book,       \* the kit: [order, hidden, notes, at]; at is the sheet that our view shows
    toBook,     \* commands to the kit
    fromBook,   \* messages from the kit
    tabs,       \* the browser, see SheetsTypeOK
    asking,     \* the dialog that is open: the number it took, and the name it shows
    aimed,      \* history: the sheet that the last command was meant for, and the one it met
    bookTurns,  \* how much of the bounds is used up
    mishaps     \* history: the named holes that have been met

sheetsVars == <<book, toBook, fromBook, tabs, asking, aimed, bookTurns, mishaps>>

NoSheet == "no sheet"
NoNumber == -1
AllSheets == Range(FirstSheets) \cup FreshSheets
NotAsking == [kind |-> "none", number |-> NoNumber, name |-> NoSheet]

\* The values the variables take.
SheetsTypeOK ==
    /\ Range(book.order) \subseteq AllSheets /\ book.hidden \subseteq Range(book.order)
    /\ book.at \in Range(book.order) \ book.hidden
    /\ tabs.parts \in 0..(Cardinality(AllSheets) + 2)        \* _parts
    /\ tabs.at \in Nat /\ tabs.before \in Nat \cup {NoNumber} \* _selectedPart, _prevSelectedPart
    /\ tabs.bar \in Seq(Nat)                \* the numbers of the tabs that are there
    /\ tabs.lit \in Nat \cup {NoNumber}     \* the one that is marked
    /\ tabs.seen \in Nat \cup {NoNumber}    \* the one that was scrolled into view
    /\ Range(tabs.names) \subseteq AllSheets                 \* _partNames
    /\ tabs.hidden \subseteq Nat            \* _hiddenParts
    /\ tabs.known \subseteq Nat             \* the sheets _annotations has an entry for
    /\ \A n \in tabs.notes : n[1] \in tabs.known             \* _annotations, <<number, note>>
    /\ tabs.shown \subseteq {n[2] : n \in FirstNotes} \cup FreshSheets
    /\ tabs.draft \in AllSheets \cup {NoSheet}               \* a note being written, and where
    /\ asking.kind \in {"none", "remove", "move"}
    /\ mishaps \subseteq {"unread", "moved", "numbers", "missing", "hidden", "draft"}

NumberIn(order, s) == CHOOSE i \in 0..(Len(order) - 1) : order[i + 1] = s
VisibleTabs(count, hidden) == SelectSeq([i \in 1..count |-> i - 1], LAMBDA i : i \notin hidden)
HiddenNumbers(b) == {NumberIn(b.order, s) : s \in b.hidden}
NotesWithNumbers(b) == {<<NumberIn(b.order, n[1]), n[2]>> : n \in b.notes}

SheetsInit ==
    LET b == [order |-> FirstSheets, hidden |-> FirstHidden, notes |-> FirstNotes,
              at |-> SelectSeq(FirstSheets, LAMBDA s : s \notin FirstHidden)[1]]
        at == NumberIn(b.order, b.at)
        bar == VisibleTabs(Len(b.order), HiddenNumbers(b))
    IN /\ book = b
       /\ toBook = <<<<"comments">>>> /\ fromBook = <<>>
       /\ tabs = [parts |-> Len(b.order), at |-> at, before |-> NoNumber, bar |-> bar, lit |-> at,
                  seen |-> NoNumber, names |-> b.order, hidden |-> HiddenNumbers(b), known |-> {},
                  notes |-> {}, shown |-> {}, draft |-> NoSheet]
       /\ asking = NotAsking
       /\ aimed = [meant |-> NoSheet, met |-> NoSheet]
       /\ bookTurns = [user |-> 0, news |-> 0] /\ mishaps = {}

-----------------------------------------------------------------------------
(* The kit.                                                                *)

BookStatus(b) == <<"status", b.order, HiddenNumbers(b), NumberIn(b.order, b.at)>>

\* The nearest sheet that is there and not hidden, when ours goes.
Nearest(b, i) ==
    LET fit == {j \in 1..Len(b.order) : b.order[j] \notin b.hidden}
        after == {j \in fit : j >= i}
    IN b.order[IF after # {} THEN CHOOSE j \in after : \A k \in after : j <= k
               ELSE CHOOSE j \in fit : \A k \in fit : j >= k]

WithInserted(b, place, s) ==
    LET i == IF place > Len(b.order) THEN Len(b.order) + 1 ELSE place + 1
    IN [b EXCEPT !.order = InsertAt(@, i, s)]

CanGo(b, s) == \E t \in Range(b.order) \ {s} : t \notin b.hidden

WithRemoved(b, s) ==
    LET i == NumberIn(b.order, s) + 1
        c == [b EXCEPT !.order = RemoveAt(@, i), !.hidden = @ \ {s},
                       !.notes = {n \in @ : n[1] # s}]
    IN IF b.at = s THEN [c EXCEPT !.at = Nearest(c, i)] ELSE c

WithHidden(b, s) ==
    LET c == [b EXCEPT !.hidden = @ \cup {s}]
    IN IF b.at = s THEN [c EXCEPT !.at = Nearest(c, NumberIn(b.order, s) + 1)] ELSE c

\* The sheet with a number, if there is one.
SheetAt(b, i) == IF i < Len(b.order) THEN b.order[i + 1] ELSE NoSheet

Fresh == CHOOSE s \in FreshSheets : s \notin Range(book.order)
HasFresh == FreshSheets \ Range(book.order) # {}

\* What a command does to the book, and the sheet it met.
Obeyed(c) ==
    CASE c[1] = "insert" -> <<[WithInserted(book, c[2], c[4]) EXCEPT !.at = c[4]], SheetAt(book, c[2])>>
      [] c[1] = "remove" -> LET s == SheetAt(book, c[2])
                            IN <<IF s # NoSheet /\ CanGo(book, s) THEN WithRemoved(book, s) ELSE book, s>>
      [] c[1] = "hide" -> <<IF CanGo(book, book.at) THEN WithHidden(book, book.at) ELSE book, book.at>>
      [] c[1] = "show" -> <<[book EXCEPT !.hidden = @ \ {c[3]}], c[3]>>
      [] c[1] = "part" -> LET s == SheetAt(book, c[2])
                          IN <<IF s # NoSheet /\ s \notin book.hidden THEN [book EXCEPT !.at = s] ELSE book,
                               s>>
      [] c[1] = "note" -> <<[book EXCEPT !.notes = @ \cup {<<book.at, c[4]>>}], book.at>>
      [] OTHER -> <<book, NoSheet>>

\* The kit does what it is asked for, and tells of it.
KitObeys ==
    LET c == Head(toBook)
        new == Obeyed(c)[1]
    IN /\ toBook # <<>> /\ toBook' = Tail(toBook)
       /\ book' = new
       /\ aimed' = IF Len(c) > 2 THEN [meant |-> c[3], met |-> Obeyed(c)[2]] ELSE aimed
       /\ fromBook' = fromBook \o
             (CASE c[1] = "comments" -> <<<<"comments", NotesWithNumbers(book)>>>>
                [] c[1] = "positions" -> <<<<"positions", NotesWithNumbers(book)>>>>
                [] c[1] = "note" -> <<<<"add", NumberIn(book.order, book.at), c[4]>>>>
                [] c[1] \in {"insert", "remove", "hide", "show"} /\ new # book -> <<BookStatus(new)>>
                [] OTHER -> <<>>)
       /\ UNCHANGED <<tabs, asking, bookTurns, mishaps>>

\* News may come while a dialog is open or a command is under way.
BookNews(new, first) ==
    /\ bookTurns.news < MaxBookNews
    /\ bookTurns' = [bookTurns EXCEPT !.news = @ + 1]
    /\ book' = new
    /\ fromBook' = fromBook \o first \o <<BookStatus(new)>>
    /\ mishaps' = mishaps \cup (IF toBook # <<>> \/ asking.kind # "none" THEN {"unread"} ELSE {})
    /\ UNCHANGED <<toBook, tabs, asking, aimed>>

OthersInsertSheet(i) == HasFresh /\ i <= Len(book.order) /\ BookNews(WithInserted(book, i, Fresh), <<>>)

OthersRemoveSheet(s) ==
    LET new == WithRemoved(book, s)
        moves == <<"setpart", NumberIn(new.order, new.at)>>
    IN s \in Range(book.order) /\ CanGo(book, s)
       /\ \/ BookNews(new, <<>>)
          \/ new.at # book.at /\ BookNews(new, <<moves>>)

OthersHideSheet(s) ==
    s \in Range(book.order) \ book.hidden /\ CanGo(book, s) /\ BookNews(WithHidden(book, s), <<>>)

OthersDeleteNote(n) ==
    /\ n \in book.notes
    /\ bookTurns.news < MaxBookNews
    /\ bookTurns' = [bookTurns EXCEPT !.news = @ + 1]
    /\ book' = [book EXCEPT !.notes = @ \ {n}]
    /\ fromBook' = Append(fromBook, <<"delete", NumberIn(book.order, n[1]), n[2]>>)
    /\ UNCHANGED <<toBook, tabs, asking, aimed, mishaps>>

\* "invalidateheader: ..." after rows or columns change
KitInvalidatesHeaders ==
    /\ bookTurns.news < MaxBookNews
    /\ bookTurns' = [bookTurns EXCEPT !.news = @ + 1]
    /\ fromBook' = Append(fromBook, <<"headers">>)
    /\ UNCHANGED <<book, toBook, tabs, asking, aimed, mishaps>>

-----------------------------------------------------------------------------
(* Showing a sheet.                                                        *)

\* hideAnnotations, of one sheet
HideAnnotations(p, i) == [p EXCEPT !.shown = @ \ {n[2] : n \in {m \in p.notes : m[1] = i}}]

\* showAnnotations
ShowAnnotations(p) == [p EXCEPT !.shown = @ \cup {n[2] : n \in {m \in p.notes : m[1] = p.at}}]

\* With a slip: the sheet that was left keeps its notes on the map.
OnUpdatePartsShow(p) == IF p.before = NoNumber THEN p ELSE ShowAnnotations(p)

\* CalcTileLayer._onUpdateParts, but for a status
OnUpdateParts(p) == IF p.before = NoNumber THEN p ELSE ShowAnnotations(HideAnnotations(p, p.before))

\* _selectedTabScrollIntoView: the child of the bar with the number of the sheet
ScrollIntoView(p) == IF p.at < Len(p.bar) THEN [p EXCEPT !.seen = p.bar[p.at + 1]] ELSE p

\* With a slip: the mark stays on the tab that was left.
MarkSelectedOnly(p) == p

\* Control.Tabs._updateDisabled: the mark
MarkSelected(p) == [p EXCEPT !.lit = IF p.at \in Range(p.bar) THEN p.at ELSE NoNumber]

\* Map.setPart with a number: the browser, and what it sends.
SetSheet(p, i) ==
    LET q == [p EXCEPT !.before = p.at]
    IN IF i >= p.parts THEN q
       ELSE ScrollIntoView(MarkSelected(OnUpdateParts([q EXCEPT !.at = i])))

PartSent(p, i, meant) == IF i >= p.parts THEN <<>> ELSE <<<<"part", i, meant>>>>

NameOf(p, i) == IF i < Len(p.names) THEN p.names[i + 1] ELSE NoSheet

-----------------------------------------------------------------------------
(* Messages.                                                               *)

\* With a slip: hidden sheets have tabs too.
RebuiltWithAll(p) == [p EXCEPT !.bar = [i \in 1..p.parts |-> i - 1]]

\* Control.Tabs._updateDisabled: the tabs, when the names are given
Rebuilt(p) == [p EXCEPT !.bar = VisibleTabs(p.parts, p.hidden)]

\* _onStatusMsg; one that repeats the last is not read, but here none does
OnSheetsStatus(names, hidden, at) ==
    LET p == [tabs EXCEPT !.parts = Len(names), !.at = at, !.names = names, !.hidden = hidden]
    IN /\ tabs' = ScrollIntoView(MarkSelected(Rebuilt(p)))
       /\ mishaps' = mishaps
            \cup (IF at # tabs.at /\ tabs.notes # {} THEN {"moved"} ELSE {})
            \cup (IF \E i \in tabs.known : NameOf(tabs, i) # NameOf(p, i) THEN {"numbers"} ELSE {})
       /\ UNCHANGED toBook

\* _onSetPartMsg
OnSheetsSetPart(i) ==
    /\ tabs' = IF i # tabs.at /\ i \notin tabs.hidden THEN SetSheet(tabs, i) ELSE tabs
    /\ UNCHANGED <<toBook, mishaps>>

\* "comment:" with the action Add
OnNoteAdded(i, note) ==
    /\ tabs' = [tabs EXCEPT !.notes = @ \cup {<<i, note>>}, !.known = @ \cup {i},
                            !.shown = IF i = tabs.at THEN @ \cup {note} ELSE @]
    /\ UNCHANGED <<toBook, mishaps>>

\* With a slip: the note is forgotten, and stays on the map.
OnNoteRemovedOnly(i, note) ==
    /\ tabs' = [tabs EXCEPT !.notes = @ \ {<<i, note>>}]
    /\ UNCHANGED <<toBook, mishaps>>

\* "comment:" with the action Remove, which throws for a sheet without an entry
OnNoteRemoved(i, note) ==
    /\ tabs' = IF <<i, note>> \in tabs.notes
               THEN [tabs EXCEPT !.notes = @ \ {<<i, note>>}, !.shown = @ \ {note}] ELSE tabs
    /\ mishaps' = IF i \in tabs.known THEN mishaps ELSE mishaps \cup {"missing"}
    /\ UNCHANGED toBook

\* _onCommandValuesMsg with comments: clearAnnotations and all of them anew
OnComments(notes) ==
    /\ tabs' = ShowAnnotations([tabs EXCEPT !.shown = @ \ {n[2] : n \in tabs.notes},
                                            !.notes = notes, !.known = {n[1] : n \in notes}])
    /\ UNCHANGED <<toBook, mishaps>>

\* _onCommandValuesMsg with commentsPos: hideAnnotations without a sheet hides none,
\* and a note of a sheet without an entry throws before any is shown.
OnCommentsPos(notes) ==
    /\ tabs' = IF \A n \in notes : n[1] \in tabs.known THEN ShowAnnotations(tabs) ELSE tabs
    /\ mishaps' = IF \A n \in notes : n[1] \in tabs.known THEN mishaps ELSE mishaps \cup {"missing"}
    /\ UNCHANGED toBook

\* "invalidateheader:"
OnSheetsHeaders == toBook' = Append(toBook, <<"positions">>) /\ UNCHANGED <<tabs, mishaps>>

SheetsReceive ==
    LET m == Head(fromBook)
    IN /\ fromBook # <<>> /\ fromBook' = Tail(fromBook)
       /\ CASE m[1] = "status" -> OnSheetsStatus(m[2], m[3], m[4])
            [] m[1] = "setpart" -> OnSheetsSetPart(m[2])
            [] m[1] = "add" -> OnNoteAdded(m[2], m[3])
            [] m[1] = "delete" -> OnNoteRemoved(m[2], m[3])
            [] m[1] = "comments" -> OnComments(m[2])
            [] m[1] = "positions" -> OnCommentsPos(m[2])
            [] m[1] = "headers" -> OnSheetsHeaders
       /\ UNCHANGED <<book, asking, aimed, bookTurns>>

-----------------------------------------------------------------------------
(* The user.                                                               *)

\* What the user sees is not what the kit has: a number may mean another sheet.
SheetsUnread ==
    \/ \E k \in DOMAIN fromBook : fromBook[k][1] \in {"status", "setpart"}
    \/ \E k \in DOMAIN toBook : toBook[k][1] \in {"insert", "remove", "hide", "show"}

BookTurn ==
    /\ bookTurns.user < MaxBookTurns
    /\ bookTurns' = [bookTurns EXCEPT !.user = @ + 1]

\* A command by number, or one that is about the current sheet.
SheetCommand(p, commands) ==
    /\ BookTurn
    /\ tabs' = p
    /\ toBook' = toBook \o commands
    /\ mishaps' = mishaps \cup (IF SheetsUnread THEN {"unread"} ELSE {})
    /\ UNCHANGED <<book, fromBook, aimed>>

\* _setPart of a tab
ClickSheetTab(i) ==
    /\ asking.kind = "none" /\ i \in Range(tabs.bar)
    /\ SheetCommand(SetSheet(tabs, i), PartSent(tabs, i, NameOf(tabs, i)))
    /\ UNCHANGED asking

\* insertPage: the browser's guess
InsertSheetGuess(p, i) == SetSheet([p EXCEPT !.parts = @ + 1], i)

\* insertPage of the menu of a tab: before or after the sheet that is marked
InsertSheetAt(after) ==
    LET i == tabs.at + after
        p == InsertSheetGuess(tabs, i)
    IN /\ asking.kind = "none" /\ tabs.lit = tabs.at /\ HasFresh
       /\ \A k \in DOMAIN toBook : toBook[k][1] # "insert"
       /\ SheetCommand(p, <<<<"insert", i, NameOf(tabs, i), Fresh>>>>
                       \o PartSent([tabs EXCEPT !.parts = @ + 1], i, Fresh))
       /\ UNCHANGED asking

\* The "+" of the toolbar: at the end, counted in tabs.
InsertSheetAtEnd ==
    LET i == Len(tabs.bar)
    IN /\ asking.kind = "none" /\ HasFresh
       /\ \A k \in DOMAIN toBook : toBook[k][1] # "insert"
       /\ BookTurn
       /\ tabs' = InsertSheetGuess(tabs, i)
       /\ toBook' = toBook \o <<<<"insert", i, NoSheet, Fresh>>>>
                           \o PartSent([tabs EXCEPT !.parts = @ + 1], i, Fresh)
       /\ mishaps' = mishaps \cup (IF SheetsUnread THEN {"unread"} ELSE {})
                             \cup (IF tabs.hidden # {} THEN {"hidden"} ELSE {})
       /\ UNCHANGED <<book, fromBook, aimed, asking>>

\* RemoveTable.run: the dialog keeps the number, and shows the name
AskToRemove ==
    /\ asking.kind = "none" /\ tabs.parts > Cardinality(tabs.hidden) + 1
    /\ BookTurn
    /\ asking' = [kind |-> "remove", number |-> tabs.at, name |-> NameOf(tabs, tabs.at)]
    /\ mishaps' = mishaps \cup (IF SheetsUnread THEN {"unread"} ELSE {})
    /\ UNCHANGED <<book, toBook, fromBook, tabs, aimed>>

\* With a slip: the number goes on counted from 1.
RemovedNumberFrom1 == asking.number + 1

\* RemoveTable: the OK of the dialog
RemovedNumber == asking.number

\* deletePage: the browser's guess
RemoveSheetGuess(p, i) ==
    IF p.parts = 1 \/ p.parts <= Cardinality(p.hidden) + 1 THEN p
    ELSE LET q == [p EXCEPT !.parts = @ - 1]
         IN SetSheet([q EXCEPT !.at = IF p.at >= q.parts THEN p.at - 1 ELSE p.at], i)

ConfirmRemoval ==
    LET i == RemovedNumber
        q == RemoveSheetGuess(tabs, i)
    IN /\ asking.kind = "remove"
       /\ SheetCommand(q, <<<<"remove", i, asking.name>>>>
                       \o (IF q = tabs THEN <<>> ELSE PartSent([tabs EXCEPT !.parts = @ - 1], i, NoSheet)))
       /\ asking' = NotAsking

Dismiss == asking.kind # "none" /\ asking' = NotAsking
           /\ UNCHANGED <<book, toBook, fromBook, tabs, aimed, bookTurns, mishaps>>

\* hidePage of the menu of the tab that was pressed, and so is shown
HideSheet ==
    /\ asking.kind = "none" /\ tabs.parts - Cardinality(tabs.hidden) > 1
    /\ SheetCommand(tabs, <<<<"hide", tabs.at, NameOf(tabs, tabs.at)>>>>)
    /\ UNCHANGED asking

\* showPage, by name
ShowSheet(i) ==
    /\ asking.kind = "none" /\ i \in tabs.hidden
    /\ SheetCommand(tabs, <<<<"show", i, NameOf(tabs, i)>>>>)
    /\ UNCHANGED asking

\* newAnnotation: a note is being written on the sheet that is shown
BeginNote ==
    /\ asking.kind = "none" /\ tabs.draft = NoSheet
    /\ SheetCommand([tabs EXCEPT !.draft = NameOf(tabs, tabs.at)], <<>>)
    /\ UNCHANGED asking

\* _onAnnotationSave: it is inserted where the cursor of the view is by now
SaveNote ==
    /\ asking.kind = "none" /\ tabs.draft # NoSheet /\ HasFresh
    /\ BookTurn
    /\ tabs' = [tabs EXCEPT !.draft = NoSheet]
    /\ toBook' = Append(toBook, <<"note", tabs.at, tabs.draft, Fresh>>)
    /\ mishaps' = mishaps \cup (IF NameOf(tabs, tabs.at) # tabs.draft THEN {"draft"} ELSE {})
                          \cup (IF SheetsUnread THEN {"unread"} ELSE {})
    /\ UNCHANGED <<book, fromBook, aimed, asking>>

-----------------------------------------------------------------------------

SheetsNext ==
    \/ KitObeys
    \/ \E i \in 0..Cardinality(AllSheets) : OthersInsertSheet(i)
    \/ \E s \in AllSheets : OthersRemoveSheet(s) \/ OthersHideSheet(s)
    \/ \E n \in book.notes : OthersDeleteNote(n)
    \/ KitInvalidatesHeaders
    \/ SheetsReceive
    \/ \E i \in 0..Cardinality(AllSheets) : ClickSheetTab(i) \/ ShowSheet(i)
    \/ \E after \in {0, 1} : InsertSheetAt(after)
    \/ InsertSheetAtEnd
    \/ AskToRemove
    \/ ConfirmRemoval
    \/ Dismiss
    \/ HideSheet
    \/ BeginNote
    \/ SaveNote

SheetsSpec == SheetsInit /\ [][SheetsNext]_sheetsVars

-----------------------------------------------------------------------------
(* Properties.                                                             *)

SheetsQuiet == toBook = <<>> /\ fromBook = <<>>

\* When nothing is under way the tabs are the sheets that are not hidden, in
\* the kit's order, and the one that is marked is the one the kit shows to
\* us, whatever the browser guessed of its own commands and others did at
\* the same time (Control.Tabs.js:222, Parts.js:186, CalcTileLayer.js:366).
TabsAreTheSheets ==
    SheetsQuiet /\ "unread" \notin mishaps =>
        /\ tabs.names = book.order
        /\ tabs.bar = VisibleTabs(Len(book.order), HiddenNumbers(book))
        /\ NameOf(tabs, tabs.at) = book.at
        /\ tabs.lit = tabs.at

\* A command reaches the sheet whose name the user saw when he gave it,
\* although it goes by number: not if what he saw was out of date, or became
\* so while the dialog was open (RemoveTable.js:18, Parts.js:231).
CommandsMeetTheirSheet ==
    mishaps \cap {"unread", "draft", "hidden"} = {} /\ aimed.meant # NoSheet
    /\ aimed.met # NoSheet
        => aimed.meant = aimed.met

\* The notes on the map are those of the sheet that is shown, unless a status
\* moved the view or the numbers of the sheets, by which the notes are kept
\* (CalcTileLayer.js:171, 412).
NotesAreTheSheets ==
    SheetsQuiet /\ mishaps \cap {"unread", "moved", "numbers", "missing"} = {} =>
        tabs.shown = {n[2] : n \in {m \in book.notes : m[1] = book.at}}

\* A tab that is scrolled into view is the one that is marked, where no
\* hidden sheet comes before it (Control.Tabs.js:322).
SelectedTabIsSeen ==
    SheetsQuiet /\ "unread" \notin mishaps /\ tabs.seen # NoNumber
    /\ (\A i \in tabs.hidden : i > tabs.at)
        => tabs.seen = tabs.lit

=============================================================================
