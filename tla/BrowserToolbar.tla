--------------------------- MODULE BrowserToolbar ---------------------------
(***************************************************************************)
(* The tool bar, the menu bar and the formula bar: which buttons can be    *)
(* pressed, and which are checked, as the kit reports the states of its    *)
(* commands and the server the user's permission; and what a press sends.  *)
(*                                                                         *)
(* The tables of buttons stand for a few kinds of button: one with a       *)
(* command for every type of document ("bold"), one with another command   *)
(* in spreadsheets ("leftpara"), one that is never disabled ("undo"), and  *)
(* three that have no command of their own ("fontcolor", "save",           *)
(* "repair").                                                              *)
(***************************************************************************)
EXTENDS Integers, Sequences, SequencesExt, FiniteSetsExt

CONSTANTS Pages,          \* how many pages a text document has
          MaxBarTurns,    \* bound: what the kit and the server change, and what the user opens
          MaxBlurs        \* bound: the timers of the formula bar at a time

VARIABLES
    core,        \* the kit: type of the document, state of each command, current page
    barIn,       \* messages to the browser
    barOut,      \* what the browser asks of the kit
    bar,         \* the bars in the browser, see ToolbarTypeOK
    barTurns,    \* how much of the bound is used up
    odd          \* history: the named holes that are open

barVars == <<core, barIn, barOut, bar, barTurns, odd>>

Buttons == {"bold", "leftpara", "undo", "fontcolor", "save", "repair"}

\* enabledButtons
AlwaysEnabled == {"undo"}

UnoCommands == {"Bold", "LeftPara", "AlignLeft", "Undo", "CharFontName", "ModifiedStatus", "DocumentRepair"}
NoCommand == "none"
Unknown == "unknown"
FontNames == {"default", "other", "third"}

\* The states that the kit reports of a command.
StatesOf(c) ==
    CASE c = "CharFontName" -> {"default", "other", "disabled"}
      [] c = "Undo" -> {"enabled", "disabled"}
      [] c \in {"ModifiedStatus", "DocumentRepair"} -> {"true", "false"}
      [] OTHER -> {"true", "false", "disabled"}

States == UNION {StatesOf(c) : c \in UnoCommands}

\* The commands that the kit has in a document of this type.
CommandsOf(type) == UnoCommands \ {IF type = "spreadsheet" THEN "LeftPara" ELSE "AlignLeft"}

\* The values the variables take.
ToolbarTypeOK ==
    /\ core.type \in {"none", "text", "spreadsheet"} /\ core.page \in 0..Pages - 1
    /\ \A c \in UnoCommands : core.state[c] \in StatesOf(c) /\ bar.items[c] \in StatesOf(c) \cup {Unknown}
    /\ bar.type \in {"none", "text", "spreadsheet"} /\ bar.permission \in {"none", "edit", "readonly"}
    /\ bar.enabled \subseteq Buttons /\ bar.checked \subseteq Buttons
    /\ bar.fonts \subseteq FontNames /\ bar.fontsOn \in BOOLEAN /\ bar.haveFonts \in BOOLEAN
    /\ bar.prev \in BOOLEAN /\ bar.next \in BOOLEAN
    /\ bar.menu \subseteq UnoCommands /\ bar.open \in {"none", "menu", "popup"}
    /\ bar.focused \in BOOLEAN /\ bar.accept \in BOOLEAN /\ bar.blurs \in 0..MaxBlurs
    /\ bar.sent \subseteq {"disabled", "reader"}
    /\ odd \subseteq {"sheet", "always", "unchecked", "reader", "fonts", "early", "page", "open", "late", "key", "saved"}

ToolbarInit ==
    /\ core = [type |-> "none", page |-> 0,
               state |-> [c \in UnoCommands |-> IF c = "CharFontName" THEN "default"
                                                ELSE IF c = "Undo" THEN "disabled" ELSE "false"]]
    /\ barIn = <<>> /\ barOut = <<>>
    /\ bar = [type |-> "none", permission |-> "none", items |-> [c \in UnoCommands |-> Unknown],
              enabled |-> {"bold", "save"}, checked |-> {}, fonts |-> {"default"}, fontsOn |-> TRUE,
              haveFonts |-> FALSE, prev |-> TRUE, next |-> TRUE, menu |-> {}, open |-> "none",
              focused |-> FALSE, accept |-> FALSE, blurs |-> 0, sent |-> {}]
    /\ barTurns = 0 /\ odd = {}

-----------------------------------------------------------------------------
(* The kit and the server.                                                 *)

StateMsg(c, v) == [kind |-> "state", cmd |-> c, value |-> v]

\* The document opens: its status, with the permission of this user.
CoreOpens ==
    /\ core.type = "none"
    /\ \E t \in {"text", "spreadsheet"}, p \in {"edit", "readonly"} :
        /\ core' = [core EXCEPT !.type = t]
        /\ barIn' = Append(barIn, [kind |-> "status", type |-> t, perm |-> p])
    /\ UNCHANGED <<barOut, bar, barTurns, odd>>

BarTurn == core.type # "none" /\ barTurns < MaxBarTurns /\ barTurns' = barTurns + 1

\* The state of a command changes, and the kit reports it.
CoreChanges ==
    /\ BarTurn
    /\ \E c \in CommandsOf(core.type) : \E v \in StatesOf(c) \ {core.state[c]} :
        /\ core' = [core EXCEPT !.state[c] = v]
        /\ barIn' = Append(barIn, StateMsg(c, v))
    /\ UNCHANGED <<barOut, bar, odd>>

\* The cursor moves to another page.
CoreTurnsPage ==
    /\ BarTurn /\ core.type = "text"
    /\ \E p \in 0..Pages - 1 \ {core.page} :
        /\ core' = [core EXCEPT !.page = p]
        /\ barIn' = Append(barIn, [kind |-> "page", page |-> p])
    /\ UNCHANGED <<barOut, bar, odd>>

\* The server gives the user another permission.
ServerPermits ==
    /\ BarTurn
    /\ \E p \in {"edit", "readonly"} : barIn' = Append(barIn, [kind |-> "perm", perm |-> p])
    /\ UNCHANGED <<core, barOut, bar, odd>>

\* The kit answers: getunostates with every state, commandvalues with the fonts.
CoreAnswers ==
    /\ barOut # <<>> /\ barOut' = Tail(barOut)
    /\ barIn' = barIn \o
         IF Head(barOut) = "states"
         THEN SetToSeq({StateMsg(c, core.state[c]) : c \in CommandsOf(core.type)})
         ELSE <<[kind |-> "fonts"]>>
    /\ UNCHANGED <<core, bar, barTurns, odd>>

-----------------------------------------------------------------------------
(* What the browser sends.                                                 *)

\* A message to the server, as what it is to this user.
SendsAs(b, c) ==
    [b EXCEPT !.sent = @ \cup (IF b.permission # "edit" THEN {"reader"}
                               ELSE IF c # NoCommand /\ b.items[c] = "disabled" THEN {"disabled"} ELSE {})]

SendUnoCommand(b, c) == IF b.permission = "edit" THEN SendsAs(b, c) ELSE b

\* toggleCommandState: the prefix .uno: and the same gate once more.
ToggleCommandState(b, c) == IF b.permission = "edit" THEN SendUnoCommand(b, c) ELSE b

\* With a slip: the list of fonts relies on being disabled for readers.
ApplyFontAlways(b) == SendsAs(b, "CharFontName")

ApplyFont(b) == IF b.permission = "edit" THEN SendsAs(b, "CharFontName") ELSE b

\* save has no gate: the button is its only one.
SaveDocument(b) == SendsAs(b, NoCommand)

OnColorPick(b) == IF b.permission # "edit" THEN b ELSE SendUnoCommand(b, NoCommand)

CellEnterString(b) == SendUnoCommand(b, NoCommand)

-----------------------------------------------------------------------------
(* The states of the commands.                                             *)

\* The command of a button, as the press of the button takes it.
UnoOf(type, i) ==
    CASE i = "bold" -> "Bold"
      [] i = "undo" -> "Undo"
      [] i = "leftpara" -> IF type = "spreadsheet" THEN "AlignLeft" ELSE "LeftPara"
      [] OTHER -> NoCommand

\* The same as onUpdatePermission takes it: in a spreadsheet only unosheet counts.
UnosheetOf(type, i) == IF type = "spreadsheet" /\ i # "leftpara" THEN NoCommand ELSE UnoOf(type, i)

\* The button of a command.
UnoCmdToToolbarId(type, c) == {i \in Buttons : UnoOf(type, i) = c}

Switch(b, is, on) == [b EXCEPT !.enabled = IF on THEN @ \cup is ELSE @ \ is]

\* _onStateChanged of the state handler.
OnStateChanged(b, c, v) == [b EXCEPT !.items[c] = v]

GetItemValue(b, c) == IF c = NoCommand THEN Unknown ELSE b.items[c]

\* CharFontName: the list, and the buttons of the colours.
OnFontState(b, v) ==
    IF v = "disabled" THEN [Switch(b, {"fontcolor"}, FALSE) EXCEPT !.fontsOn = FALSE]
    ELSE [Switch(b, {"fontcolor"}, TRUE) EXCEPT !.fontsOn = TRUE, !.fonts = @ \cup {v}]

\* The commands with a branch of their own.
OnSpecialState(b, c, v) ==
    CASE c = "CharFontName" -> OnFontState(b, v)
      [] c = "ModifiedStatus" -> IF v = "true" THEN Switch(b, {"save"}, TRUE) ELSE b
      [] c = "DocumentRepair" -> Switch(b, {"repair"}, v = "true")
      [] OTHER -> b

\* With a slip: a state of true or false enables the button of a reader too.
ButtonStateForAll(b, is, v) ==
    CASE v = "true" -> [Switch(b, is, TRUE) EXCEPT !.checked = @ \cup is]
      [] v = "false" -> [Switch(b, is, TRUE) EXCEPT !.checked = @ \ is]
      [] v = "disabled" /\ b.permission = "edit" -> [Switch(b, is, FALSE) EXCEPT !.checked = @ \ is]
      [] OTHER -> IF b.permission = "edit" THEN Switch(b, is, TRUE) ELSE b

\* With a slip: a button that the kit disables stays checked.
ButtonStateChecked(b, is, v) ==
    LET on == Switch(b, is, v # "disabled") IN
    CASE v = "true" -> [(IF b.permission = "edit" THEN on ELSE b) EXCEPT !.checked = @ \cup is]
      [] v = "false" -> [(IF b.permission = "edit" THEN on ELSE b) EXCEPT !.checked = @ \ is]
      [] OTHER -> IF b.permission = "edit" THEN on ELSE b

ButtonState(b, is, v) ==
    LET on == Switch(b, is, v # "disabled") IN
    CASE v = "true" -> [(IF b.permission = "edit" THEN on ELSE b) EXCEPT !.checked = @ \cup is]
      [] v = "false" -> [(IF b.permission = "edit" THEN on ELSE b) EXCEPT !.checked = @ \ is]
      [] v = "disabled" /\ b.permission = "edit" -> [on EXCEPT !.checked = @ \ is]
      [] OTHER -> IF b.permission = "edit" THEN on ELSE b

OnCommandStateChanged(b, c, v) ==
    ButtonState(OnSpecialState(OnStateChanged(b, c, v), c, v), UnoCmdToToolbarId(b.type, c), v)

\* The holes that a state opens or closes: a reader is given a button back, a button stays
\* checked because the state came to a reader, a list grows before it is filled.
OddAfterState(b, c, v) ==
    LET edits == b.permission = "edit"
        closed == (IF c = "Bold" /\ edits THEN {"sheet"} ELSE {})
                  \cup (IF c = "Undo" /\ edits THEN {"always"} ELSE {})
                  \cup (IF c = "CharFontName" THEN {"fonts"} ELSE {})
        gives == (c = "CharFontName" /\ v # "disabled") \/ (c \in {"ModifiedStatus", "DocumentRepair"} /\ v = "true")
    IN  (odd \ closed)
        \cup (IF gives /\ ~edits THEN {"reader"} ELSE {})
        \cup (IF v = "disabled" /\ ~edits /\ UnoCmdToToolbarId(b.type, c) \cap b.checked # {} THEN {"unchecked"} ELSE {})
        \cup (IF c = "CharFontName" /\ v \notin b.fonts \cup {"disabled"} THEN {"early"} ELSE {})
        \cup (IF b.open = "menu" /\ v = "disabled" /\ c \notin b.menu THEN {"open"} ELSE {})

-----------------------------------------------------------------------------
(* The permission.                                                         *)

\* With a slip: every button is enabled for an editor.
KeepNoneDisabled(b) == {}

\* The buttons that stay disabled because the kit disabled them.
KeepDisabled(b) == {i \in Buttons : GetItemValue(b, UnosheetOf(b.type, i)) = "disabled"}

EnabledAfter(b, p) ==
    IF p = "edit" THEN b.enabled \cup (Buttons \ KeepDisabled(b)) \cup AlwaysEnabled
    ELSE b.enabled \cap AlwaysEnabled

\* onUpdatePermission: the buttons, the list boxes, previous and next page; the menu bar is
\* hidden from readers.
OnUpdatePermission(b, p) ==
    LET edits == p = "edit" IN
    [b EXCEPT !.permission = p, !.enabled = EnabledAfter(b, p), !.fontsOn = edits,
              !.prev = edits, !.next = edits, 
              !.open = IF @ = "menu" /\ ~edits THEN "none" ELSE @, !.menu = IF edits THEN @ ELSE {}]

\* The holes that a permission opens or closes: an editor is given what the kit disabled.
OddAfterPermission(b, p) ==
    LET edits == p = "edit"
        disabled == {i \in Buttons : GetItemValue(b, UnoOf(b.type, i)) = "disabled"}
        given == EnabledAfter(b, p)
    IN  (odd \ (IF edits THEN {"reader"} ELSE {"reader", "open"}))
        \cup (IF edits /\ "bold" \in disabled \cap given THEN {"sheet"} ELSE {})
        \cup (IF "undo" \in given /\ "undo" \in disabled THEN {"always"} ELSE {})
        \cup (IF edits /\ b.items["CharFontName"] = "disabled" THEN {"fonts"} ELSE {})
        \cup {"page"}

\* _onRefresh of the menu bar: it is built once, and asks for the states of its commands.
OnRefresh(b) == IF b.permission = "none" THEN <<"states">> ELSE <<>>

-----------------------------------------------------------------------------
(* The lists and the pages.                                                *)

\* With a slip: the list is filled when it has no entry.
UpdateEmptyCommandValues(b) ==
    [b EXCEPT !.haveFonts = TRUE, !.fonts = IF Cardinality(@) = 0 THEN FontNames ELSE @]

\* updateCommandValues: the list is filled when it has one entry, the one it is created with.
UpdateCommandValues(b) ==
    [b EXCEPT !.haveFonts = TRUE, !.fonts = IF Cardinality(@) = 1 THEN FontNames ELSE @]

\* With a slip: the last page is taken to be the number of pages.
OnUpdatePartsPastEnd(b, p) == [b EXCEPT !.prev = p # 0, !.next = p # Pages]

OnUpdateParts(b, p) == [b EXCEPT !.prev = p # 0, !.next = p # Pages - 1]

-----------------------------------------------------------------------------
(* What the browser does with a message.                                   *)

BarReceives ==
    /\ barIn # <<>> /\ barIn' = Tail(barIn)
    /\ LET m == Head(barIn) IN
        CASE m.kind = "status" ->
                LET b == [bar EXCEPT !.type = m.type] IN
                /\ bar' = OnUpdatePermission(b, m.perm)
                /\ barOut' = barOut \o OnRefresh(bar) \o <<"fonts">>
                /\ odd' = OddAfterPermission(b, m.perm)
          [] m.kind = "perm" ->
                /\ bar' = OnUpdatePermission(bar, m.perm)
                /\ barOut' = barOut \o OnRefresh(bar)
                /\ odd' = OddAfterPermission(bar, m.perm)
          [] m.kind = "state" ->
                /\ bar' = OnCommandStateChanged(bar, m.cmd, m.value)
                /\ odd' = OddAfterState(bar, m.cmd, m.value)
                /\ UNCHANGED barOut
          [] m.kind = "page" -> bar' = OnUpdateParts(bar, m.page) /\ odd' = odd \ {"page"} /\ UNCHANGED barOut
          [] m.kind = "fonts" -> bar' = UpdateCommandValues(bar) /\ UNCHANGED <<barOut, odd>>
    /\ UNCHANGED <<core, barTurns>>

-----------------------------------------------------------------------------
(* The user.                                                               *)

Uses(b) == bar' = b /\ UNCHANGED <<core, barIn, barOut, barTurns, odd>>

Opens(b) == BarTurn /\ bar' = b /\ UNCHANGED <<core, barIn, barOut, odd>>

\* onClick of a button: nothing when it is disabled.
OnClick(i) ==
    /\ i \in bar.enabled
    /\ odd' = IF i = "save" /\ bar.permission # "edit" THEN odd \cup {"saved"} ELSE odd
    /\ UNCHANGED <<core, barIn, barOut, barTurns>>
    /\ bar' = CASE UnoOf(bar.type, i) # NoCommand -> ToggleCommandState(bar, UnoOf(bar.type, i))
                [] i = "save" -> SaveDocument(bar)
                [] i = "fontcolor" -> OnColorPick(bar)
                [] OTHER -> bar

OnFontSelect == bar.fontsOn /\ Uses(ApplyFont(bar))

\* _beforeShow: the items of the menu that are disabled, as it opens; hideAllToolbarPopup
\* closes what the tool bar has open.
BeforeShow ==
    /\ bar.permission = "edit" /\ bar.open # "menu"
    /\ bar' = [bar EXCEPT !.open = "menu", !.menu = {c \in UnoCommands : GetItemValue(bar, c) = "disabled"}]
    /\ odd' = odd \ {"open"}
    /\ BarTurn
    /\ UNCHANGED <<core, barIn, barOut>>

\* _onItemSelected, _sendCommand: the menu closes, the command goes out.
OnItemSelected(c) ==
    /\ bar.open = "menu" /\ c \notin bar.menu /\ c \in {"Bold", "Undo"}
    /\ Uses([SendUnoCommand(bar, c) EXCEPT !.open = "none", !.menu = {}])

\* A button with a table of borders, icons, shapes or effects opens it over the document, and it
\* stays open when the permission changes.
OpenPopup == bar.permission = "edit" /\ bar.open = "none" /\ Opens([bar EXCEPT !.open = "popup"])

\* setBorderStyle, setConditionalFormatIconSet, insertTable: the command goes out, the table closes.
PickInTable == bar.open = "popup" /\ Uses([SendUnoCommand(bar, NoCommand) EXCEPT !.open = "none"])

\* The formula bar: its buttons to accept and to cancel are shown while it is edited.
OnFormulaBarFocus ==
    /\ bar.type = "spreadsheet" /\ bar.permission = "edit" /\ ~bar.focused
    /\ Opens([bar EXCEPT !.focused = TRUE, !.accept = TRUE])

\* A blur hides the buttons 250 ms later, after a click on them has been handled.
OnFormulaBarBlur ==
    /\ bar.focused /\ bar.blurs < MaxBlurs
    /\ Uses([bar EXCEPT !.focused = FALSE, !.blurs = @ + 1])

\* With a slip: the buttons of the sum come back and the others stay.
FormulaBarBlurredHalf(b) == [b EXCEPT !.blurs = @ - 1]

FormulaBarBlurred(b) == [b EXCEPT !.blurs = @ - 1, !.accept = FALSE]

FormulaBarTimer ==
    /\ bar.blurs > 0 /\ bar' = FormulaBarBlurred(bar)
    /\ odd' = IF bar.focused THEN odd \cup {"late"} ELSE odd \ {"late"}
    /\ UNCHANGED <<core, barIn, barOut, barTurns>>

\* A key in the formula bar.
OnFormulaInput == bar.focused /\ bar.permission = "edit" /\ Uses(CellEnterString(bar))

\* The buttons: the map gets the focus, and the buttons are hidden at once.
AcceptFormula ==
    /\ bar.accept /\ (bar.focused => bar.blurs < MaxBlurs)
    /\ bar' = [SendsAs(bar, NoCommand) EXCEPT !.accept = FALSE, !.focused = FALSE,
                                              !.blurs = IF bar.focused THEN @ + 1 ELSE @]
    /\ odd' = IF bar.permission = "edit" THEN odd ELSE odd \cup {"key"}
    /\ UNCHANGED <<core, barIn, barOut, barTurns>>

CancelFormula ==
    /\ bar.accept /\ (bar.focused => bar.blurs < MaxBlurs)
    /\ Uses([SendUnoCommand(bar, NoCommand) EXCEPT !.accept = FALSE, !.focused = FALSE,
                                                   !.blurs = IF bar.focused THEN @ + 1 ELSE @])

BarUser ==
    \/ \E i \in Buttons : OnClick(i)
    \/ OnFontSelect
    \/ BeforeShow
    \/ \E c \in UnoCommands : OnItemSelected(c)
    \/ OpenPopup
    \/ PickInTable
    \/ OnFormulaBarFocus
    \/ OnFormulaBarBlur
    \/ FormulaBarTimer
    \/ OnFormulaInput
    \/ AcceptFormula
    \/ CancelFormula

ToolbarNext ==
    \/ CoreOpens
    \/ CoreChanges
    \/ CoreTurnsPage
    \/ ServerPermits
    \/ CoreAnswers
    \/ BarReceives
    \/ bar.type # "none" /\ BarUser

ToolbarSpec == ToolbarInit /\ [][ToolbarNext]_barVars

-----------------------------------------------------------------------------
(* Properties.                                                             *)

BarQuiet == core.type # "none" /\ bar.type # "none" /\ barIn = <<>> /\ barOut = <<>>

CommandButtons == {"bold", "leftpara", "undo"}

\* When nothing is on its way, an editor can press a button exactly when the kit has not disabled
\* its command, whatever order states and permissions came in - unless the permission came after
\* the state: in a spreadsheet onUpdatePermission looks at unosheet only ("sheet"), and it never
\* looks for undo and redo ("always").
ButtonsFollowKit ==
    BarQuiet /\ bar.permission = "edit" =>
        \A i \in CommandButtons :
            \/ (i \in bar.enabled) = (core.state[UnoOf(bar.type, i)] # "disabled")
            \/ i = "bold" /\ "sheet" \in odd
            \/ i = "undo" /\ "always" \in odd

\* A button is checked exactly when its command is on - unless the kit disabled the command while
\* the user was a reader ("unchecked").
ChecksFollowKit ==
    BarQuiet =>
        \A i \in CommandButtons :
            (i \in bar.checked) = (core.state[UnoOf(bar.type, i)] = "true") \/ "unchecked" \in odd

\* A reader has no button but undo and redo - except those that a state gives back without a look
\* at the permission: the colours, save and repair ("reader").
ReadersHaveNoButtons ==
    bar.permission = "readonly" =>
        bar.enabled \subseteq AlwaysEnabled \cup (IF "reader" \in odd THEN {"fontcolor", "save", "repair"} ELSE {})

\* A reader sends nothing that changes the document: what a state gives back is stopped by the
\* second gate, but for the button to save ("saved") and the key of the formula bar's button
\* ("key"), which have none.
ReadersSendNothing == "reader" \in bar.sent => odd \cap {"saved", "key"} # {}

\* A command that the browser knows to be disabled is sent only through a button that the
\* permission gave back ("sheet", "always"), a list that it gave back ("fonts"), or a menu that was
\* open when the state came ("open").
NothingDisabledIsSent ==
    [][ "disabled" \in bar'.sent \ bar.sent => odd \cap {"sheet", "always", "fonts", "open"} # {} ]_barVars

\* The list of fonts is complete once the fonts have been received - unless a font that the list
\* does not have was reported first ("early").
FontListIsComplete == bar.haveFonts => FontNames \subseteq bar.fonts \/ "early" \in odd

\* The buttons to the previous and the next page agree with the page - until the next page, when
\* a permission has switched them ("page").
PageButtonsFit ==
    BarQuiet /\ bar.type = "text" /\ "page" \notin odd =>
        bar.prev = (core.page > 0) /\ bar.next = (core.page < Pages - 1)

\* While nothing is pending, the buttons of the formula bar are shown exactly while it has the
\* focus - unless the timer of an earlier blur hid them ("late") or a button did.
FormulaButtonsAreShown == bar.blurs = 0 /\ "late" \notin odd => bar.accept = bar.focused

=============================================================================
