---------------------------- MODULE BrowserMenus ----------------------------
(***************************************************************************)
(* The menu bar, the context menu of the document, and the hot keys that   *)
(* both register: how a table of entries becomes a menu, what is added to  *)
(* it later by the kit, the host and the users that come and go, and what  *)
(* a choice, a hot key or a late context menu does.                        *)
(*                                                                         *)
(* A table is a sequence of "item" (shown), "gone" (left out: an option of *)
(* the host, a disabled or unlisted command) and "sep".  What happens to a *)
(* menu once it is built does not depend on its table, so it is followed   *)
(* for the table of one item only.                                         *)
(***************************************************************************)
EXTENDS Integers, Sequences, SequencesExt, FiniteSetsExt

CONSTANTS MenuTables,      \* the tables, sequences of "item", "gone" and "sep"
          MaxMenuTurns,    \* bound: what kit, server, host, user and the other users do
          MaxMenuClicks    \* bound: clicks with the right button

VARIABLES
    shelf,       \* table, type and format of the document, what the kit has on, users there
    menuIn,      \* messages to the browser
    menuOut,     \* what the browser asks of the kit
    menu,        \* the browser: see MenusTypeOK
    menuTurns,   \* how much of the bound is used up
    lapses       \* history: the named holes that have been met

menusVars == <<shelf, menuIn, menuOut, menu, menuTurns, lapses>>

Strokes == {"question", "ctrlquestion", "ctrlk", "ctrlaltc"}
MenuActions == {"keyboard-shortcuts", "hyperlink", "insertcomment", "header", "none"}

\* The values the variables take.
MenusTypeOK ==
    /\ shelf.table \in MenuTables \cup {<<>>} /\ shelf.type \in {"none", "text", "spreadsheet"}
    /\ shelf.odf \in BOOLEAN /\ shelf.header \in BOOLEAN /\ shelf.users \in 0..2
    /\ menu.perm \in {"none", "edit", "readonly"} /\ menu.built \in BOOLEAN /\ menu.button \in BOOLEAN
    /\ menu.languages \in 0..2 /\ menu.styles \in 0..2 /\ menu.repair \in BOOLEAN /\ menu.users \in 0..2
    /\ menu.header \in {"unknown", "on", "off"} /\ menu.bar \in {"closed", "open", "asking"} /\ menu.checked \in BOOLEAN
    /\ menu.clicks \in 0..MaxMenuClicks /\ menu.context \in 0..MaxMenuClicks /\ menu.contextAt \in 0..MaxMenuClicks
    /\ menu.listening \in BOOLEAN /\ menu.ran \in MenuActions
    /\ menuTurns \in 0..MaxMenuTurns
    /\ lapses \subseteq {"again", "host", "stale", "typo", "ungated", "late"}

MenusInit ==
    /\ shelf = [table |-> <<>>, type |-> "none", odf |-> FALSE, header |-> FALSE, users |-> 0]
    /\ menuIn = <<>> /\ menuOut = <<>>
    /\ menu = [perm |-> "none", built |-> FALSE, button |-> FALSE, layout |-> <<>>, contextLayout |-> <<>>,
               languages |-> 0, styles |-> 0, repair |-> TRUE, users |-> 0,
               header |-> "unknown", bar |-> "closed", checked |-> FALSE, clicks |-> 0,
               context |-> 0, contextAt |-> 0, listening |-> FALSE, ran |-> "none", stroke |-> "none"]
    /\ menuTurns = 0 /\ lapses = {}

-----------------------------------------------------------------------------
(* From a table to a menu.                                                 *)

\* The next entry of the menu bar, and the last one that was taken.
AddEntry(acc, kind) ==
    IF kind = "gone" \/ (kind = "sep" /\ (acc.list = <<>> \/ acc.last = "sep")) THEN acc
    ELSE [list |-> Append(acc.list, kind), last |-> kind]

\* With a slip: the separator at the end stays.
CreateMenuOpenEnd(table) == FoldLeft(AddEntry, [list |-> <<>>, last |-> "none"], table).list

\* _createMenu: no separator first, none after another, none last.
CreateMenu(table) ==
    LET list == FoldLeft(AddEntry, [list |-> <<>>, last |-> "none"], table).list
    IN  IF list # <<>> /\ Last(list) = "sep" THEN Front(list) ELSE list

\* The next entry of the context menu: a separator only right after a text.
AddContextEntry(acc, kind) ==
    CASE kind = "gone" -> acc
      [] kind = "sep" -> [list |-> IF acc.text THEN Append(acc.list, kind) ELSE acc.list, text |-> FALSE]
      [] OTHER -> [list |-> Append(acc.list, kind), text |-> TRUE]

\* _createContextMenuStructure.
CreateContextMenuStructure(table) ==
    LET list == FoldLeft(AddContextEntry, [list |-> <<>>, text |-> FALSE], table).list
    IN  IF list # <<>> /\ Last(list) = "sep" THEN Front(list) ELSE list

-----------------------------------------------------------------------------
(* The permission, and what follows from it.                               *)

\* The requests of a new layer and of sendInitUNOCommands: the languages, and with the values for
\* the tool bar the page styles.  They are one request here, and their answers one message.
InitUNOCommands == <<"values">>

\* _onRefresh of the menu bar, which is built once, and _onUpdatePermission of the context menu,
\* whose listeners are added with the first permission to edit and never removed.
OnPermissionUpdated(m, p) ==
    [m EXCEPT !.perm = p, !.built = TRUE, !.layout = CreateMenu(shelf.table),
              !.contextLayout = CreateContextMenuStructure(shelf.table),
              !.listening = @ \/ p = "edit", !.bar = IF p # "edit" /\ @ = "open" THEN "closed" ELSE @]

\* setPermission: a document that is to be edited as ODF is first shown to read, with a button.
PermissionSet(m, p) ==
    IF p = "edit" /\ shelf.odf THEN OnPermissionUpdated([m EXCEPT !.button = TRUE], "readonly")
    ELSE OnPermissionUpdated(m, p)

\* onAdd of the layer: what is asked of the kit, and the permission of the document.
DocumentOpens ==
    /\ shelf.type = "none"
    /\ \E table \in MenuTables, t \in {"text", "spreadsheet"}, odf, on \in BOOLEAN :
        shelf' = [shelf EXCEPT !.table = table, !.type = t, !.odf = odf, !.header = on, !.users = 1]
    /\ UNCHANGED <<menuIn, menuOut, menu, menuTurns, lapses>>

LayerIsAdded ==
    /\ shelf.type # "none" /\ ~menu.built
    /\ \E p \in {"edit", "readonly"} : menu' = PermissionSet(menu, p)
    /\ menuOut' = InitUNOCommands
    /\ menuIn' = <<[kind |-> "view", users |-> 1]>>
    /\ UNCHANGED <<shelf, menuTurns, lapses>>

Live == menu.built /\ shelf.table = <<"item">>

MenuTurn == Live /\ menuTurns < MaxMenuTurns /\ menuTurns' = menuTurns + 1

\* The button to edit as ODF: _enterEditMode, which asks for everything once more.
EditAsOdf ==
    /\ Live /\ menu.button
    /\ menu' = OnPermissionUpdated([menu EXCEPT !.button = FALSE], "edit")
    /\ menuOut' = menuOut \o InitUNOCommands
    /\ lapses' = lapses \cup {"again"}
    /\ UNCHANGED <<shelf, menuIn, menuTurns>>

-----------------------------------------------------------------------------
(* The kit, the server, the other users and the host.                      *)

KitAnswersMenu ==
    /\ Live /\ menuOut # <<>> /\ menuOut' = Tail(menuOut)
    /\ menuIn' = Append(menuIn, [kind |-> "values", on |-> shelf.header])
    /\ UNCHANGED <<shelf, menu, menuTurns, lapses>>

\* Somebody switches the header of the page style on or off.
HeaderChanges ==
    /\ MenuTurn
    /\ shelf' = [shelf EXCEPT !.header = ~@]
    /\ menuIn' = Append(menuIn, [kind |-> "header", on |-> ~shelf.header])
    /\ lapses' = IF menu.bar = "closed" THEN lapses ELSE lapses \cup {"stale"}
    /\ UNCHANGED <<menuOut, menu>>

UsersChange ==
    /\ MenuTurn
    /\ \E n \in {shelf.users - 1, shelf.users + 1} \cap 1..2 :
        /\ shelf' = [shelf EXCEPT !.users = n]
        /\ menuIn' = Append(menuIn, [kind |-> "view", users |-> n])
    /\ UNCHANGED <<menuOut, menu, lapses>>

PermissionChanges ==
    /\ MenuTurn
    /\ \E p \in {"edit", "readonly"} : menuIn' = Append(menuIn, [kind |-> "perm", perm |-> p])
    /\ UNCHANGED <<shelf, menuOut, menu, lapses>>

\* Show_Menu_Item and Hide_Menu_Item of the host, here for repair: not in the mode to read.
HostShowsOrHides ==
    /\ MenuTurn /\ menu.perm = "edit"
    /\ menu' = [menu EXCEPT !.repair = ~@]
    /\ lapses' = lapses \cup {"host"}
    /\ UNCHANGED <<shelf, menuIn, menuOut>>

-----------------------------------------------------------------------------
(* What the browser does with a message.                                   *)

Twice(n) == IF n = 2 THEN 2 ELSE n + 1

\* _onInitMenu: the languages are appended to the three menus.  (Twice stands for more.)
OnInitMenu(m) == [m EXCEPT !.languages = Twice(@)]

\* With a slip: the page styles are taken when a header is on only.
OnStyleMenuOfHeaders(m) == IF m.header = "on" THEN [m EXCEPT !.styles = Twice(@)] ELSE m

\* _onStyleMenu: the page styles are appended to the menus of headers and footers.
OnStyleMenu(m) == [m EXCEPT !.styles = Twice(@)]

\* With a slip: a header that is on stays on.
HeaderKnownOnce(m, on) == [m EXCEPT !.header = IF on \/ @ = "on" THEN "on" ELSE "off"]

\* _onStateChanged of the state handler.
HeaderKnown(m, on) == [m EXCEPT !.header = IF on THEN "on" ELSE "off"]

\* With a slip: repair is hidden with the second user, and not shown again.
UpdateUserListCountOnly(m, n) == [m EXCEPT !.users = n, !.repair = @ /\ n <= 1]

\* updateUserListCount: repair is for one who is alone.
UpdateUserListCount(m, n) ==
    [m EXCEPT !.users = n, !.repair = n <= 1]

\* _onContextMenu: nothing unless the user may edit.
OnContextMenu(m, click) ==
    IF m.perm # "edit" THEN m ELSE [m EXCEPT !.context = click, !.contextAt = m.clicks, !.bar = IF @ = "open" THEN "closed" ELSE @]

MenuReceives ==
    /\ Live /\ menuIn # <<>> /\ menuIn' = Tail(menuIn)
    /\ LET msg == Head(menuIn)
           idle == [menu EXCEPT !.ran = "none", !.stroke = "none"]
       IN
        /\ menu' = CASE msg.kind = "values" -> HeaderKnown(OnStyleMenu(OnInitMenu(idle)), msg.on)
                     [] msg.kind = "header" -> HeaderKnown(idle, msg.on)
                     [] msg.kind = "view" -> UpdateUserListCount(idle, msg.users)
                     [] msg.kind = "perm" -> PermissionSet(idle, msg.perm)
                     [] msg.kind = "context" -> OnContextMenu(idle, msg.click)
        /\ lapses' = IF msg.kind = "context" /\ menu.perm = "edit" /\ msg.click # menu.clicks
                     THEN lapses \cup {"late"} ELSE lapses
    /\ UNCHANGED <<shelf, menuOut, menuTurns>>

-----------------------------------------------------------------------------
(* The user.                                                               *)

\* _checkedMenu: whether the page style's entry is checked.
MarkShown(m) == m.header = "on"

HeaderIsComing == \E i \in DOMAIN menuIn : menuIn[i].kind \in {"header", "values"}

\* _beforeShow: the menu opens with the marks of the moment, and the pop-ups of the bars close.
OpenMenuBar ==
    /\ MenuTurn /\ menu.perm = "edit" /\ menu.bar = "closed" /\ menu.header # "unknown"
    /\ menu' = [menu EXCEPT !.bar = "open", !.checked = MarkShown(menu), !.ran = "none", !.stroke = "none"]
    /\ lapses' = IF menu.header = (IF shelf.header THEN "on" ELSE "off") THEN lapses \ {"stale"}
                 ELSE IF HeaderIsComing THEN lapses \cup {"stale"} ELSE lapses
    /\ UNCHANGED <<shelf, menuIn, menuOut>>

\* The kit switches the header as it is told: .uno:InsertPageHeader with a style and On.
SwitchHeader(on) ==
    /\ shelf' = [shelf EXCEPT !.header = on]
    /\ menuIn' = IF on = shelf.header THEN menuIn ELSE Append(menuIn, [kind |-> "header", on |-> on])

\* _sendCommand of a page style: the opposite of the mark, off only after a question.
ChooseHeader ==
    /\ Live /\ menu.bar = "open" /\ menu.styles > 0 /\ menu.perm = "edit"
    /\ IF menu.checked
       THEN menu' = [menu EXCEPT !.bar = "asking"] /\ UNCHANGED <<shelf, menuIn>>
       ELSE menu' = [menu EXCEPT !.bar = "closed", !.stroke = "none", !.ran = "header"] /\ SwitchHeader(TRUE)
    /\ UNCHANGED <<menuOut, menuTurns, lapses>>

\* The question is answered; sendUnoCommand has the gate of the permission.
AnswerHeader ==
    /\ Live /\ menu.bar = "asking"
    /\ \E yes \in BOOLEAN :
        IF yes /\ menu.perm = "edit"
        THEN menu' = [menu EXCEPT !.bar = "closed", !.stroke = "none", !.ran = "header"] /\ SwitchHeader(FALSE)
        ELSE menu' = [menu EXCEPT !.bar = "closed"] /\ UNCHANGED <<shelf, menuIn>>
    /\ UNCHANGED <<menuOut, menuTurns, lapses>>

\* addAllowedCommand: the hot key of an entry, of Ctrl, Alt, Shift and the key; what is neither of
\* the three is not among the keys.  The entry of the help says Ctel in the menu of texts.
HotkeyCommands ==
    LET help == IF shelf.type = "text" THEN "question" ELSE "ctrlquestion"
    IN  [s \in Strokes |-> CASE s = help -> "keyboard-shortcuts"
                             [] s = "ctrlk" -> "hyperlink"
                             [] s = "ctrlaltc" -> "insertcomment"
                             [] OTHER -> "none"]

\* With a slip: every command runs, whatever the permission.
ExecuteAllowedCommandAny(m, c) == c

\* executeAllowedCommand: a command of the kit has the gate of sendUnoCommand; help is for all,
\* and a comment has no gate.
ExecuteAllowedCommand(m, c) == IF c = "hyperlink" /\ m.perm # "edit" THEN "none" ELSE c

\* executeHotkey, when the keys are for the document.
PressHotkey(s) ==
    /\ MenuTurn
    /\ menu' = [menu EXCEPT !.stroke = s, !.ran = ExecuteAllowedCommand(menu, HotkeyCommands[s])]
    /\ lapses' = lapses \cup (IF s = "question" /\ HotkeyCommands[s] # "none" THEN {"typo"} ELSE {})
                        \cup (IF s = "ctrlaltc" /\ menu.perm # "edit" THEN {"ungated"} ELSE {})
    /\ UNCHANGED <<shelf, menuIn, menuOut>>

\* A click on the document: the menu that is open is destroyed, and a right button asks the kit
\* for another.  (Listeners are there once the user may edit; the kit answers in its time.)
OnMouseDownAsks ==
    /\ Live /\ menu.clicks < MaxMenuClicks /\ menu.listening
    /\ menu' = [menu EXCEPT !.clicks = @ + 1, !.context = 0, !.ran = "none", !.stroke = "none", !.bar = IF @ = "open" THEN "closed" ELSE @]
    /\ menuIn' = IF menu.perm = "edit" THEN Append(menuIn, [kind |-> "context", click |-> menu.clicks + 1]) ELSE menuIn
    /\ UNCHANGED <<shelf, menuOut, menuTurns, lapses>>

\* Escape.
OnKeyDownEscape ==
    /\ Live /\ menu.context # 0 /\ menu.listening
    /\ menu' = [menu EXCEPT !.context = 0]
    /\ UNCHANGED <<shelf, menuIn, menuOut, menuTurns, lapses>>

\* An entry of the context menu: insertComment has no gate, any other goes through sendUnoCommand.
ChooseInContext ==
    /\ Live /\ menu.context # 0
    /\ \E c \in {"hyperlink", "insertcomment"} :
        /\ menu' = [menu EXCEPT !.context = 0, !.stroke = "none", !.ran = ExecuteAllowedCommand(menu, c)]
        /\ lapses' = IF c = "insertcomment" /\ menu.perm # "edit" THEN lapses \cup {"ungated"} ELSE lapses
    /\ UNCHANGED <<shelf, menuIn, menuOut, menuTurns>>

MenusNext ==
    \/ DocumentOpens
    \/ LayerIsAdded
    \/ EditAsOdf
    \/ KitAnswersMenu
    \/ HeaderChanges
    \/ UsersChange
    \/ PermissionChanges
    \/ HostShowsOrHides
    \/ MenuReceives
    \/ OpenMenuBar
    \/ ChooseHeader
    \/ AnswerHeader
    \/ \E s \in Strokes : PressHotkey(s)
    \/ OnMouseDownAsks
    \/ OnKeyDownEscape
    \/ ChooseInContext

MenusSpec == MenusInit /\ [][MenusNext]_menusVars

-----------------------------------------------------------------------------
(* Properties.                                                             *)

\* The groups of entries that a table has: entries that none or a separator comes before.
GroupsOf(table) ==
    Cardinality({i \in DOMAIN table : table[i] = "item" /\
        ~\E j \in 1..i - 1 : table[j] = "item" /\ \A k \in j..i : table[k] # "sep"})

ItemsOf(list) == SelectSeq(list, LAMBDA kind : kind = "item")

\* A menu has every entry its table leaves in, and its separators are exactly between the groups:
\* none first, none last, none twice.
SeparatorsSeparate(list, table) ==
    /\ ItemsOf(list) = ItemsOf(table)
    /\ GroupsOf(list) = GroupsOf(table)
    /\ Len(list) = Len(ItemsOf(table)) + (IF GroupsOf(table) = 0 THEN 0 ELSE GroupsOf(table) - 1)

\* Both ways to build a menu, which are written apart, give such a menu for every table.
MenusAreWellBuilt ==
    menu.built => /\ SeparatorsSeparate(menu.layout, shelf.table)
                  /\ SeparatorsSeparate(menu.contextLayout, shelf.table)

MenusQuiet == Live /\ menuIn = <<>> /\ menuOut = <<>>

\* When nothing is on its way, every language and every page style is in its menus once - unless
\* the document was opened to read and is edited as ODF, which asks for all of them again ("again").
EntriesAreThereOnce == MenusQuiet => "again" \in lapses \/ (menu.languages = 1 /\ menu.styles = 1)

\* Repair is in the menu exactly for a user who is alone, whoever comes and goes - unless
\* the host has shown or hidden it ("host"), since both switch the same entry.
RepairIsForOne ==
    MenusQuiet => "host" \in lapses \/ menu.repair = (shelf.users = 1)

\* A header is switched to what the menu said it was not: what has content is never thrown away
\* without a question - though the header may have changed since the menu opened, or just before
\* ("stale").
HeaderIsToggledAsShown ==
    [][ menu.bar # "closed" /\ menu'.bar = "closed" /\ menu'.ran = "header" =>
          menu'.checked = shelf.header \/ "stale" \in lapses ]_menusVars

\* To type runs no command - but for the question mark in a text, which opens the help, because
\* the Ctrl of its hot key is misspelt ("typo").
TypingRunsNothing == menu.stroke = "question" => menu.ran = "none" \/ "typo" \in lapses

\* Who may only read runs nothing that edits, by hot key or by a menu that was left open - but a
\* new comment opens for all ("ungated").
ReadersRunNothing ==
    [][ menu'.ran # menu.ran /\ menu'.ran \in {"hyperlink", "insertcomment", "header"} /\ menu.perm # "edit" =>
          menu'.ran = "insertcomment" /\ "ungated" \in lapses' ]_menusVars

\* The context menu on the screen is of the click it is shown at - unless the answer to an earlier
\* click came after a later one ("late").
ContextIsOfTheClick == menu.context # 0 => menu.context = menu.contextAt \/ "late" \in lapses

=============================================================================
