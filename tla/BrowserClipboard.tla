-------------------------- MODULE BrowserClipboard --------------------------
(***************************************************************************)
(* Copy, cut and paste.  The browser must fill the system's clipboard at   *)
(* once, so it keeps a copy of the selected text (_selectionTextContent),  *)
(* which it asks the kit for a while after each change of the selection;   *)
(* the kit keeps a clipboard of its own, with the formatting.  A paste of  *)
(* the text that was last copied here is done by the kit from its own.     *)
(*                                                                         *)
(* A text is its body and whether white space follows it, which is how     *)
(* spreadsheets end the text of a range.                                   *)
(***************************************************************************)
EXTENDS Naturals, Sequences

CONSTANTS Bodies,       \* the texts that can be selected
          MaxSelections,\* bound: changes of the selection, and copies elsewhere
          MaxKeys       \* bound: copies, cuts and pastes

VARIABLES
    kit,        \* the kit: its selection, its clipboard, and what was last pasted
    toKit,      \* messages to the kit
    fromKit,    \* messages from the kit
    copying,    \* the browser, see ClipTypeOK
    clipboard,  \* the text in the system's clipboard, and whether we put it there
    used,       \* how much of the bounds is used up
    slips       \* history: the named holes through which a text may have gone wrong

clipVars == <<kit, toKit, fromKit, copying, clipboard, used, slips>>

Texts == [body: Bodies, blank: BOOLEAN]
NoText == [body |-> "", blank |-> FALSE]
AnyText == Texts \cup {NoText}

\* The values the variables take.
ClipTypeOK ==
    /\ kit \in [selected: AnyText, clipboard: AnyText, pasted: AnyText, wanted: AnyText]
    /\ copying \in [calc: {"unknown", "yes", "no"}, shown: AnyText,
                    content: AnyText,                \* _selectionTextContent
                    due: BOOLEAN,                    \* _selectionContentRequest is running
                    hash: AnyText]                   \* _selectionTextHash
    /\ clipboard \in [text: AnyText, ours: BOOLEAN]
    /\ used \in [selections: 0..MaxSelections, keys: 0..MaxKeys]
    /\ slips \subseteq {"late", "nothing"}

ClipInit ==
    /\ kit = [selected |-> NoText, clipboard |-> NoText, pasted |-> NoText, wanted |-> NoText]
    /\ toKit = <<>> /\ fromKit = <<>>
    /\ copying = [calc |-> "unknown", shown |-> NoText, content |-> NoText, due |-> FALSE, hash |-> NoText]
    /\ clipboard = [text |-> NoText, ours |-> FALSE]
    /\ used = [selections |-> 0, keys |-> 0]
    /\ slips = {}

-----------------------------------------------------------------------------
(* The kit and the rest of the desktop.                                    *)

\* The first status message tells whether it is a spreadsheet.
ClipOpen(calc) ==
    /\ copying.calc = "unknown"
    /\ copying' = [copying EXCEPT !.calc = calc]
    /\ UNCHANGED <<kit, toKit, fromKit, clipboard, used, slips>>

\* The kit reads clicks and keys in the order they were made.
SelectionMayChange ==
    /\ \A i \in 1..Len(toKit) : toKit[i][1] = "gettextselection"
    /\ used.selections < MaxSelections
    /\ used' = [used EXCEPT !.selections = @ + 1]

\* The selection changes.
SelectText(t) ==
    /\ SelectionMayChange
    /\ t # kit.selected
    /\ kit' = [kit EXCEPT !.selected = t]
    /\ fromKit' = Append(fromKit, <<"textselection", t>>)
    /\ UNCHANGED <<toKit, copying, clipboard, slips>>

\* Another cell, whose text is sent with it; no range is selected then.
EnterCell(t) ==
    /\ SelectionMayChange
    /\ copying.calc = "yes"
    /\ kit' = [kit EXCEPT !.selected = t]
    /\ fromKit' = fromKit \o <<<<"textselection", NoText>>, <<"cellformula", t>>>>
    /\ UNCHANGED <<toKit, copying, clipboard, slips>>

\* Another program fills the clipboard.
CopyElsewhere(t) ==
    /\ SelectionMayChange
    /\ clipboard' = [text |-> t, ours |-> FALSE]
    /\ UNCHANGED <<kit, toKit, fromKit, copying, slips>>

\* The kit handles the next message.  wanted records what the user saw on the
\* clipboard when he asked for a paste.
KitAnswers ==
    LET m == Head(toKit)
    IN /\ toKit # <<>> /\ toKit' = Tail(toKit)
       /\ \/ /\ m[1] = "gettextselection"
             /\ fromKit' = Append(fromKit, <<"textselectioncontent", kit.selected>>)
             /\ UNCHANGED kit
          \/ /\ m[1] = "copy"
             /\ kit' = [kit EXCEPT !.clipboard = IF kit.selected = NoText THEN @ ELSE kit.selected]
             /\ UNCHANGED fromKit
          \/ /\ m[1] = "cut"
             /\ kit' = IF kit.selected = NoText THEN kit
                       ELSE [kit EXCEPT !.clipboard = kit.selected, !.selected = NoText]
             /\ fromKit' = IF kit.selected = NoText THEN fromKit
                           ELSE Append(fromKit, <<"textselection", NoText>>)
          \/ /\ m[1] = "pasteinternal"
             /\ kit' = [kit EXCEPT !.pasted = kit.clipboard, !.wanted = m[2]]
             /\ UNCHANGED fromKit
          \/ /\ m[1] = "paste"
             /\ kit' = [kit EXCEPT !.pasted = m[2], !.wanted = m[2]]
             /\ UNCHANGED fromKit
       /\ UNCHANGED <<copying, clipboard, used, slips>>

-----------------------------------------------------------------------------
(* The browser hears of the selection.                                     *)

\* With a slip: a request that is running is taken for good.
TextSelectionOnce(t) ==
    [copying EXCEPT !.shown = t, !.due = t # NoText /\ ~@]

\* _onTextSelectionMsg: the request starts anew; an empty selection does not
\* stop it, nor does it clear the content (_removeSelection clears another name).
TextSelection(t) ==
    [copying EXCEPT !.shown = t, !.due = @ \/ t # NoText]

\* _onTextSelectionContentMsg
TextSelectionContent(t) == [copying EXCEPT !.content = t]

\* _onCellFormulaMsg
CellFormula(t) == [copying EXCEPT !.content = t]

ClipReceive ==
    LET m == Head(fromKit)
    IN /\ fromKit # <<>> /\ fromKit' = Tail(fromKit)
       /\ copying' = CASE m[1] = "textselection" -> TextSelection(m[2])
                       [] m[1] = "textselectioncontent" -> TextSelectionContent(m[2])
                       [] m[1] = "cellformula" -> CellFormula(m[2])
       /\ UNCHANGED <<kit, toKit, clipboard, used, slips>>

\* The timer of _onTextSelectionMsg, after 100 ms.
RequestContent ==
    /\ copying.due
    /\ copying' = [copying EXCEPT !.due = FALSE]
    /\ toKit' = Append(toKit, <<"gettextselection", NoText>>)
    /\ UNCHANGED <<kit, fromKit, clipboard, used, slips>>

-----------------------------------------------------------------------------
(* The keys.                                                               *)

Presses == used.keys < MaxKeys /\ used' = [used EXCEPT !.keys = @ + 1]

Trimmed(t) == [t EXCEPT !.blank = FALSE]

\* L.Compatibility.clipboardSet, with the text as it is copied from a spreadsheet.
ClipboardSet(t) == [text |-> IF copying.calc = "yes" THEN Trimmed(t) ELSE t, ours |-> TRUE]

\* What the copy of a text that is not the selection leads to.
Slip == CASE copying.content \in {NoText, kit.selected} -> {}
          [] copying.content # kit.selected /\ kit.selected = NoText -> {"nothing"}
          [] OTHER -> {"late"}

\* With a slip: the text that was copied is not remembered.
TakeForgetfully(how) ==
    /\ Presses
    /\ clipboard' = IF copying.content = NoText THEN clipboard ELSE ClipboardSet(copying.content)
    /\ toKit' = Append(toKit, <<how, NoText>>)
    /\ slips' = slips \cup Slip
    /\ UNCHANGED <<kit, fromKit, copying>>

\* _onCopy and _onCut; how tells which.
Take(how) ==
    /\ Presses
    /\ clipboard' = IF copying.content = NoText THEN clipboard ELSE ClipboardSet(copying.content)
    /\ copying' = IF copying.content = NoText THEN copying ELSE [copying EXCEPT !.hash = copying.content]
    /\ toKit' = Append(toKit, <<how, NoText>>)
    /\ slips' = slips \cup Slip \cup (IF copying.content = NoText /\ kit.selected # NoText THEN {"late"} ELSE {})
    /\ UNCHANGED <<kit, fromKit>>
Copy == Take("copy")
Cut == Take("cut")

\* With a slip: the kit's clipboard is always preferred.
PreferKit(t) == IF t # NoText THEN <<"pasteinternal", t>> ELSE <<"paste", t>>

\* _dataTransferToDocument of plain text
DataTransfer(t) ==
    IF t # NoText /\ t = copying.hash THEN <<"pasteinternal", t>> ELSE <<"paste", t>>

\* _onPaste
Paste ==
    /\ Presses
    /\ clipboard.text # NoText
    /\ toKit' = Append(toKit, DataTransfer(clipboard.text))
    /\ UNCHANGED <<kit, fromKit, copying, clipboard, slips>>

-----------------------------------------------------------------------------

ClipNext ==
    \/ \E calc \in {"yes", "no"} : ClipOpen(calc)
    \/ /\ copying.calc # "unknown"
       /\ \/ \E t \in AnyText : SelectText(t)
          \/ \E t \in Texts : ~t.blank /\ (EnterCell(t) \/ CopyElsewhere(t))
          \/ Copy
          \/ Cut
          \/ Paste
    \/ KitAnswers
    \/ ClipReceive
    \/ RequestContent

ClipSpec == ClipInit /\ [][ClipNext]_clipVars

-----------------------------------------------------------------------------
(* Properties.                                                             *)

\* When the timer has fired and all is answered, the text that a copy would
\* put on the clipboard is the text that is marked and that the kit has
\* selected, however often the selection changed in between
\* (TileLayer.js:1519, 1561).
ContentSettles ==
    ~copying.due /\ toKit = <<>> /\ fromKit = <<>> /\ copying.shown # NoText
        => copying.content = copying.shown /\ copying.content = kit.selected

\* What a paste inserts is what the clipboard held, whether the kit or the
\* browser supplied it: the kit's own clipboard is never older or newer than
\* the text it is taken for, unless a copy came before its text, or was made
\* of nothing (TileLayer.js:2982, 3051).
PasteIsFromClipboard ==
    slips = {} => kit.pasted.body = kit.wanted.body

\* A copy made here is recognised when it is pasted, so that the kit inserts
\* it with its formatting; not so the trimmed text of a range of cells
\* (TileLayer.js:2979).
OwnCopyIsRecognised ==
    clipboard.ours => \/ DataTransfer(clipboard.text)[1] = "pasteinternal"
                      \/ copying.calc = "yes" /\ copying.hash.blank
=============================================================================
