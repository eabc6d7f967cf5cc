--------------------------- MODULE BrowserKeyboard ---------------------------
(***************************************************************************)
(* What the browser makes of keys and of input methods.  One stroke is up  *)
(* to four events (keydown, keypress, textInput, keyup), any of which may  *)
(* be the one to send; a text from an input method comes in others.  The   *)
(* handler keeps flags between events - was the key handled, is a text     *)
(* being composed, was it AltGr - for the document and for dialogs alike.  *)
(* On a phone a text field of its own takes the keys, and shows the        *)
(* keyboard on the screen while it has the focus.                          *)
(*                                                                         *)
(* The events of one stroke are one step, since nothing comes between      *)
(* them.  Strokes that are hot keys of the menu are not among them.        *)
(* AltGr is told as Windows tells it: the left Ctrl, then Alt on           *)
(* the right.                                                              *)
(***************************************************************************)
EXTENDS Naturals, Sequences

CONSTANT MaxKeyTurns    \* bound: strokes, texts and changes around them

VARIABLES
    board,       \* the keys held down, and where the focus is
    keys,        \* Map.Keyboard
    phone,       \* Control.MobileInput, with the cursor it depends on
    stroke,      \* the last stroke and what was sent for it
    texts,       \* texts the user committed, and those the kit got
    keyTurns,    \* how much of the bound is used up
    blunders     \* history: the named holes that have been met

keyboardVars == <<board, keys, phone, stroke, texts, keyTurns, blunders>>

ModifierKeys == {"ctrl", "rctrl", "alt", "altgr", "shift"}

\* A letter, one of copy, cut and paste, the one that saves, an arrow, and the insert key.
StrokeKeys == {"letter", "copy", "save", "arrow", "insert"}
Printable == {"letter", "copy", "save"}

\* The values the variables take.
KeyboardTypeOK ==
    /\ board.held \subseteq ModifierKeys /\ board.focus \in {"doc", "dialog"}
    /\ keys.altGr \in BOOLEAN /\ keys.handled \in BOOLEAN /\ keys.composing \in BOOLEAN /\ keys.perm \in {"view", "edit"}
    /\ phone.lock \in BOOLEAN /\ phone.readOnly \in BOOLEAN /\ phone.focused \in BOOLEAN /\ phone.cursor \in BOOLEAN
    /\ phone.handled \in BOOLEAN /\ phone.composing \in BOOLEAN
    /\ stroke.key \in StrokeKeys \cup {"none"} /\ stroke.held \subseteq ModifierKeys /\ Len(stroke.sent) <= 3
    /\ stroke.to \in {"doc", "dialog"} /\ stroke.perm \in {"view", "edit"}
    /\ texts.meant \in 0..MaxKeyTurns /\ texts.got \in 0..2 * MaxKeyTurns
    /\ keyTurns \in 0..MaxKeyTurns
    /\ blunders \subseteq {"right", "mixed", "shifted", "stolen", "suggested", "phone"}

-----------------------------------------------------------------------------
(* Events of the keyboard.                                                 *)

CtrlKey(held) == held \cap {"ctrl", "rctrl", "altgr"} # {}
AltKey(held) == held \cap {"alt", "altgr"} # {}

\* One event: its type, its key, and the modifiers it says are held.
Event(type, key, held) ==
    [type |-> type, key |-> key, ctrl |-> CtrlKey(held), alt |-> AltKey(held), shift |-> "shift" \in held,
     location |-> CASE key \in {"ctrl", "alt", "shift"} -> 1 [] key \in {"rctrl", "altgr"} -> 2 [] OTHER -> 0]

\* What is sent: to the document or a dialog, input or up, a character or a key, with modifiers or without.
Sent(to, type, char, mods) == [to |-> to, type |-> type, char |-> char, mods |-> mods]

\* What comes of an event: the flags, what is sent, whether the browser is kept from doing more, and
\* where the focus is.
Outcome(k, sent, prevented, focus) == [keys |-> k, sent |-> sent, prevented |-> prevented, focus |-> focus]

-----------------------------------------------------------------------------
(* Map.Keyboard.                                                           *)

\* With a slip: once AltGr, always AltGr.
SeeAltGrForever(k, e) ==
    IF ~(e.ctrl /\ e.alt) THEN k
    ELSE IF e.type = "keydown" /\ e.location = 2 THEN [k EXCEPT !.altGr = TRUE]
    ELSE k

\* The detection of AltGr: by the side of the keyboard the last of Ctrl and Alt was on.
SeeAltGr(k, e) ==
    IF ~(e.ctrl /\ e.alt) THEN k
    ELSE IF e.type = "keydown" /\ e.location = 2 THEN [k EXCEPT !.altGr = TRUE]
    ELSE IF e.location = 1 THEN [k EXCEPT !.altGr = FALSE]
    ELSE k

\* With Ctrl and Alt held: AltGr itself, and what is left of a stroke with it, is not looked at.
SkipsForAltGr(k, e) ==
    e.ctrl /\ e.alt /\ ( \/ e.type = "keydown" /\ e.location = 2
                         \/ k.altGr /\ e.location = 0 /\ e.type # "keypress" )

\* The character that AltGr makes.
IsAltGrChar(k, e) == e.ctrl /\ e.alt /\ k.altGr /\ e.location = 0 /\ e.type = "keypress"

\* _handleCtrlCommand: is the event dealt with?
HandlesCtrl(e) ==
    \/ e.key \in {"ctrl", "rctrl"}
    \/ e.type # "keydown" /\ e.key # "copy"
    \/ ~e.alt /\ ~e.shift /\ e.key \in {"copy", "save"}

\* What it does then: to copy, the field of the document is selected, wherever the stroke was made.
CtrlFocus(e, focus) == IF ~e.alt /\ ~e.shift /\ e.key = "copy" /\ e.type # "keypress" THEN "doc" ELSE focus

\* _ignoreKeyEvent: those come as cut and paste too.
IgnoreKeyEvent(e) == e.shift /\ e.key = "insert"

\* The keys without modifiers, when editing: some are sent when they go down, the others as characters.
PlainKey(k, e, to, char) ==
    IF IgnoreKeyEvent(e) THEN Outcome(k, <<>>, FALSE, to)
    ELSE CASE e.type = "keydown" ->
            Outcome([k EXCEPT !.handled = FALSE],
                    IF e.key \in {"arrow", "insert"} THEN <<Sent(to, "input", FALSE, {})>> ELSE <<>>, FALSE, to)
      [] e.type = "keypress" -> Outcome([k EXCEPT !.handled = TRUE], <<Sent(to, "input", char, {})>>, FALSE, to)
      [] e.type = "keyup" -> Outcome([k EXCEPT !.handled = TRUE], <<Sent(to, "up", FALSE, {})>>, FALSE, to)
      [] OTHER -> Outcome(k, <<>>, FALSE, to)

\* _onKeyDown, for all three events of a key.
OnKeyDown(k, e, focus) ==
    LET s == SeeAltGr(k, e)
        plain == IsAltGrChar(s, e)
        ctrl == e.ctrl /\ ~plain
        alt == e.alt /\ ~plain
        mods == (IF ctrl THEN {"ctrl"} ELSE {}) \cup (IF alt THEN {"alt"} ELSE {}) \cup (IF e.shift THEN {"shift"} ELSE {})
        special == mods \in {{"alt"}, {"alt", "shift"}} /\ e.key \in Printable
        left == IF special THEN mods \ {"alt"} ELSE mods
    IN  IF SkipsForAltGr(s, e) THEN Outcome(s, <<>>, FALSE, focus)
        ELSE IF ctrl /\ HandlesCtrl(e) THEN Outcome(s, <<>>, e.key \notin {"copy", "ctrl", "rctrl"}, CtrlFocus(e, focus))
        ELSE IF left \notin {{}, {"shift"}} /\ e.type # "keyup"
        THEN Outcome(s, <<Sent(focus, "input", FALSE, left)>>, TRUE, focus)
        ELSE IF s.perm # "edit" THEN Outcome(s, <<>>, FALSE, focus)
        ELSE PlainKey(s, e, focus, TRUE)

\* With a slip: a text that is being composed is not excepted.
TextInputAlways(k) == IF ~k.handled THEN 1 ELSE 0

\* textInput of _onIME and _onPrivateIME: when no key was handled for it.
TextInput(k) == IF ~k.handled /\ ~k.composing THEN 1 ELSE 0

\* compositionend of both: the text is sent, once it is complete.
Composed(k) == 1

-----------------------------------------------------------------------------
(* Control.MobileInput.                                                    *)

\* focus.
PhoneFocus(f, perm) == [f EXCEPT !.focused = perm = "edit" /\ ~f.lock /\ f.cursor /\ ~f.readOnly]

\* With a slip: the field keeps the focus it has.
UpdateCursorOnly(f, perm) == [f EXCEPT !.readOnly = ~(perm = "edit" /\ f.cursor)]

\* showCursor, hideCursor, as _updateCursorAndOverlay calls them.
UpdateCursorAndOverlay(f, perm) == PhoneFocus([f EXCEPT !.readOnly = ~(perm = "edit" /\ f.cursor)], perm)

\* onCompEvents: here a text that is being composed counts as not handled.
PhoneTextInput(f) == IF ~f.handled THEN 1 ELSE 0

-----------------------------------------------------------------------------
KeyboardInit ==
    /\ board = [held |-> {}, focus |-> "doc"]
    /\ keys = [altGr |-> FALSE, handled |-> FALSE, composing |-> FALSE, perm |-> "edit"]
    /\ phone = [lock |-> TRUE, readOnly |-> TRUE, focused |-> FALSE, cursor |-> TRUE, handled |-> FALSE, composing |-> FALSE]
    /\ stroke = [key |-> "none", held |-> {}, to |-> "doc", perm |-> "edit", sent |-> <<>>]
    /\ texts = [meant |-> 0, got |-> 0]
    /\ keyTurns = 0 /\ blunders = {}

KeyTurn == keyTurns < MaxKeyTurns /\ keyTurns' = keyTurns + 1

\* A modifier goes down; AltGr is two keys at once.
HoldsModifier ==
    /\ KeyTurn /\ ~keys.composing /\ ~phone.focused
    /\ \E m \in ModifierKeys \ board.held :
        LET held == board.held \cup {m}
            e == Event("keydown", m, held)
            o == OnKeyDown(keys, e, board.focus)
        IN  /\ board' = [board EXCEPT !.held = held]
            /\ keys' = o.keys
            /\ blunders' = blunders \cup (IF m = "rctrl" /\ AltKey(held) THEN {"right"} ELSE {})
                                    \cup (IF "altgr" \in held /\ held \cap {"ctrl", "rctrl", "alt"} # {} THEN {"mixed"} ELSE {})
                                    \cup (IF "altgr" \in board.held /\ m = "shift" THEN {"shifted"} ELSE {})
    /\ UNCHANGED <<phone, stroke, texts>>

ReleasesModifier ==
    /\ ~keys.composing /\ ~phone.focused
    /\ \E m \in board.held :
        /\ board' = [board EXCEPT !.held = @ \ {m}]
        /\ keys' = OnKeyDown(keys, Event("keyup", m, board'.held), board.focus).keys
        /\ blunders' = IF "altgr" \in board'.held /\ m = "shift" THEN blunders \cup {"shifted"} ELSE blunders
    /\ UNCHANGED <<phone, stroke, texts, keyTurns>>

\* A stroke: keydown; keypress and textInput when it makes a character and nobody said no - with
\* Ctrl, only some browsers send keypress; keyup.
Strikes ==
    /\ KeyTurn /\ ~keys.composing /\ ~phone.focused
    /\ \E key \in StrokeKeys, firefox \in BOOLEAN :
        LET down == OnKeyDown(keys, Event("keydown", key, board.held), board.focus)
            pressed == /\ key \in Printable /\ ~down.prevented
                       /\ firefox \/ ~CtrlKey(board.held) \/ "altgr" \in board.held
            press == IF pressed THEN OnKeyDown(down.keys, Event("keypress", key, board.held), down.focus)
                     ELSE Outcome(down.keys, <<>>, FALSE, down.focus)
            typed == pressed /\ (~CtrlKey(board.held) \/ "altgr" \in board.held)
            again == IF typed /\ TextInput(press.keys) = 1 THEN <<Sent(press.focus, "input", TRUE, {})>> ELSE <<>>
            up == OnKeyDown(press.keys, Event("keyup", key, board.held), press.focus)
        IN  /\ keys' = up.keys
            /\ board' = [board EXCEPT !.focus = up.focus]
            /\ stroke' = [key |-> key, held |-> board.held, to |-> board.focus, perm |-> keys.perm,
                          sent |-> down.sent \o press.sent \o IF keys.perm = "edit" THEN again ELSE <<>>]
            /\ blunders' = IF up.focus # board.focus THEN blunders \cup {"stolen"} ELSE blunders
    /\ UNCHANGED <<phone, texts>>

\* The user goes to a dialog or back to the document.
MovesFocus ==
    /\ KeyTurn /\ ~keys.composing
    /\ board' = [board EXCEPT !.focus = IF @ = "doc" THEN "dialog" ELSE "doc"]
    /\ UNCHANGED <<keys, phone, stroke, texts, blunders>>

\* compositionstart.
Composes ==
    /\ KeyTurn /\ board.held = {} /\ keys.perm = "edit"
    /\ \/ ~phone.focused /\ ~keys.composing /\ keys' = [keys EXCEPT !.composing = TRUE, !.handled = FALSE] /\ UNCHANGED phone
       \/ phone.focused /\ ~phone.composing /\ phone' = [phone EXCEPT !.composing = TRUE, !.handled = FALSE] /\ UNCHANGED keys
    /\ UNCHANGED <<board, stroke, texts, blunders>>

\* The text is complete: textInput, then compositionend.
Commits ==
    /\ keys.composing
    /\ keys' = [keys EXCEPT !.composing = FALSE]
    /\ texts' = [meant |-> texts.meant + 1, got |-> texts.got + TextInput(keys) + Composed(keys)]
    /\ UNCHANGED <<board, phone, stroke, keyTurns, blunders>>

\* The text is given up: an empty one is not sent.
GivesUpText ==
    /\ keys.composing \/ phone.composing
    /\ keys' = [keys EXCEPT !.composing = FALSE]
    /\ phone' = [phone EXCEPT !.composing = FALSE]
    /\ UNCHANGED <<board, stroke, texts, keyTurns, blunders>>

\* A text without composing: with a key that says nothing (code 229), or none when it is a
\* suggestion - which the flag of an earlier key then swallows.
SuggestsText ==
    /\ KeyTurn /\ ~keys.composing /\ ~phone.focused /\ board.held = {} /\ keys.perm = "edit"
    /\ \E key \in BOOLEAN :
        LET down == IF key THEN [keys EXCEPT !.handled = FALSE] ELSE keys IN
        /\ keys' = IF key THEN [down EXCEPT !.handled = TRUE] ELSE down
        /\ texts' = [meant |-> texts.meant + 1, got |-> texts.got + TextInput(down)]
        /\ blunders' = IF ~key /\ keys.handled THEN blunders \cup {"suggested"} ELSE blunders
    /\ UNCHANGED <<board, phone, stroke>>

\* The same on the phone: onKeyEvents, onCompEvents.
PhoneTypes ==
    /\ KeyTurn /\ phone.focused /\ ~phone.composing
    /\ \E key \in {"pressed", "silent", "none"} :
        LET down == CASE key = "none" -> phone [] OTHER -> [phone EXCEPT !.handled = FALSE]
            press == IF key = "pressed" THEN [down EXCEPT !.handled = TRUE] ELSE down
        IN  /\ phone' = IF key = "none" THEN press ELSE [press EXCEPT !.handled = TRUE]
            /\ texts' = [meant |-> texts.meant + 1,
                         got |-> texts.got + (IF key = "pressed" THEN 1 ELSE 0) + PhoneTextInput(press)]
            /\ blunders' = IF key = "none" /\ phone.handled THEN blunders \cup {"suggested"} ELSE blunders
    /\ UNCHANGED <<board, keys, stroke>>

PhoneCommits ==
    /\ phone.composing
    /\ \E key \in BOOLEAN :
        LET f == [phone EXCEPT !.handled = key] IN
        /\ phone' = [f EXCEPT !.composing = FALSE]
        /\ texts' = [meant |-> texts.meant + 1, got |-> texts.got + PhoneTextInput(f) + 1]
        /\ blunders' = IF key THEN blunders ELSE blunders \cup {"phone"}
    /\ UNCHANGED <<board, keys, stroke, keyTurns>>

\* updatePermission, and the cursor that goes or comes with it.
ChangesPermission ==
    /\ KeyTurn /\ ~keys.composing /\ ~phone.composing
    /\ keys' = [keys EXCEPT !.perm = IF @ = "edit" THEN "view" ELSE "edit"]
    /\ phone' = IF keys'.perm = "view" THEN UpdateCursorAndOverlay(phone, "view") ELSE phone
    /\ UNCHANGED <<board, stroke, texts, blunders>>

\* cursorvisible from the kit.
ShowsCursor ==
    /\ KeyTurn /\ ~phone.composing
    /\ \E visible \in BOOLEAN : phone' = UpdateCursorAndOverlay([phone EXCEPT !.cursor = visible], keys.perm)
    /\ UNCHANGED <<board, keys, stroke, texts, blunders>>

\* lockVirtualKeyboard: the buttons of the status bar.
LocksPhone ==
    /\ KeyTurn /\ ~phone.composing /\ board.held = {} /\ ~keys.composing
    /\ phone' = PhoneFocus([phone EXCEPT !.lock = ~@], keys.perm)
    /\ UNCHANGED <<board, keys, stroke, texts, blunders>>

\* The window becomes smaller, which means that the keyboard of the phone is coming up.
PhoneKeyboardRises ==
    /\ KeyTurn /\ ~phone.composing
    /\ phone' = IF ~phone.readOnly /\ keys.perm = "edit"
                THEN UpdateCursorAndOverlay([phone EXCEPT !.cursor = TRUE], keys.perm) ELSE phone
    /\ UNCHANGED <<board, keys, stroke, texts, blunders>>

KeyboardNext ==
    \/ HoldsModifier
    \/ ReleasesModifier
    \/ Strikes
    \/ MovesFocus
    \/ Composes
    \/ Commits
    \/ GivesUpText
    \/ SuggestsText
    \/ PhoneTypes
    \/ PhoneCommits
    \/ ChangesPermission
    \/ ShowsCursor
    \/ LocksPhone
    \/ PhoneKeyboardRises

KeyboardSpec == KeyboardInit /\ [][KeyboardNext]_keyboardVars

-----------------------------------------------------------------------------
(* Properties.                                                             *)

\* What a stroke means: a character, a key with its modifiers, or something the browser does itself.
Means(s) ==
    LET ctrl == s.held \cap {"ctrl", "rctrl"} # {}
        alt == "alt" \in s.held
        shift == IF "shift" \in s.held THEN {"shift"} ELSE {}
    IN  IF "altgr" \in s.held THEN IF s.key \in Printable THEN <<Sent(s.to, "input", TRUE, {})>> ELSE <<>>
        ELSE IF ctrl /\ ~alt /\ shift = {} /\ s.key \in {"copy", "save"} THEN <<>>
        ELSE IF ctrl THEN <<Sent(s.to, "input", FALSE, {"ctrl"} \cup (IF alt THEN {"alt"} ELSE {}) \cup shift)>>
        ELSE IF alt /\ s.key \notin Printable THEN <<Sent(s.to, "input", FALSE, {"alt"} \cup shift)>>
        ELSE IF s.key = "insert" /\ shift # {} THEN <<>>
        ELSE <<Sent(s.to, "input", s.key \in Printable, {})>>

\* A stroke sends what it means, once, and to where it was made - unless the right Ctrl was held with
\* Alt, which is taken for AltGr ("right"), AltGr with Ctrl or Alt ("mixed"), or Shift went
\* down or up while AltGr was held, which is then forgotten ("shifted").
StrokeIsSent ==
    stroke.key # "none" /\ stroke.sent # Means(stroke) => blunders \cap {"right", "mixed", "shifted"} # {} \/ stroke.perm # "edit"

\* The kit gets each text of an input method once - unless it was a suggestion chosen after a key
\* ("suggested"), or was composed on a phone while the last key is not up yet ("phone").
TextArrivesOnce == texts.meant # texts.got => blunders \cap {"suggested", "phone"} # {}

\* The keyboard of the phone is up only where a text can be entered, and not when it is locked.
KeyboardIsWanted == phone.focused => keys.perm = "edit" /\ ~phone.lock /\ phone.cursor

=============================================================================
