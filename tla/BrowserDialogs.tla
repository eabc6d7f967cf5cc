--------------------------- MODULE BrowserDialogs ---------------------------
(***************************************************************************)
(* The dialogs and pop-ups that the kit paints and the browser shows.  A   *)
(* picture that both sides have in their cache is not sent again: the kit  *)
(* names it by its hash, so the two caches have to agree.                  *)
(***************************************************************************)
EXTENDS Integers, Sequences, SequencesExt, FiniteSetsExt

CONSTANTS Windows,        \* ids of windows, 1..n: a new kit starts from 1 again
          Looks,          \* what a window may look like
          CacheSize,      \* tunnelled_dialog_image_cache_size
          MaxShellTurns   \* bound: what the kit and the user do by themselves

\* A list of pictures has room for one; 0 is no window, "none" no picture.
ASSUME DialogsAssumption ==
    Windows \subseteq Nat \ {0} /\ "none" \notin Looks /\ CacheSize \in Nat \ {0}

VARIABLES
    desk,        \* the kit: its windows, the next id, its list of hashes
    deskIn,      \* messages to the kit
    deskOut,     \* messages from the kit
    shell,       \* the browser, see DialogsTypeOK
    shellTurns,  \* how much of the bound is used up
    snags        \* history: the named holes that have been met

dialogsVars == <<desk, deskIn, deskOut, shell, shellTurns, snags>>

NoWindow == 0
NoLook == "none"
AnyWindow == Windows \cup {NoWindow}
AnyLook == Looks \cup {NoLook}

Closed == [open |-> FALSE, titled |-> FALSE, parent |-> NoWindow, look |-> NoLook]

\* No entry in _dialogs.
NoDialog == [known |-> FALSE, titled |-> FALSE, child |-> NoWindow, dom |-> FALSE, shown |-> FALSE,
             drawn |-> NoLook, floating |-> NoWindow, floatDrawn |-> NoLook, caret |-> FALSE]

\* The values the variables take.
DialogsTypeOK ==
    /\ desk.wins \in [Windows -> [open: BOOLEAN, titled: BOOLEAN, parent: AnyWindow, look: AnyLook]]
    /\ desk.cache \in Seq(Looks) /\ Len(desk.cache) <= CacheSize
    /\ shell.dialogs \in [Windows -> [known: BOOLEAN, titled: BOOLEAN, child: AnyWindow, dom: BOOLEAN,
                                      shown: BOOLEAN, drawn: AnyLook, floating: AnyWindow,
                                      floatDrawn: AnyLook, caret: BOOLEAN]]
    /\ shell.current \in AnyWindow
    /\ shell.pngs \in Seq(Looks) /\ Len(shell.pngs) <= CacheSize
    /\ snags \subseteq {"reused", "relaunched", "left", "nopng"}

DialogsInit ==
    /\ desk = [wins |-> [w \in Windows |-> Closed], next |-> 1, cache |-> <<>>]
    /\ deskIn = <<>> /\ deskOut = <<>>
    /\ shell = [dialogs |-> [w \in Windows |-> NoDialog], current |-> NoWindow, pngs |-> <<>>]
    /\ shellTurns = 0 /\ snags = {}

-----------------------------------------------------------------------------
(* The kit.                                                                *)

ShellTurn == shellTurns < MaxShellTurns /\ shellTurns' = shellTurns + 1

OpenDialogs == {w \in Windows : desk.wins[w].open /\ desk.wins[w].parent = NoWindow}
ChildrenOf(w) == {c \in Windows : desk.wins[c].open /\ desk.wins[c].parent = w}

KitOpens(titled, parent, look) ==
    LET w == desk.next
    IN /\ ShellTurn /\ w \in Windows
       /\ parent # NoWindow => desk.wins[parent].open /\ desk.wins[parent].parent = NoWindow
       /\ ChildrenOf(parent) = {} \/ parent = NoWindow
       /\ desk' = [desk EXCEPT !.next = @ + 1,
                               !.wins[w] = [open |-> TRUE, titled |-> titled, parent |-> parent,
                                            look |-> look]]
       /\ deskOut' = Append(deskOut, <<"created", w, titled, parent>>)
       /\ UNCHANGED <<deskIn, shell, snags>>

KitRepaints(w, look) ==
    /\ ShellTurn /\ desk.wins[w].open /\ look # desk.wins[w].look
    /\ desk' = [desk EXCEPT !.wins[w].look = look]
    /\ \E what \in {"invalidate", "size_changed"} :
          /\ what = "size_changed" => w \in OpenDialogs
          /\ deskOut' = Append(deskOut, <<what, w>>)
    /\ UNCHANGED <<deskIn, shell, snags>>

KitCaret(w, on) ==
    /\ ShellTurn /\ w \in OpenDialogs
    /\ deskOut' = Append(deskOut, <<"cursor_visible", w, on>>)
    /\ UNCHANGED <<desk, deskIn, shell, snags>>

\* A window goes after the one that hangs on it.
KitCloses(w) ==
    LET going == {w} \cup ChildrenOf(w)
        order == SetToSeq(ChildrenOf(w)) \o <<w>>
    IN /\ desk' = [desk EXCEPT !.wins = [v \in Windows |-> IF v \in going THEN Closed ELSE @[v]]]
       /\ deskOut' = deskOut \o [i \in DOMAIN order |-> <<"close", order[i]>>]

KitClosesByItself(w) ==
    /\ ShellTurn /\ desk.wins[w].open /\ KitCloses(w)
    /\ UNCHANGED <<deskIn, shell, snags>>

\* renderWindow: the list of hashes is moved in the same way as the browser's pictures.
MovedToFront(cache, look) ==
    LET i == IF Contains(cache, look) THEN Min({j \in DOMAIN cache : cache[j] = look}) ELSE 0
        rest == IF i > 0 THEN RemoveAt(cache, i)
                ELSE IF Len(cache) = CacheSize THEN Front(cache) ELSE cache
    IN <<look>> \o rest

RenderWindow(w) ==
    LET look == desk.wins[w].look
    IN IF desk.wins[w].open
       THEN /\ desk' = [desk EXCEPT !.cache = MovedToFront(@, look)]
            /\ deskOut' = Append(deskOut, <<"windowpaint", w, look, ~Contains(desk.cache, look)>>)
       ELSE UNCHANGED <<desk, deskOut>>

DeskAnswers ==
    LET m == Head(deskIn)
    IN /\ deskIn # <<>> /\ deskIn' = Tail(deskIn)
       /\ \/ m[1] = "paintwindow" /\ RenderWindow(m[2])
          \/ m[1] = "close" /\ desk.wins[m[2]].open /\ KitCloses(m[2])
          \/ m[1] = "close" /\ ~desk.wins[m[2]].open /\ UNCHANGED <<desk, deskOut>>
       /\ UNCHANGED <<shell, shellTurns, snags>>

-----------------------------------------------------------------------------
(* The browser.  A handler gives the new shell and what it sends.           *)

\* _isOpen
IsOpen(s, w) == w \in Windows /\ s.dialogs[w].known /\ s.dialogs[w].dom

\* _getParentId
ParentIds(s, w) == {p \in Windows : s.dialogs[p].known /\ s.dialogs[p].child = w}
GetParentId(s, w) == IF ParentIds(s, w) = {} THEN NoWindow ELSE Min(ParentIds(s, w))

PaintWindow(w) == <<<<"paintwindow", w>>>>

\* _onDialogClose: whichever dialog it is, no dialog is the current one any more.
OnDialogClose(s, w) ==
    [s EXCEPT !.dialogs[w] = NoDialog, !.current = NoWindow]

\* A pop-up that is open while the current dialog is forgotten.
Forgets(s, w) == \E p \in Windows \ {w} : IsOpen(s, p) /\ ~s.dialogs[p].titled

\* onCloseCurrentPopUp
IsPopUp(s) == s.current # NoWindow /\ IsOpen(s, s.current) /\ ~s.dialogs[s.current].titled
WithoutPopUp(s) == IF IsPopUp(s) THEN OnDialogClose(s, s.current) ELSE s
SendClosePopUp(s) == IF IsPopUp(s) THEN <<<<"close", s.current>>>> ELSE <<>>

\* _launchDialog: the entry starts anew, and is not shown before it is painted.
LaunchDialog(s, w, titled) ==
    [WithoutPopUp(s) EXCEPT
        !.dialogs[w] = [NoDialog EXCEPT !.known = TRUE, !.titled = titled, !.dom = TRUE],
        !.current = w]

\* With a slip: the pop-up that is open stays.
OnCreatedDialogOnTop(w, titled) ==
    /\ shell' = [shell EXCEPT !.dialogs[w] = [NoDialog EXCEPT !.known = TRUE, !.titled = titled,
                                                             !.dom = TRUE],
                              !.current = w]
    /\ deskIn' = deskIn \o PaintWindow(w)
    /\ UNCHANGED snags

OnCreatedDialog(w, titled) ==
    /\ shell' = LaunchDialog(shell, w, titled)
    /\ deskIn' = deskIn \o SendClosePopUp(shell) \o PaintWindow(w)
    /\ snags' = snags \cup (IF GetParentId(shell, w) # NoWindow THEN {"reused"} ELSE {})

OnCreatedChild(w, parent) ==
    \/ /\ IsOpen(shell, parent)
       /\ shell' = [shell EXCEPT !.dialogs[parent].child = w, !.dialogs[parent].floating = w,
                                 !.dialogs[parent].floatDrawn = NoLook]
       /\ deskIn' = deskIn \o PaintWindow(w)
       /\ snags' = snags \cup (IF GetParentId(shell', w) # parent THEN {"reused"} ELSE {})
    \/ ~IsOpen(shell, parent) /\ UNCHANGED <<shell, deskIn, snags>>

OnInvalidate(w) ==
    /\ deskIn' = IF IsOpen(shell, w) \/ GetParentId(shell, w) # NoWindow
                 THEN deskIn \o PaintWindow(w) ELSE deskIn
    /\ UNCHANGED <<shell, snags>>

\* With a slip: the dialog that is launched again is not asked for.
OnSizeChangedUnpainted(w) ==
    /\ shell' = IF IsOpen(shell, w)
                THEN LaunchDialog([shell EXCEPT !.dialogs[w].dom = FALSE], w, shell.dialogs[w].titled)
                ELSE shell
    /\ UNCHANGED <<deskIn, snags>>

\* The dialog is taken down and launched again, without its child window.
OnSizeChanged(w) ==
    LET down == [shell EXCEPT !.dialogs[w].dom = FALSE]
    IN \/ /\ IsOpen(shell, w)
          /\ shell' = LaunchDialog(down, w, shell.dialogs[w].titled)
          /\ deskIn' = deskIn \o SendClosePopUp(down) \o PaintWindow(w)
          /\ snags' = snags \cup (IF shell.dialogs[w].floating # NoWindow THEN {"relaunched"} ELSE {})
       \/ ~IsOpen(shell, w) /\ UNCHANGED <<shell, deskIn, snags>>

OnCursorVisible(w, on) ==
    /\ shell' = IF IsOpen(shell, w) THEN [shell EXCEPT !.dialogs[w].caret = on] ELSE shell
    /\ UNCHANGED <<deskIn, snags>>

\* The entry of the parent keeps the id of the child that is gone.
OnDialogChildClose(parent) ==
    /\ shell' = [shell EXCEPT !.dialogs[parent].floating = NoWindow,
                              !.dialogs[parent].floatDrawn = NoLook]
    /\ UNCHANGED <<deskIn, snags>>

OnCloseMsg(w) ==
    LET parent == GetParentId(shell, w)
    IN \/ parent # NoWindow /\ OnDialogChildClose(parent)
       \/ /\ parent = NoWindow /\ IsOpen(shell, w)
          /\ shell' = OnDialogClose(shell, w)
          /\ snags' = snags \cup (IF Forgets(shell, w) THEN {"left"} ELSE {})
          /\ UNCHANGED deskIn
       \/ parent = NoWindow /\ ~IsOpen(shell, w) /\ UNCHANGED <<shell, deskIn, snags>>

\* With a slip: room is made although the picture was in the list already.
CachedTooShort(pngs, look) ==
    LET i == IF Contains(pngs, look) THEN Min({j \in DOMAIN pngs : pngs[j] = look}) ELSE 0
        kept == IF Len(pngs) = CacheSize THEN Front(pngs) ELSE pngs
    IN <<look>> \o (IF i \in DOMAIN kept THEN RemoveAt(kept, i) ELSE kept)

\* With a slip: the list grows.
CachedAll(pngs, look) == <<look>> \o SelectSeq(pngs, LAMBDA l : l # look)

\* _onDialogPaintMsg: the list of pictures
Cached(pngs, look) ==
    LET i == IF Contains(pngs, look) THEN Min({j \in DOMAIN pngs : pngs[j] = look}) ELSE 0
        without == IF i > 0 THEN RemoveAt(pngs, i) ELSE pngs
    IN <<look>> \o (IF Len(without) = CacheSize THEN Front(without) ELSE without)

\* The picture is drawn when its image is decoded, later than here: the images of a window are
\* taken to be decoded in the order of their messages, and before it is launched again.
PaintDialog(s, w, look) ==
    IF IsOpen(s, w) THEN [s EXCEPT !.dialogs[w].drawn = look, !.dialogs[w].shown = TRUE] ELSE s

PaintDialogChild(s, parent, look) ==
    IF s.dialogs[parent].floating # NoWindow
    THEN [s EXCEPT !.dialogs[parent].floatDrawn = look] ELSE s

OnDialogPaint(w, look, png) ==
    LET parent == GetParentId(shell, w)
        s == [shell EXCEPT !.pngs = Cached(@, look)]
    IN /\ shell' = IF parent # NoWindow THEN PaintDialogChild(s, parent, look)
                   ELSE PaintDialog(s, w, look)
       /\ snags' = snags \cup (IF ~png /\ ~Contains(shell.pngs, look) THEN {"nopng"} ELSE {})
       /\ UNCHANGED deskIn

ShellReceives ==
    LET m == Head(deskOut)
    IN /\ deskOut # <<>> /\ deskOut' = Tail(deskOut)
       /\ \/ m[1] = "created" /\ m[4] = NoWindow /\ OnCreatedDialog(m[2], m[3])
          \/ m[1] = "created" /\ m[4] # NoWindow /\ OnCreatedChild(m[2], m[4])
          \/ m[1] = "invalidate" /\ OnInvalidate(m[2])
          \/ m[1] = "size_changed" /\ OnSizeChanged(m[2])
          \/ m[1] = "cursor_visible" /\ OnCursorVisible(m[2], m[3])
          \/ m[1] = "close" /\ OnCloseMsg(m[2])
          \/ m[1] = "windowpaint" /\ OnDialogPaint(m[2], m[3], m[4])
       /\ UNCHANGED <<desk, shellTurns>>

\* The user closes a dialog with its button.
UserClosesDialog(w) ==
    /\ ShellTurn /\ IsOpen(shell, w) /\ shell.dialogs[w].shown
    /\ shell' = OnDialogClose(shell, w)
    /\ deskIn' = Append(deskIn, <<"close", w>>)
    /\ snags' = snags \cup (IF Forgets(shell, w) THEN {"left"} ELSE {})
    /\ UNCHANGED <<desk, deskOut>>

\* A button of the mouse is let go somewhere in the document.
MouseUp ==
    /\ ShellTurn /\ IsPopUp(shell)
    /\ shell' = WithoutPopUp(shell)
    /\ deskIn' = deskIn \o SendClosePopUp(shell)
    /\ UNCHANGED <<desk, deskOut, snags>>

\* The connection is lost and the document loaded again by another kit.  _docLoaded takes
\* the dialogs off the page and leaves their entries.
LoseDesk ==
    /\ ShellTurn
    /\ desk' = [wins |-> [w \in Windows |-> Closed], next |-> 1, cache |-> <<>>]
    /\ deskIn' = <<>> /\ deskOut' = <<>>
    /\ shell' = [shell EXCEPT !.dialogs = [w \in Windows |->
                    [@[w] EXCEPT !.dom = FALSE, !.shown = FALSE, !.drawn = NoLook,
                                 !.floating = NoWindow, !.floatDrawn = NoLook]]]
    /\ UNCHANGED snags

DialogsNext ==
    \/ \E titled \in BOOLEAN, parent \in AnyWindow, look \in Looks : KitOpens(titled, parent, look)
    \/ \E w \in Windows :
          \/ \E look \in Looks : KitRepaints(w, look)
          \/ \E on \in BOOLEAN : KitCaret(w, on)
          \/ KitClosesByItself(w)
          \/ UserClosesDialog(w)
    \/ DeskAnswers
    \/ ShellReceives
    \/ MouseUp
    \/ LoseDesk

DialogsSpec == DialogsInit /\ [][DialogsNext]_dialogsVars

-----------------------------------------------------------------------------
(* Properties.                                                             *)

DialogsQuiet == deskIn = <<>> /\ deskOut = <<>>

\* When all messages are read, the page has the dialogs that the kit has, each shown as the kit
\* would paint it now, and the child window that hangs on it: closing, launching again and
\* painting cross each other on the way.  (Not after an id was taken for the child of a dialog
\* of an earlier kit, "reused"; a child does not survive "relaunched".)
DialogsMatch ==
    DialogsQuiet /\ "reused" \notin snags =>
        /\ OpenDialogs = {w \in Windows : IsOpen(shell, w)}
        /\ \A w \in OpenDialogs :
              /\ shell.dialogs[w].shown /\ shell.dialogs[w].drawn = desk.wins[w].look
              /\ \/ "relaunched" \in snags
                 \/ \A c \in ChildrenOf(w) : /\ shell.dialogs[w].floating = c
                                             /\ shell.dialogs[w].floatDrawn = desk.wins[c].look

\* A paint that comes without its picture finds it in the browser: the kit's list of hashes and
\* the browser's pictures are kept by different code, in different processes.
PictureIsKnown == "nopng" \notin snags

\* A pop-up that is open can be closed with a click beside it: it is the current dialog, unless
\* another dialog was closed under it ("left").
PopUpCanBeClosed ==
    "left" \notin snags =>
        \A w \in Windows : IsOpen(shell, w) /\ ~shell.dialogs[w].titled => shell.current = w

=============================================================================
