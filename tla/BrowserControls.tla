---- MODULE BrowserControls ----
(***************************************************************************)
(* The parts of the browser client around the document and what drives     *)
(* them: dialogs and sidebars of the kit, the tool bars and menus, saving  *)
(* and closing, the map with its scroll bars, the mouse and fingers, the   *)
(* keyboard, loading, and the administrator's console with its uploads.    *)
(*                                                                         *)
(* As in BrowserDocument a behaviour is one of a part drawn at the start.  *)
(***************************************************************************)
EXTENDS BrowserDialogs, BrowserToolbar, BrowserSaving, BrowserMap,
        BrowserPointer, BrowserKeyboard, BrowserAdmin, BrowserUpload,
        BrowserLaunch, BrowserMenus

VARIABLE usedPart    \* the part of the client this behaviour is about

ControlParts == {"dialogs", "toolbar", "saving", "map", "pointer", "keyboard", "console",
                 "uploads", "launch", "menus"}

controlVars == <<usedPart, dialogsVars, barVars, saveVars, mapVars, pointerVars, keyboardVars,
                 adminVars, uploadVars, launchVars, menusVars>>

\* Every part has its type, in every behaviour: what arrives from the kit, the
\* user and the timers leaves each handler with state it can go on from.
ControlsTypeOK ==
    /\ usedPart \in ControlParts
    /\ usedPart = "dialogs" => DialogsTypeOK
    /\ usedPart = "toolbar" => ToolbarTypeOK
    /\ usedPart = "saving" => SavingTypeOK
    /\ usedPart = "map" => MapTypeOK
    /\ usedPart = "pointer" => PointerTypeOK
    /\ usedPart = "keyboard" => KeyboardTypeOK
    /\ usedPart = "console" => AdminTypeOK
    /\ usedPart = "uploads" => UploadTypeOK
    /\ usedPart = "launch" => LaunchTypeOK
    /\ usedPart = "menus" => MenusTypeOK

ControlsInit ==
    /\ usedPart \in ControlParts
    /\ DialogsInit
    /\ ToolbarInit
    /\ SavingInit
    /\ MapInit
    /\ PointerInit
    /\ KeyboardInit
    /\ AdminInit
    /\ UploadInit
    /\ LaunchInit
    /\ MenusInit

ControlsNext ==
    /\ UNCHANGED usedPart
    /\ \/ /\ usedPart = "dialogs"
          /\ DialogsNext
          /\ UNCHANGED <<barVars, saveVars, mapVars, pointerVars, keyboardVars, adminVars,
                         uploadVars, launchVars, menusVars>>
       \/ /\ usedPart = "toolbar"
          /\ ToolbarNext
          /\ UNCHANGED <<dialogsVars, saveVars, mapVars, pointerVars, keyboardVars, adminVars,
                         uploadVars, launchVars, menusVars>>
       \/ /\ usedPart = "saving"
          /\ SavingNext
          /\ UNCHANGED <<dialogsVars, barVars, mapVars, pointerVars, keyboardVars, adminVars,
                         uploadVars, launchVars, menusVars>>
       \/ /\ usedPart = "map"
          /\ MapNext
          /\ UNCHANGED <<dialogsVars, barVars, saveVars, pointerVars, keyboardVars, adminVars,
                         uploadVars, launchVars, menusVars>>
       \/ /\ usedPart = "pointer"
          /\ PointerNext
          /\ UNCHANGED <<dialogsVars, barVars, saveVars, mapVars, keyboardVars, adminVars,
                         uploadVars, launchVars, menusVars>>
       \/ /\ usedPart = "keyboard"
          /\ KeyboardNext
          /\ UNCHANGED <<dialogsVars, barVars, saveVars, mapVars, pointerVars, adminVars,
                         uploadVars, launchVars, menusVars>>
       \/ /\ usedPart = "console"
          /\ AdminNext
          /\ UNCHANGED <<dialogsVars, barVars, saveVars, mapVars, pointerVars, keyboardVars,
                         uploadVars, launchVars, menusVars>>
       \/ /\ usedPart = "uploads"
          /\ UploadNext
          /\ UNCHANGED <<dialogsVars, barVars, saveVars, mapVars, pointerVars, keyboardVars,
                         adminVars, launchVars, menusVars>>
       \/ /\ usedPart = "launch"
          /\ LaunchNext
          /\ UNCHANGED <<dialogsVars, barVars, saveVars, mapVars, pointerVars, keyboardVars,
                         adminVars, uploadVars, menusVars>>
       \/ /\ usedPart = "menus"
          /\ MenusNext
          /\ UNCHANGED <<dialogsVars, barVars, saveVars, mapVars, pointerVars, keyboardVars,
                         adminVars, uploadVars, launchVars>>

ControlsSpec == ControlsInit /\ [][ControlsNext]_controlVars

\* Of mouse, fingers and keyboard nothing is lost, doubled or out of order, and no button or
\* key stays pressed for the kit that the user let go.
InputIsRight ==
    /\ usedPart = "pointer" =>
        /\ ButtonIsReleased
        /\ OrderIsKept
        /\ NothingGoesOn
    /\ usedPart = "keyboard" =>
        /\ StrokeIsSent
        /\ TextArrivesOnce
        /\ KeyboardIsWanted

\* The windows on the screen are the kit's, each with a picture of its present content, and a
\* pop-up can be closed.
DialogsAreRight ==
    usedPart = "dialogs" =>
        /\ DialogsMatch
        /\ PictureIsKnown
        /\ PopUpCanBeClosed

\* The buttons follow the kit and the permission of the user, and send nothing that either
\* forbids; the lists and the groups that come and go are complete when they are shown.
ButtonsAreRight ==
    /\ [](usedPart = "toolbar" =>
           /\ ButtonsFollowKit
           /\ ChecksFollowKit
           /\ ReadersHaveNoButtons
           /\ ReadersSendNothing
           /\ FontListIsComplete
           /\ PageButtonsFit
           /\ FormulaButtonsAreShown)
    /\ NothingDisabledIsSent
    /\ [](usedPart = "menus" =>
           /\ MenusAreWellBuilt
           /\ EntriesAreThereOnce
           /\ RepairIsForOne
           /\ TypingRunsNothing
           /\ ContextIsOfTheClick)
    /\ HeaderIsToggledAsShown
    /\ ReadersRunNothing

\* A document is loaded once it is asked for, with one question at a time and no message lost but
\* with the connection; one that was closed is stored, one that is kept open stays so, the host is
\* told and answered, and no message of being busy stays for ever.
OpeningAndClosingAreRight ==
    /\ usedPart = "launch" =>
        /\ QueueIsKept
        /\ PromptIsAlone
        /\ BarEnds
        /\ EditorMayWrite
        /\ HostIsToldOnce
        /\ LaunchIsComplete
    /\ usedPart = "saving" =>
        /\ ClosedMeansStored
        /\ KeptOpenStaysOpen
        /\ CloseIsObeyed
        /\ HostIsAnswered
        /\ BusyEnds

\* The scroll bars, the map and the zoom agree once all motion is over, and the view is within
\* the document.
MapIsRight ==
    usedPart = "map" =>
        /\ BarFollowsView
        /\ MoveIsFollowed
        /\ ViewInBounds
        /\ ZoomIsOver

\* The administrator sees what runs: rows, totals and charts are the server's, the fonts and the
\* package that are sent arrive whole, and an upload that was started ends.
ConsoleIsRight ==
    /\ usedPart = "console" =>
        /\ RowsAreTheServers
        /\ TotalsAreTheServers
        /\ ChartsAreTheServers
    /\ usedPart = "uploads" =>
        /\ FontsAreWhole
        /\ UploadsEnd
        /\ MoveFindsFile
        /\ UpgradesAreWhole

====
