-------------------------- MODULE BrowserConnection -------------------------
(***************************************************************************)
(* The browser's connection to wsd, and whether its user is active:        *)
(* L.Socket (core/Socket.js), the activity part of L.Map (map/Map.js), the *)
(* alerts (control/Control.AlertDialog.js), the permission                 *)
(* (control/Permission.js), and what the WOPI host is told of loading      *)
(* (map/handler/Map.WOPI.js).                                              *)
(*                                                                         *)
(* All of it runs in one thread, so every handler is one step; what may    *)
(* interleave is the order in which the socket, the timers, the window and *)
(* the user call the handlers.  A handler that calls another is an         *)
(* operator on the state "map" that applies the other's operator.          *)
(*                                                                         *)
(* The handlers share two globals, vex.timer and vex.dialogID: whoever     *)
(* sets one forgets what it was for.  Of a dialog we keep its kind; one    *)
(* whose kind is in dialogID and not in shown has gone from the screen     *)
(* behind the code's back.                                                 *)
(***************************************************************************)
EXTENDS Naturals, Sequences

CONSTANTS MaxFaults,   \* bound: lost connections, errors and closing servers
          MaxRetries,  \* how often ReconnectCount lets docunloading retry
          MaxQueue,    \* bound: messages the user gives while not connected
          Escapes      \* BOOLEAN: the user may press Escape on an overlay

ASSUME ConnAssumption ==
    /\ MaxFaults \in Nat
    /\ MaxRetries \in Nat
    /\ MaxQueue \in Nat
    /\ Escapes \in BOOLEAN

VARIABLES
    map,      \* L.Map and L.Socket, see ConnTypeOK
    focused,  \* document.hasFocus()
    stage,    \* how far wsd has come with the present connection's session
    readonly, \* wsd has made this user's session read-only
    faults,   \* how much of MaxFaults is used up
    excuse    \* history: the first named hole through which activity was lost

connVars == <<map, focused, stage, readonly, faults, excuse>>

\* The overlays that dim the screen; the first two take a click.
Overlays == {"dim", "idle", "closed"}
Dialogs == Overlays \cup {"alert", "conflict"}
Timers == {"none", "check", "dim", "reload", "retry", "recycle"}
Conditions == {"docloaded", "updatepermission", "viewinfo"}

Excuses == {"none", "alert", "saved", "conflict", "escape", "retry", "giveup", "recycle"}

\* The fields of L.Map and L.Socket, and three for the history and the bounds.
Maps == [
    \* socket.readyState, "lost" while the close event is on its way
    conn: {"connecting", "open", "lost", "closed"},
    queue: Seq({"input"}),                       \* _msgQueue
    active: BOOLEAN, fatal: BOOLEAN,             \* _active, _fatal
    recycling: BOOLEAN, idle: BOOLEAN,           \* _serverRecycling, _documentIdle
    docLoaded: BOOLEAN, docLayer: BOOLEAN,       \* _docLoaded, is there a _docLayer
    reconnecting: BOOLEAN,                       \* _reconnecting
    retries: 0..(MaxRetries + 1),                \* ReconnectCount, capped above its limit
    dialogID: Dialogs \cup {"none"},             \* vex.dialogID
    shown: SUBSET Dialogs,                       \* the dialogs on the screen
    prompt: BOOLEAN,                             \* the password prompt is
    timer: Timers,                               \* vex.timer
    optPerm: {"edit", "readonly"},               \* options.permission
    perm: {"none", "edit", "view", "readonly"},  \* _permission
    appLoaded: BOOLEAN, conditions: SUBSET Conditions, \* of L.Map.WOPI
    told: BOOLEAN,    \* what wsd last heard: useractive or userinactive
    alwaysActive: BOOLEAN,                       \* options.alwaysActive
    reported: BOOLEAN, \* history: the user has seen that it failed
    refused: BOOLEAN,  \* new WebSocket() throws: too many are open
    gone: BOOLEAN]                               \* map.remove() was called

ConnTypeOK ==
    /\ map \in Maps
    /\ focused \in BOOLEAN
    /\ stage \in {"new", "ready", "loaded", "closing"}
    /\ readonly \in BOOLEAN
    /\ faults \in 0..MaxFaults
    /\ excuse \in Excuses

-----------------------------------------------------------------------------
(* Calls that several handlers make, on the state m of the map.            *)

Connected(m) == m.conn = "open"

\* L.Socket.sendMessage, without the reconnection (see SendInput): the two
\* messages below are only sent by callers that have seen an open socket.
SendActivity(m, isActive) ==
    IF m.fatal THEN m ELSE [m EXCEPT !.told = isActive]

\* vex.close(vex.dialogID) after vex.dialogID = -1.
CloseDialog(m) ==
    [m EXCEPT !.shown = @ \ {m.dialogID}, !.dialogID = "none"]

\* Opening an overlay or dialog: its id becomes vex.dialogID.
OpenDialog(m, kind) ==
    [m EXCEPT !.shown = @ \cup {kind}, !.dialogID = kind]

\* L.Control.AlertDialog._onError.
Alert(m) ==
    OpenDialog(IF m.fatal THEN m ELSE CloseDialog(m), "alert")

\* L.Map.WOPI._postLoaded for an event that happened.
PostLoaded(m, event) ==
    LET met == m.conditions \cup {event}
    IN  IF m.appLoaded THEN m
        ELSE [m EXCEPT !.conditions = met, !.appLoaded = met = Conditions]

\* resetAppLoaded, and the event docloaded with status false.
Unload(m) ==
    [m EXCEPT !.appLoaded = FALSE, !.conditions = {}, !.docLoaded = FALSE]

\* L.Socket.close: no handler of the old socket is called any more.
Close(m) == [Unload(m) EXCEPT !.conn = "closed"]

\* Map.loadDocument, L.Socket.connect.  The browser may refuse another socket.
LoadDocument(m) ==
    IF m.refused THEN [Alert(Close(m)) EXCEPT !.reported = TRUE]
    ELSE [Close(m) EXCEPT !.conn = "connecting"]

\* _startInactiveTimer
StartInactiveTimer(m) ==
    IF m.recycling \/ m.idle \/ ~m.docLoaded THEN m ELSE [m EXCEPT !.timer = "check"]

\* Mutant of Activate: wsd is not told.
ActivateSilently(m) ==
    LET cleared == [m EXCEPT !.timer = "none"]
    IN  IF m.recycling \/ m.idle THEN m
        ELSE IF m.active THEN StartInactiveTimer(cleared)
        ELSE IF ~Connected(m) THEN StartInactiveTimer(LoadDocument(cleared))
        ELSE StartInactiveTimer(CloseDialog([cleared EXCEPT !.active = TRUE]))

\* Mutant of Activate: a server that recycles is not waited for.
ActivateAnyway(m) ==
    LET cleared == [m EXCEPT !.timer = "none"]
    IN  IF m.active THEN StartInactiveTimer(cleared)
        ELSE IF ~Connected(m) THEN StartInactiveTimer(LoadDocument(cleared))
        ELSE StartInactiveTimer(CloseDialog([SendActivity(cleared, TRUE) EXCEPT !.active = TRUE]))

\* _activate.  With the conflict dialog open it returns early, and with a
\* dialog that the user has dismissed it throws: both leave no timer.
Activate(m) ==
    LET cleared == [m EXCEPT !.timer = "none"]
        awake == [SendActivity(cleared, TRUE) EXCEPT !.active = TRUE]
        aborts == m.dialogID # "none"
                  /\ (m.dialogID = "conflict" \/ m.dialogID \notin m.shown)
    IN  IF m.recycling \/ m.idle THEN m
        ELSE IF m.active THEN StartInactiveTimer(cleared)
        ELSE IF ~Connected(m) THEN StartInactiveTimer(LoadDocument(cleared))
        ELSE IF aborts THEN awake
        ELSE StartInactiveTimer(CloseDialog(awake))

\* _deactivate.  The first branch takes a dialogID for a dialog on the screen.
Deactivate(m) ==
    IF m.recycling \/ m.idle \/ ~m.docLoaded THEN m
    ELSE IF ~m.active \/ m.dialogID # "none" THEN
        LET asleep == [m EXCEPT !.timer = "none", !.active = FALSE]
        IN  IF Connected(m) THEN SendActivity(asleep, FALSE) ELSE asleep
    ELSE [m EXCEPT !.timer = "dim"]

\* Mutant of Dim: the screen is not dimmed.
DimUnseen(m, long) ==
    LET fired == [m EXCEPT !.timer = "none"]
    IN  IF m.alwaysActive \/ ~Connected(m) THEN fired
        ELSE IF ~long THEN [m EXCEPT !.timer = "dim"]
        ELSE SendActivity([fired EXCEPT !.active = FALSE], FALSE)

\* _dim, in a timer that has fired; "long" is that the user's last action is
\* longer ago than the grace period.
Dim(m, long) ==
    LET fired == [m EXCEPT !.timer = "none"]
    IN  IF m.alwaysActive \/ ~Connected(m) THEN fired
        ELSE IF ~long THEN [m EXCEPT !.timer = "dim"]
        ELSE SendActivity(OpenDialog([fired EXCEPT !.active = FALSE], "dim"), FALSE)

\* The event docloaded with status true: first WOPI's handler, then the map's.
DocLoaded(m, hasFocus) ==
    LET loaded == [PostLoaded(m, "docloaded") EXCEPT !.docLoaded = TRUE]
    IN  IF hasFocus THEN Activate(loaded) ELSE Deactivate(loaded)

\* setPermission, for a desktop browser that edits in the document's format;
\* _enterEditMode and _enterReadOnlyMode fire updatepermission.
SetPermission(m, perm) ==
    IF perm \in {"edit", "view", "readonly"}
    THEN PostLoaded([m EXCEPT !.perm = perm], "updatepermission")
    ELSE m

\* The event error with a message: the alert, then _mapOnError.
Error(m) ==
    IF m.docLayer /\ m.perm = "edit" THEN SetPermission(Alert(m), "view") ELSE Alert(m)

\* L.Socket.sendMessage of anything that is not about activity.
SendMessage(m) ==
    IF m.fatal \/ ~m.active \/ m.conn = "open" THEN m
    ELSE IF m.conn = "connecting" THEN [m EXCEPT !.queue = Append(@, "input")]
    ELSE [LoadDocument(m) EXCEPT !.queue = Append(@, "input")]

-----------------------------------------------------------------------------
(* The socket.                                                             *)

\* The hole, if this step is the first to fall through one.
Excuse(hole, falls) == excuse' = IF falls /\ excuse = "none" THEN hole ELSE excuse

Fault == faults < MaxFaults /\ faults' = faults + 1

\* L.Socket._onSocketOpen: loolclient and load go first, then the queue.
OnSocketOpen ==
    /\ map.conn = "connecting"
    /\ map' = Activate([map EXCEPT !.conn = "open", !.recycling = FALSE, !.idle = FALSE,
                                   !.reconnecting = IF map.docLayer THEN TRUE ELSE @, !.queue = <<>>,
                                   !.told = TRUE, !.reported = FALSE])
    /\ stage' = "new"
    /\ UNCHANGED <<focused, readonly, faults, excuse>>

\* The connection breaks, or wsd closes it: its close event is on its way.
LoseConnection ==
    /\ map.conn = "open"
    /\ \/ stage = "closing" /\ UNCHANGED faults
       \/ stage # "closing" /\ Fault
    /\ map' = [map EXCEPT !.conn = "lost"]
    /\ stage' = "closing"
    /\ UNCHANGED <<focused, readonly, excuse>>

\* Mutant of Disconnected: the host is not told of the next load.
DisconnectedQuietly(m) ==
    LET off == [m EXCEPT !.conn = "closed", !.active = FALSE, !.docLoaded = FALSE]
    IN  IF m.reconnecting THEN off ELSE Activate([off EXCEPT !.reconnecting = TRUE])

\* L.Socket._onSocketClose
Disconnected(m) ==
    LET failed == m.active /\ m.reconnecting
        closed == [m EXCEPT !.conn = "closed", !.active = FALSE]
        off == Unload(IF failed THEN [Error(closed) EXCEPT !.reported = TRUE] ELSE closed)
    IN  IF m.reconnecting THEN off ELSE Activate([off EXCEPT !.reconnecting = TRUE])

\* The silent end: not the first attempt, and nobody else tries again.
GivesUpSilently(m) == m.reconnecting /\ ~m.active /\ ~m.recycling /\ ~m.idle

\* A connection ends, or an attempt to connect fails.
OnSocketClose ==
    /\ \/ map.conn = "lost" /\ UNCHANGED faults
       \/ map.conn = "connecting" /\ Fault
    /\ map' = Disconnected(map)
    /\ Excuse("retry", GivesUpSilently(map))
    /\ UNCHANGED <<focused, stage, readonly>>

-----------------------------------------------------------------------------
(* L.Socket._onMessage, by message.                                        *)

\* An overlay of an inactive user goes, and nothing else brings him back.
Uncovers(m) == ~m.active /\ ~m.fatal /\ m.dialogID \in Overlays \cap m.shown

\* A message of wsd, in one of the stages, that leads to the next state m.
Receive(stages, next, m) ==
    /\ map.conn = "open"
    /\ stage \in stages
    /\ map' = m
    /\ stage' = next
    /\ UNCHANGED focused

Calmly == UNCHANGED <<faults, excuse, readonly>>
Badly == Fault /\ UNCHANGED <<excuse, readonly>>

\* "statusindicator: ready"
OnReady ==
    /\ Receive({"new"}, "ready",
               [CloseDialog(map) EXCEPT !.retries = 0, !.timer = "none"])
    /\ Calmly

\* Mutant of MakeReadOnly: the option is what follows the colon.
MakeAsReceived(m) == SetPermission([m EXCEPT !.optPerm = " readonly"], " readonly")

\* "perm: readonly": what follows the colon, and is given to setPermission,
\* begins with the blank.
MakeReadOnly(m) == SetPermission([m EXCEPT !.optPerm = "readonly"], " readonly")

\* wsd sends it while it adds the session.
OnPerm ==
    /\ ~readonly
    /\ Receive({"ready"}, "ready", MakeReadOnly(map))
    /\ readonly' = TRUE
    /\ UNCHANGED <<faults, excuse>>

\* Mutant of StatusOf: a reconnected document keeps its permission.
StatusKept(m) ==
    DocLoaded(IF ~m.docLayer THEN SetPermission([m EXCEPT !.docLayer = TRUE], m.optPerm)
              ELSE [m EXCEPT !.reconnecting = FALSE], focused)

\* "status:" creates the document layer, whose onAdd sets the permission, or
\* ends the reconnection.
StatusOf(m) ==
    DocLoaded(IF ~m.docLayer THEN SetPermission([m EXCEPT !.docLayer = TRUE], m.optPerm)
              ELSE IF m.reconnecting
              THEN SetPermission([m EXCEPT !.reconnecting = FALSE], m.optPerm)
              ELSE m, focused)

OnStatus == Receive({"ready"}, "loaded", StatusOf(map)) /\ Calmly

\* The event viewinfo, of the message "viewinfo:".
OnViewInfo ==
    /\ "viewinfo" \notin map.conditions
    /\ Receive({"loaded"}, "loaded", PostLoaded(map, "viewinfo"))
    /\ Calmly

\* "commandresult:" of a savetostorage, which wsd broadcasts to every session.
OnSaved ==
    /\ Receive({"loaded"}, "loaded", CloseDialog(map))
    /\ Excuse("saved", Uncovers(map))
    /\ UNCHANGED <<faults, readonly>>

\* "error: cmd=storage": a warning, ...
OnStorageError ==
    /\ Receive({"loaded"}, "loaded", Alert(map))
    /\ Excuse("alert", Uncovers(map))
    /\ UNCHANGED <<faults, readonly>>

\* ... with kind=documentconflict a question, ...
OnConflict ==
    /\ "conflict" \notin map.shown
    /\ Receive({"loaded"}, "loaded", OpenDialog(CloseDialog(map), "conflict"))
    /\ Excuse("conflict", Uncovers(map))
    /\ UNCHANGED <<faults, readonly>>

\* ... and with kind=loadfailed the end of the connection.
OnLoadFailed ==
    Receive({"ready"}, "closing", [Alert(Close(map)) EXCEPT !.reported = TRUE]) /\ Badly

\* "error: cmd=internal"
OnInternalError ==
    /\ Receive({"ready", "loaded"}, "closing", Close(Error([map EXCEPT !.fatal = TRUE])))
    /\ Badly

\* "error: cmd=load" with a password that is missing or wrong.
OnPasswordRequired ==
    Receive({"ready"}, "closing", [Close(map) EXCEPT !.prompt = TRUE]) /\ Badly

\* "error: cmd=load kind=faileddocloading" or docloadtimeout.
OnFailedDocLoading ==
    Receive({"ready"}, "closing", Error([Close(map) EXCEPT !.fatal = TRUE])) /\ Badly

\* Mutant of Unloading: no timer tries again.
UnloadingForGood(m) == [Close(m) EXCEPT !.active = FALSE, !.timer = "none"]

\* "error: cmd=load kind=docunloading".  A document layer passes it on to the
\* alert control, which closes the dialog that is open and keeps its id.
Unloading(m) ==
    LET off == [Close(m) EXCEPT !.active = FALSE, !.timer = "none",
                                !.retries = IF @ > MaxRetries THEN @ ELSE @ + 1]
        hidden == IF m.docLayer /\ ~m.fatal THEN [off EXCEPT !.shown = @ \ {m.dialogID}] ELSE off
    IN  IF m.retries >= MaxRetries THEN off
        ELSE [hidden EXCEPT !.timer = "retry"]

OnDocUnloading ==
    /\ Receive({"new"}, "closing", Unloading(map))
    /\ Excuse("giveup", map.retries >= MaxRetries)
    /\ Fault
    /\ UNCHANGED readonly

\* An error, such as hardlimitreached, before there is a document layer.
OnUnavailable ==
    /\ ~map.docLayer
    /\ Receive({"new", "ready"}, "closing", Error([map EXCEPT !.fatal = TRUE, !.active = FALSE]))
    /\ Badly

\* "saveas:" or "renamefile:" with the new document's url.
OnSaveAs ==
    /\ Len(map.queue) < MaxQueue
    /\ Receive({"loaded"}, "closing", SendMessage(LoadDocument(map)))
    /\ Badly

\* "close: ownertermination" removes the map.
OnOwnerTermination ==
    /\ Receive({"loaded"}, "closing",
               [Close(OpenDialog(CloseDialog(map), "closed")) EXCEPT !.gone = TRUE])
    /\ Badly

\* "close: idle" or oom: the overlay waits for a click.
OnIdle ==
    /\ Receive({"loaded"}, "closing", OpenDialog(CloseDialog([map EXCEPT !.idle = TRUE]), "idle"))
    /\ Badly

\* "close: shuttingdown" or docdisconnected.
OnShuttingDown ==
    Receive({"loaded"}, "closing", OpenDialog(CloseDialog(map), "closed")) /\ Badly

\* "close: recycling": an interval tries until wsd is back.
OnRecycling ==
    /\ Receive({"new", "ready", "loaded"}, "closing",
               OpenDialog(CloseDialog([map EXCEPT !.active = FALSE, !.recycling = TRUE,
                                                  !.timer = "recycle"]), "closed"))
    /\ Badly

\* "close: documentconflict" or versionrestore: the document is loaded anew.
Reload(m) ==
    OpenDialog(CloseDialog([Close(m) EXCEPT !.active = FALSE, !.timer = "reload"]), "closed")

OnReload == Receive({"loaded"}, "closing", Reload(map)) /\ Badly

-----------------------------------------------------------------------------
(* The timers, the window and the user.                                    *)

\* vex.timer fires: _dimIfInactive, _dim, _activate or, while wsd recycles,
\* loadDocument until it is connected.  "idle" and "away" are whether the
\* user's last action is longer ago than the two time limits.
TimerFires(m, idle, away) ==
    CASE m.timer = "check" ->
            IF m.docLoaded /\ idle THEN Dim(m, away)
            ELSE StartInactiveTimer([m EXCEPT !.timer = "none"])
      [] m.timer = "dim" -> Dim(m, away)
      [] m.timer \in {"reload", "retry"} -> Activate(m)
      [] m.timer = "recycle" ->
            IF Connected(m) THEN [CloseDialog(m) EXCEPT !.timer = "none"] ELSE LoadDocument(m)

\* The old connection, which wsd is about to close, passes for the new one.
StillConnected(m) == m.recycling /\ Connected(m)

OnTimer ==
    /\ map.timer # "none" /\ ~map.gone
    /\ \E idle, away \in BOOLEAN : map' = TimerFires(map, idle, away)
    /\ Excuse("recycle", map.timer = "recycle" /\ StillConnected(map))
    /\ UNCHANGED <<focused, stage, readonly, faults>>

\* _onGotFocus and _onLostFocus, unless remove() has unregistered them.
OnFocus ==
    /\ focused' = ~focused
    /\ map' = IF map.gone THEN map ELSE IF focused THEN Deactivate(map) ELSE Activate(map)
    /\ UNCHANGED <<stage, readonly, faults, excuse>>

\* A click on the overlay of _dim, or on that of an idle document.
ClickOverlay ==
    /\ focused /\ ~map.gone
    /\ \/ "dim" \in map.shown /\ map' = Activate(map)
       \/ "idle" \in map.shown /\ map' = Activate([map EXCEPT !.idle = FALSE])
    /\ UNCHANGED <<focused, stage, readonly, faults, excuse>>

\* The user dismisses an alert, or presses Escape: vex closes the dialog, and
\* vex.dialogID does not change.
Dismiss ==
    /\ focused /\ ~map.gone
    /\ \E kind \in map.shown \ {"conflict"} :
          /\ kind = "alert" \/ Escapes
          /\ map' = [map EXCEPT !.shown = @ \ {kind}]
          /\ Excuse("escape", kind \in Overlays)
    /\ UNCHANGED <<focused, stage, readonly, faults>>

\* One of the three answers to the conflict dialog: each sends a message.
AnswerConflict ==
    /\ focused /\ ~map.gone
    /\ "conflict" \in map.shown
    /\ Len(map.queue) < MaxQueue
    /\ map' = SendMessage([map EXCEPT !.shown = @ \ {"conflict"}])
    /\ UNCHANGED <<focused, stage, readonly, faults, excuse>>

\* The answer to the password prompt: a password, or the user leaves.
AnswerPrompt ==
    /\ focused /\ map.prompt /\ ~map.gone
    /\ \/ map' = LoadDocument([map EXCEPT !.prompt = FALSE])
       \/ map' = [Close(map) EXCEPT !.prompt = FALSE, !.gone = TRUE]
    /\ UNCHANGED <<focused, stage, readonly, faults, excuse>>

\* The user works in the document, which is not behind an overlay.
UserInput ==
    /\ focused /\ map.docLayer /\ ~map.gone
    /\ map.shown = {} /\ ~map.prompt
    /\ map.conn # "open" /\ Len(map.queue) < MaxQueue
    /\ map' = SendMessage(map)
    /\ UNCHANGED <<focused, stage, readonly, faults, excuse>>

\* The browser reaches, or leaves, its limit of open sockets.
SocketLimit ==
    /\ IF map.refused THEN UNCHANGED faults ELSE Fault
    /\ map' = [map EXCEPT !.refused = ~@]
    /\ UNCHANGED <<focused, stage, readonly, excuse>>

-----------------------------------------------------------------------------

\* main.js has called loadDocument.
ConnInit ==
    /\ \E always \in BOOLEAN :
          map = [conn |-> "connecting", queue |-> <<>>, active |-> TRUE, fatal |-> FALSE,
                 recycling |-> FALSE, idle |-> FALSE, docLoaded |-> FALSE, docLayer |-> FALSE,
                 reconnecting |-> FALSE, retries |-> 0, dialogID |-> "none", shown |-> {},
                 prompt |-> FALSE, timer |-> "none", optPerm |-> "edit", perm |-> "none",
                 appLoaded |-> FALSE, conditions |-> {}, told |-> TRUE,
                 alwaysActive |-> always, reported |-> FALSE, refused |-> FALSE, gone |-> FALSE]
    /\ focused \in BOOLEAN
    /\ stage = "new"
    /\ readonly = FALSE
    /\ faults = 0
    /\ excuse = "none"

\* What goes well: wsd serves the connection.
Served == OnReady \/ OnStatus \/ OnViewInfo

Message ==
    \/ Served \/ OnPerm \/ OnSaved \/ OnStorageError \/ OnConflict \/ OnLoadFailed
    \/ OnInternalError \/ OnPasswordRequired \/ OnFailedDocLoading \/ OnDocUnloading
    \/ OnUnavailable \/ OnSaveAs \/ OnOwnerTermination \/ OnIdle \/ OnShuttingDown
    \/ OnRecycling \/ OnReload

User ==
    \/ OnFocus \/ ClickOverlay \/ Dismiss \/ AnswerConflict \/ AnswerPrompt \/ UserInput

ConnNext ==
    \/ OnSocketOpen \/ LoseConnection \/ OnSocketClose
    \/ Message \/ OnTimer \/ User \/ SocketLimit

\* The browser's event loop delivers what happened to a socket, timers fire,
\* an attempt to connect ends, and wsd answers a load.
ConnFairness ==
    /\ WF_connVars(OnSocketOpen)
    /\ WF_connVars(stage = "closing" /\ LoseConnection)
    /\ WF_connVars(map.conn = "lost" /\ OnSocketClose)
    /\ WF_connVars(OnTimer)
    /\ WF_connVars(Served)

ConnSpec == ConnInit /\ [][ConnNext]_connVars /\ ConnFairness

-----------------------------------------------------------------------------
(* Properties.                                                             *)

\* wsd has been told what the client believes (_activate, _deactivate, _dim):
\* an active client gets its tiles, an inactive one is not kept busy.
ServerKnowsActivity ==
    map.conn = "open" /\ ~map.fatal /\ ~map.recycling => map.told = map.active

\* A client that drops all its user does (sendMessage) shows him so: while the
\* window has the focus, a connected and inactive client is behind an overlay.
InactiveIsShown ==
    map.conn = "open" /\ ~map.active /\ focused /\ ~map.fatal /\ excuse = "none"
        => map.shown \cap Overlays # {}

\* A client without a connection goes on trying, or has said why not
\* (_onSocketClose, the timers of _onMessage).
NoSilentEnd ==
    map.conn = "closed" /\ ~map.active /\ focused /\ excuse = "none"
        => \/ map.timer \in {"reload", "retry", "recycle"}
           \/ map.shown # {} \/ map.reported \/ map.fatal \/ map.gone

\* The host is told Document_Loaded only of the document that is loaded now
\* (_postLoaded, resetAppLoaded).
HostKnowsLoaded ==
    map.appLoaded => map.docLoaded /\ map.conn \in {"open", "lost"}

\* A session that wsd has made read-only is never offered for editing, also
\* after it has reconnected (the messages perm: and status:).
ReadOnlyIsKept == readonly /\ map.docLoaded => map.perm # "edit"

\* While wsd recycles, the interval that reconnects is not lost to another use
\* of vex.timer (_activate, _deactivate, _startInactiveTimer).
RecyclingIsWaitedFor ==
    map.recycling /\ excuse = "none" => map.timer = "recycle"

\* Once nothing fails any more, the client is connected again, with its queue
\* sent, the document loaded and the host told; or its user knows why not.
ConnectionRecovers ==
    <>[](\/ map.conn = "open" /\ map.docLoaded /\ map.appLoaded /\ map.queue = <<>>
         \/ map.fatal \/ map.gone \/ map.prompt \/ map.reported
         \/ map.shown # {} \/ excuse # "none")

\* Those at the other ends believe what is true: wsd of the user's activity, the host of the
\* document, and a client that waits for a server being recycled goes on waiting.
PartnersAgree ==
    /\ ServerKnowsActivity
    /\ HostKnowsLoaded
    /\ RecyclingIsWaitedFor

\* The user sees the state of the connection: a document that is not live is dimmed, one whose
\* connection has ended says so, and one that became read-only cannot be edited.
ConnectionIsShown ==
    /\ InactiveIsShown
    /\ NoSilentEnd
    /\ ReadOnlyIsKept

=============================================================================
