# Verification of ndcodfweb

ndcodfweb (a LibreOffice/Collabora Online derivative) lets several users edit
one office document in their browsers.  This directory holds TLA+ models of the
logic of its server and of its browser client, the TLC configurations that check
them on small instances, and TLAPS proofs of properties that hold for every
instance.

The repository is the reference: every definition is translated from the source,
and `PROJECT.json` ("map") names the lines.  Line numbers are those of the files
under `src/`.

| Section | |
|---|---|
| 1 | the system: its parts, what they share, what is hard |
| 2 | the modules, and how they are composed |
| 3 | the server's models |
| 4 | the browser's models |
| 5 | the runs: instances, bounds, fairness |
| 6 | the proofs |
| 7 | what is only model-checked, and why |
| 8 | where code and comments disagree |
| 9 | more hazards |
| 10 | not modelled; the plan |

## 1. The system: inventory

### Processes and threads

| Part | Source | State it keeps | Operations |
|---|---|---|---|
| wsd, main and accept threads | `wsd/LOOLWSD.cpp` | the map `DocBrokers`, the pool `NewChildren`, `OutstandingForks` | accept clients and kits, find or create a broker, clean up brokers, prespawn children |
| document broker (one thread per document) | `wsd/DocumentBroker.cpp` | `_sessions`, `_isLoaded`, `_isModified`, `_markToDestroy`, `_closeRequest`, `_stop`, times of the last save request, response and activity, `_documentChangedInStorage` | load, add and remove sessions, autosave, save to storage, close, forward messages, the polling loop |
| client session (in the broker's thread) | `wsd/ClientSession.cpp` | read-only, owner, view loaded, close frame, tiles on the fly, requested tiles, sender queue | handle the client's commands and the kit's answers |
| tile cache (in the broker's thread) | `wsd/TileCache.cpp` | tiles by position, `_tilesBeingRendered` with versions and subscribers | look up, subscribe, store, invalidate |
| storage | `wsd/Storage.cpp` | file info (timestamps), the jailed file | load into the jail, upload (WOPI or local) |
| kit process (one per document) | `kit/Kit.cpp`, `kit/ChildSession.cpp` | sessions, views, `_isLoading`, the document in memory, the message queue | load, edit, save, render, unload, exit |
| forkit | `kit/ForKit.cpp` | the number of children to fork | fork kits on demand |
| queues | `common/MessageQueue.cpp`, `wsd/SenderQueue.hpp` | messages waiting for the kit / the client | merge, replace, prioritise |
| admin console | `wsd/Admin.cpp`, `wsd/AdminModel.cpp`, `loleaflet/admin/` | documents, views, samples; a page's own account of them | notifications from brokers, subscriptions, queries, uploads |
| browser client (one thread) | `loleaflet/` | the socket and its queue, the map and its tiles, the views of others, selections, headers, previews, comments, dialogs, tool bars, menus | handlers of the socket's messages, of timers, of the mouse, the keyboard, the host page |
| polling and sockets | `net/Socket.hpp`, `net/WebSocketHandler.hpp` | poll sets, callbacks, close handshake | poll, wake up, shut down |
| file server, authentication, templates | `wsd/FileServer.cpp`, `wsd/Auth.cpp` | none that lasts | HTTP requests |

### How they interact

A client's WebSocket is accepted in the main thread, which finds or creates the
document's broker and moves the socket into the broker's poll (a callback run by
the broker's thread).  From then on everything about the document happens in the
broker's thread, one handler after the other: input of the clients, input of the
kit, callbacks, and the body of `pollThread()`'s loop after each `poll()`.
Broker and kit are two processes with one WebSocket between them, FIFO each way,
and one shared file: the document in the kit's jail, which the kit writes on
`.uno:Save` and the broker uploads when it hears of the result.

So one save of a document takes five steps in two processes: the broker asks,
the kit writes the file, the kit reports a result and a change of the modified
state (two callbacks), the broker uploads, the broker decides what the answer
was for.  Sessions come and go, users type and the broker's own timers fire
between any two of them.

A browser talks to the kit through wsd, which keeps the order of what each side
sends.  The page runs in one thread, but what calls its handlers comes in any
order: messages, timers, animation frames, images that have been decoded, the
user and the page the browser is embedded in.  Most of its handlers show the
outcome of a command before the kit has carried it out, and are corrected by a
later message.

### What is hard

- a save requested earlier is answered while a later one is under way;
- the modified flag is a message behind the kit;
- a session whose client is gone stays listed until a save is answered;
- the kit may crash, fail to load, fail to save, or be slower than a timeout;
- the upload may fail or meet a change in the storage after the kit has
  already declared the document clean;
- a client joins while the last one leaves;
- brokers are found and created, started, ended and removed from the map in
  three kinds of threads, and a client's socket travels between two of them;
- kits are asked for in one process, forked in another and connect on their own:
  they come late, twice, or never;
- a tile is requested, rendered, cached, sent, drawn and acknowledged while the
  document changes, several users wait for it, and each of the four parties
  leaves out what it believes the next one has already;
- a browser goes by numbers and places (a sheet, a slide, a row, a comment) that
  other users' commands change while its own are under way;
- a gesture of the user spans several events, between which the selection, the
  permission or the document may change;
- one timer, one dialog and one flag serve several purposes, each of which
  forgets the others'.

`PROJECT.json` lists these under "hazards", each at its line; section 9 has more.

### What makes each part correct

- broker, sessions, kit: no edit of a user is lost; the storage never goes
  back to an older state; a broker ends once its users have left and not before;
  the kit knows the sessions the broker knows.
- tile cache and flow control: no client is left with an outdated tile; every
  requested tile is delivered; tiles on the fly stay bounded.
- map of brokers, pool of children: one live broker for a document; a broker in
  its end is never handed out; a requested child is eventually there.
- queues: what is merged or dropped is replaced by something at least as new.
- browser: when all is quiet, what is shown is what the kit has; a command
  reaches what the user saw when he gave it; what the user does is sent, once
  and in order; nothing stays locked, dimmed, pressed or listened to.
- admin console: a page's account is the server's; a file is installed whole or
  not at all.

## 2. The modules

```
DocumentLifecycle            sessions, saving, storing, ending
  DocumentBroker, KitDocument, KitChannel
  DurableDocument            what it promises (abstract)
TileService                  tiles
  TileCache, TileQueue
WsdServer                    brokers, pool, forkit
  DocBrokers, ChildPool
BrowserConnection            the browser's socket, dialogs over the document, presence
BrowserDocument              what the browser shows of the document
  BrowserTiles BrowserViews BrowserClipboard BrowserGraphic BrowserTransform
  BrowserCells BrowserHeaders BrowserSheets BrowserSlides BrowserComments
BrowserControls              what the user works with around it
  BrowserDialogs BrowserToolbar BrowserMenus BrowserSaving BrowserLaunch BrowserMap
  BrowserPointer BrowserKeyboard BrowserAdmin BrowserUpload
```

`MC...` modules give a small instance its constants where a `.cfg` cannot, and
`..._proofs` modules hold the theorems.

Two conventions run through all of them.

**History and named holes.**  Code that keeps a promise in all but a few cases
is described by a history variable that collects the names of those cases
(`excuses`, `excuse`, `holes`, `gaps`, ...).  The property says that the promise
holds unless a named case took place.  What a run shows is then that the list is
complete: nothing else breaks the promise.  Each name is set by the action in
which it happens and each is reached by a run.

**Slips.**  A definition whose comment begins "With a slip:" is the code with a
plausible mistake.  Nothing refers to it; put in the place of the definition
after it, it breaks the property that `PROJECT.json` ("mutants") names.

## 3. The server's models

### Documents, sessions, saving

`KitChannel` declares what broker and kit share; `DocumentBroker` and
`KitDocument` extend it; `DocumentLifecycle` composes the two by interleaving
and states the properties.

**Data.** The contents of a document are the set of the edits it contains.
There are four copies: `doc` (memory of the kit), `jail` (the file), `store`
(the storage) and, as history, `typed` (what users typed) and `owed` (what they
typed before the broker had decided to stop).  Times are abstracted to the
comparisons the code makes: `saving` is `_lastSaveResponseTime <
_lastSaveRequestTime`, `active` is `_lastSaveRequestTime < _lastActivityTime`,
and `fresh` says that the file's mtime is the one the broker remembers.

**Control.** `phase` says where `pollThread()` is.  `"start"` is
`getNewChild_Blocks`; in `"poll"` any handler may run, any number of times;
the body of the loop is two steps, the saving decisions
(`LoadTimedOut`, `WaitForSave`, `SaveAndClose`, `TimedAutoSave`,
`NothingToSave`) and the end-of-life decisions (`CloseIdle`, `CloseDead`,
`Linger`); `"flush"` is the second of polling after the loop, `Finish` is
`terminateChild` and `shutdownClients`.  Elapsed time is a nondeterministic
choice of the branch that the time guards, with one exception: a timeout that
passes although the other side is merely slow is the fault `"timeout"`.

**Handlers.** One action per handler: `Join` (the callback with `addSession` and
`load`), `Disconnect` (`onDisconnect`, `removeSession`), a `Client...` action
for each command that bears on saving, `HandleStatus`, `HandleModifiedStatus`
and `HandleSaveResult` for the kit's answers, `KitDisconnected`, and the kit's
`KitSession`, `KitLoad`, `KitEdit`, `KitSaveSkips`, `KitSaves`, `KitDisconnect`,
`KitPurge`.  `RemoveSession`, `SaveToStorage` and `SendUnoSave` are the
functions of these names, used by several of them.

**Choices.** LibreOfficeKit is external: a save writes the document, clears the
modified state and reports both in either order.  The callbacks wait in the
kit's own queue while a status is sent at once, so a status may overtake them.
A message to a dead kit is lost; a dead kit looks alive for a while
(`ChildSeenAlive`).  Only the first use of `_isLoading` after a failed load is
reachable: the next load waits for ever, as in the code.

**Faults and races.** `excuses` is a history variable: the faults that happened
(`crash`, `join`, `load`, `save`, `upload`, `conflict`, `kill`, `tick`,
`timeout`; a run's `Faults` says which may) and six orders of events without
any fault (`overlap`, `ghost`, `orphan`, `noview`, `outdated`, `discard`) after
which an edit can be lost.  NoEditLost and CleanMeansStored forgive them, so
what these show is that the list is complete: nothing else loses an edit.
`discard` and `outdated` are what the user asked for; `overlap`, `ghost`,
`orphan` and `noview` lose an edit that a comment in the code says is kept: see
section 8.

### Tiles

`TileQueue` is the kit's queue, `TileCache` the broker's tile handlers,
`TileService` composes both with the rendering in the kit and the clients.

**The broker** runs its handlers in one thread, so each is an operator from
state to state on a record (`Broker`): `HandleTileRequest`,
`HandleTileCombinedRequest`, `SendRequestedTiles`, `SaveTileAndNotify`,
`HandleTileInvalidation`, `CancelTileRequests`, with the names of the source.
The actions of `TileService` apply them.  Requests reach the kit's queue at
once: the broker learns nothing of the kit until a message comes back, so a
request that takes longer looks like one that is made later.

**The queue.**  `PutTiles` replaces a request that is the same up to its version
(the wire id the client has is part of the comparison), `PutInvalidation` merges
rectangles, `CancelTiles` finds by substrings as the code does, and `Gets`
gives all that `get_impl` may return: any of the tiles at the front may be
the one near a cursor, and what is on its row or an adjacent one comes along.

**The kit** renders what the document looks like when it comes to the request,
and leaves out a tile whose wire id is the one in the request, of which nobody
else is told (`skipped` is a history variable; its requests are the named hole
WaitsForSkipped of ScreensAreCurrent).
`KitInvalidates` is LibreOfficeKit: it changes a tile, or repaints it as it was,
and calls back.  The sessions of inactive users only remember that they have
missed an invalidation.

**Loops** over tiles and over messages are recursive functions of the number of
turns (`PutTiles`, `SubscribeAll`, `RegisterTilesBeingRendered`, `TakeRequests`,
`SaveTiles`); `Kept` and `Except` are what is left of a queue at, or without, a
set of places.

**Data.**  A document has `TileCount` tiles.  A tile's content is a number and stands for its wire id too; a
rectangle is the set of the tiles it touches.  `Timeouts` lets a tile on the fly
or being rendered be older than its timeout at any time.  All sessions have
loaded, with the same view settings, and have all tiles in their visible area.

### The server: brokers, pool and forkit

`ChildPool` is the pool of spare kits with forkit and the kits behind it,
`DocBrokers` extends it by the map, the brokers' threads and the clients'
sockets, `WsdServer` composes the threads and states the properties.

**The pool.**  `Rebalance`, `AskForChild`, `TakeChild`, `AddNewChild` and
`CreateForKit` are the functions of `LOOLWSD.cpp` that change `NewChildren` and
`OutstandingForks`, each whole under `NewChildrenMutex`; `getNewChild_Blocks` is
two steps because it lets go of the mutex while it waits.  `RestorePool` is the
pool's half of the prisoner poll's hook.  forkit reads one command a turn and
forks (`ForkitLoop`); a command overwrites what is still wanted.  A dead kit is a
zombie that counts as alive until forkit reaps it.

**The brokers.**  `thread` says where a broker's `pollThread()` is, from its
construction (`"made"`) over the two halves of getting a kit, the loop and the
flush to its end.  What the broker does with the document meanwhile is the
subject of the core model above; here sessions come (`RunCallback`), leave, and the loop stops for
any of its reasons.  `FindOrCreateDocBroker` and `MoveSocket` are two steps of
the web server's thread: the socket moves once its handler has returned.
`poll()` runs the callbacks before it handles the sockets, so a loop that stops
has emptied its queue (`StopServing`); what comes after that is run in the flush
or never.  A broker goes by the name of the client that created it.

**Time.**  `late` says that `ChildSpawnTimeoutMs` have passed since the last
request; while kits are on their way this happens at most `MaxEarlyTimeouts`
times, else whenever kits are outstanding that never come.  A broker that got no
kit either tries again or gives up: its deadline is shorter than the recovery of
the pool may take.  Init is the state in which wsd starts to accept clients: the
first kit, which forkit forks unasked, has connected.

`unaccounted` is a history variable: how many kits the code may have asked for
in excess, that is, the forks it forgot, and one for each restart of forkit.

## 4. The browser's models

Everything on the page runs in one thread: a handler is one step, a handler that
calls another is an operator on the state that applies the other's operator.
What interleaves is the order in which socket, timers, frames, user and host
call the handlers.  The kit behind the socket is modelled by what it answers
(external where the code is LibreOfficeKit's), with a queue in each direction.

`BrowserConnection` stands alone.  The other parts share nothing but the socket,
which keeps the order of what each of them sends, so that no interleaving of two
parts shows more than each of them by itself: `BrowserDocument` and
`BrowserControls` therefore choose one part at the start (`shownPart`,
`usedPart`) and leave the others alone.  Their invariants are guarded by the
part, and each names the properties of its parts.

| Module | Source | What it follows |
|---|---|---|
| `BrowserConnection` | `core/Socket.js`, `map/Map.js` (activity), `control/Control.AlertDialog.js`, `control/Permission.js`, `map/handler/Map.WOPI.js` | connecting, retrying, recycling of the server; idle and back; the dialogs over the document, which share `vex.timer` and `vex.dialogID`; what wsd and the host are told |
| `BrowserTiles` | `layer/tile/GridLayer.js`, `TileLayer.js`, `WriterTileLayer.js`, and the part of wsd that answers | the tiles on the screen and those kept aside; moving, zooming, pruning, invalidating, images that are decoded late |
| `BrowserViews` | `TileLayer.js`, `Map.js`, `js/toolbar.js`, `control/Parts.js` | cursors, cells, shapes and selections of the other users, and following one of them |
| `BrowserClipboard` | `TileLayer.js` | the copy of the selected text the page keeps, and which clipboard a paste is taken from |
| `BrowserGraphic` | `TileLayer.js`, `plugins/path-transform/`, `layer/vector/SVGGroup.js`, `control/Permission.js` | the marker of the selected shape, gestures that move, scale and rotate it, editing in place |
| `BrowserTransform` | `plugins/path-transform/` | the matrix of a gesture, the eight handles and the outline, tables, pictures, slices of a pie |
| `BrowserCells` | `TileLayer.js` | the cell cursor, page keys, scrolling into view, the list button, marks, the caret |
| `BrowserHeaders` | `control/Control.Header.js` and its two subclasses | the rows that are known, which are lit, commands of the menu and drags |
| `BrowserSheets` | `control/Control.Tabs.js`, `Parts.js`, `CalcTileLayer.js`, `uiconfig/dialogs/` | tabs, hidden sheets, commands by number, notes |
| `BrowserSlides` | `control/Control.PartsPreview.js`, `ImpressTileLayer.js`, `Parts.js` | previews, inserting and deleting slides by place |
| `BrowserComments` | `layer/AnnotationManager.js`, `layer/marker/Annotation.js` | threads, the selected one, and a comment being written |
| `BrowserDialogs` | `control/Control.LokDialog.js`, `kit/ChildSession.cpp` | dialogs, child windows and pop-ups that the kit paints |
| `BrowserToolbar` | `js/toolbar.js`, `control/Toolbar.js`, `map/handler/Map.StateChanges.js` | which buttons can be pressed and are checked, and what a press sends |
| `BrowserMenus` | `control/Control.Menubar.js`, `Control.ContextMenu.js`, `control/Toolbar.js` | how a table becomes a menu, what is added later, hot keys, late context menus |
| `BrowserSaving` | `control/Toolbar.js`, `core/Socket.js`, `map/handler/Map.WOPI.js` | saving, closing, renaming, conflicts, errors: answers that do not name their request |
| `BrowserLaunch` | `core/Socket.js`, `map/Map.js`, `control/Permission.js`, `layer/marker/ProgressOverlay.js` | from connecting to a page that is complete: queue, passwords, closing documents, modes |
| `BrowserMap` | `map/Map.js`, `map/handler/`, `map/anim/`, `control/Control.Scroll.js`, `dom/Draggable.js` | zoom and scroll bar; wheel, drag, pinch, resize, with frames, timers and transitions |
| `BrowserPointer` | `map/handler/Map.Mouse.js`, `Map.Tap.js`, `Map.BoxZoom.js` | what clicks, drags, hovering and taps become, after the timers that tell them apart |
| `BrowserKeyboard` | `map/handler/Map.Keyboard.js`, `control/Control.MobileInput.js` | strokes, AltGr, compositions, the keyboard of a phone |
| `BrowserAdmin` | `wsd/Admin.cpp`, `wsd/AdminModel.cpp`, `admin/AdminSocketOverview.js`, `AdminSocketAnalytics.js` | two pages' accounts of documents, users and samples |
| `BrowserUpload` | `wsd/Admin.cpp`, `admin/AdminSocketFontManager.js`, `AdminSocketSoftwareUpgrade.js` | fonts and upgrade packages sent in slices over the socket that commands use |

How the state corresponds to the code is said beside each VARIABLE: usually one
record for the component's object, with the fields of the source, one variable
for the kit, a queue each way, and one history variable.  What is abstracted:

- one axis where both behave alike (`BrowserTiles`, `BrowserGraphic`,
  `BrowserMap`, `BrowserHeaders`, `BrowserCells`), integers for coordinates, with
  the granularity that the code's rounding needs;
- a picture by whether the document has changed under it (`BrowserTiles`) or by
  its look (`BrowserDialogs`, `BrowserSlides`);
- tables of buttons, menus, keys and commands by a member of each kind that the
  code treats differently;
- time by what may have passed, `Pause` in `BrowserPointer` being more than the
  250 ms of a double click.

### What the browser's parts promise

**Connection.**  wsd knows whether the user is active; the host hears only of a
document that is loaded; a client that waits for a server being recycled goes on
waiting (PartnersAgree).  An inactive client is behind an overlay, an ended
connection tries again or says why not, a session that became read-only is not
offered for editing (ConnectionIsShown).  Holes (`excuse`): an alert, the end of
a save or a conflict takes the overlay away ("alert", "saved", "conflict"), the
user does so with Escape ("escape"), the last retry ends without a word
("retry", "giveup"), a connection comes back while the server is being recycled
("recycle").

**Views.**  CursorsAreCurrent, WhoLeftIsErased, FollowIsConsistent.  Holes: the
host names a view that has left or follows past the user list ("host"), the
marker of the followed view was never made ("goto"), the editor is not in the
list ("editor").  In the code a handler that reads the name or colour of a view
it does not know throws, and the rest of it is not executed; the model keeps
that (`ThrowsOn`, `Throwing`, `Torn`).

**Tiles.**  When all is quiet, the tile of the view is loaded and current
(ScreenIsCurrent); a stale picture is counted as invalid, or its invalidation is
under way (StaleIsKnown); a blank place has been asked for (BlankIsAskedFor).
Holes: an invalidation that measures tiles of another zoom level ("zoom") or
cached ones ("cache") wrongly, one that crosses a move, an image that is decoded
after it was dropped ("orphan").

**Editing.**  ContentSettles, OwnCopyIsRecognised, PasteIsFromClipboard;
PageKeyIsFreed, CursorIsInWindow, ListButtonIsRight, MarksFollowRange,
CaretIsRight.

**Shapes.**  What is asked of the kit is what was drawn (AskedIsDrawn,
AskedIsApplied, AppliedIsDrawn), a gesture keeps the shape it began with, the
handles stay on the outline, the map can be dragged again, nothing stays dark, a
picture is shown only in a drag, a slice stays within its reach.  Holes: a
gesture begun before the previous one was answered ("early"), a marker taken off
in the middle ("interrupted"), a release the map did not hear ("again"), a
handle in the middle of a side of a shape that keeps its proportions ("edge"),
one dragged across a table's corner ("across"), a pointer that leaves the slice
or jumps out of its reach ("left", "jump"), a box too flat for a picture that is
turned ("flat").

A picture of a text is asked for by its own size, which the page works out from
the turned box.  The model does so for a quarter turn and for a slant of 22.62
degrees (sine 5/13, cosine 12/13), where what is asked is right within a twip
unless the box is too flat to hold a picture turned so: then a side of it comes out
zero or negative, and is sent.  Left out is a picture of a text turned by 45 degrees
or an odd multiple of them (`KindsAssumption`): its box does not tell its sides, and
`TileLayer.js:2374` divides by `1 - l * l`, which is zero but for rounding, so that
any size may be sent.

**Headers, sheets, slides, comments.**  HeaderShowsRows, HighlightIsRight,
CommandsAreAimed; TabsAreTheSheets, CommandsMeetTheirSheet, NotesAreTheSheets,
SelectedTabIsSeen; SlidesAgree, PreviewsAreCurrent, DeletesWhatIsShown;
CommentsMatch, SelectionIsARoot, WritingIsNotInterrupted, NothingIsSentUnwanted.
Their holes are the races of numbers with other users' commands ("shifted",
"renamed", "moved", "draft", "stale", "root", ...), and an exception in a handler
("unread", "missing", "synced").

**Controls.**  DialogsMatch, PictureIsKnown, PopUpCanBeClosed; ButtonsFollowKit,
ChecksFollowKit, ReadersHaveNoButtons, ReadersSendNothing,
NothingDisabledIsSent, FontListIsComplete, PageButtonsFit,
FormulaButtonsAreShown; the menus' MenusAreWellBuilt, EntriesAreThereOnce,
RepairIsForOne, HeaderIsToggledAsShown, TypingRunsNothing, ReadersRunNothing,
ContextIsOfTheClick; ClosedMeansStored, KeptOpenStaysOpen, CloseIsObeyed,
HostIsAnswered, BusyEnds (the closing tells the server that the document is modified
before it sends the key that ends the input, so the server may save, and say that
there was nothing to save, before the closing does); QueueIsKept, PromptIsAlone, BarEnds, EditorMayWrite,
HostIsToldOnce, LaunchIsComplete; BarFollowsView, MoveIsFollowed, ViewInBounds,
ZoomIsOver; ButtonIsReleased, OrderIsKept, NothingGoesOn; StrokeIsSent,
TextArrivesOnce, KeyboardIsWanted; and the console's accounts.  Each is stated
with its holes, in words, above its definition: for the map, for instance, the end
of a change of the window's size, which is told 200 ms later, is lost when a zoom to
the level there is comes in between ("unresized").

## 5. Runs

| Run | Instance | Result |
|---|---|---|
| `sharing` | 2 users, 2 edits, saves, 3 messages under way | NoEditLost, CleanMeansStored, SaveStopsEmptyBroker hold |
| `commands` | 1 user, every command, template, always_save_on_exit, conflicts, equal mtimes | StoreGrows holds |
| `failures` | 2 users (owner or read-only), closing for all, all failures of kit, load, save, upload, wsd | TypeOK, NoEditLost, StorageChain, MarkedIsLast, KitFollowsBroker, MarkIsFinal hold; DurableDocument is implemented |
| `liveness` | 2 users, saves that time out, a kit that dies, fairness | BrokerEnds, EditsReachStorage hold |
| `tiles_shared` | 2 users, a tile and a thumbnail, 1 change, 2 requests, a cancellation | CacheIsCurrent, SessionsCountTheirTiles hold |
| `tiles_screen` | 1 user, 1 tile, limit 1, 2 changes, 3 requests, timeouts | ScreensAreCurrent holds |
| `flow_stall` | 1 user, 2 tiles, limit 1, 3 changes | violated: a request waits although nothing is under way |
| `server` | 2 clients, 1 or 2 documents, pool of 1, 1 failure, 1 early timeout | OneBrokerPerDocument, SessionsAreRegistered, SpareKitsAreBounded hold |
| `server_recovery` | 2 clients, 1 document, 2 failures, fairness | PoolRecovers, FinishedBrokersGo hold |
| `browser_connection` | 2 faults, 1 retry, 1 queued message, fairness | ConnTypeOK, PartnersAgree, ConnectionIsShown, ConnectionRecovers hold |
| `browser_document` | one of ten parts at a time | DocumentTypeOK and the parts' properties hold |
| `browser_controls` | one of ten parts at a time | ControlsTypeOK and the parts' properties hold |

`flow_stall` is quoted in "findings": `removeOutdatedTileSubscriptions` is there
to "Update client's tilesBeingRendered list" (`DocumentBroker.cpp:1651`), but its
condition `elapsedTime < 0.0 && elapsedTime > 200.0` (`ClientSession.cpp:1519`)
is never true: a tile that the kit skips as unchanged counts towards the limit
for ever, and the request that waits is not sent "when next tileprocessed message
arrives", since none will.

### Bounds of the server's runs

`Sessions`, `Edits`, `Faults`, `Commands` and `Roles` are finite sets; each
session id joins once and each edit is made once.  `MaxQueue` bounds the messages
under way when a user or a timer adds another (`RoomToKit`); answers and the
messages of joining and leaving are not bounded by it.  Two sessions are enough
for one to count as the other's successor, saver or witness, which is all that
the code asks of another session; two edits are enough for one to be saved while
the other is not; three messages let a save, an edit and a second save be under
way at once, the order that the races need.  What holds for more is the subject
of the proofs.

In the tile runs `MaxEdits` and `MaxRequests` bound the changes of the document
and what users ask for, a client cancels at most once, and `UpperLimit` stands
for a limit that is at least ten tiles in the code: one or two tiles reach it
here.  Two contents are enough for a tile to change and change back, which is
what the comparison of wire ids could get wrong; two clients are enough for one
to be served what the other asked for.  Edits are interchangeable (symmetry in
`sharing`); sessions are not, as `autoSave` goes by the order of the map.

In the server runs `MaxFailures` bounds the deaths of kits and of forkit and the
failed forks, and each client connects once.  Two clients are enough for one to
ask while the other's broker is at any point of its life, which is the
question of the map; one document or two let them meet or compete for kits.
One failure at any place with one early timeout makes kits come late and twice;
two failures let forkit die while it makes up for a loss, or die again before
its first fork.  Documents are interchangeable (symmetry in `server`).

### Bounds of the browser's runs

Every part has one or two bounds on what the browser does not decide itself
(`Max...Turns`: messages of the kit, actions of other users and of this one);
what follows from these - frames, timers, answers - is not bounded.  They are set
so that two things can be under way when a third happens, which is what the
hazards of these parts need, and so that every named hole is reached:
`BrowserConnection` with two faults (`MaxFaults`), one retry and one queued
message; `BrowserViews` with three users, one of them a reader, on two sheets,
and four turns (six when fewer kinds of marks are used); `BrowserHeaders` with
three rows of which two have the same size, so that they come in one run, and
two in the window; `BrowserSheets` with three sheets, one hidden, and two with
notes; `BrowserTransform` with six kinds of shapes
(a free one, one that keeps its proportions at 135 degrees, a line, a table, a picture
of a text that lies across and one at 22.62 degrees); `BrowserPointer` with five
turns, enough for a click, a drag and the release that another handler takes;
`BrowserUpload` with a package, a font that is there already, and an empty file.

`CHECK_DEADLOCK FALSE` is said where a part stops when its turns are used up.

### Fairness

`DocumentLifecycle!FairSpec` (only in `liveness`).  Weak fairness of the kit's
handling of messages, of obtaining a child and of each half of the loop's body:
both processes keep running their loop.  Strong fairness of `HandleKit`: the
broker leaves `"poll"` again and again, and each `poll()` serves the kit's
socket if it has input.  Strong fairness of `TimedAutoSave`: the 30 second
check comes again and again.  Strong fairness of `CloseIdle` once everybody has
left: then nothing renews `_lastActivityTime`, and the idle timeout passes.
There is none for users, for faults or for timeouts of saves.

`WsdServer!Spec` (for `server_recovery`) has weak fairness of forkit's and each
broker's thread, of kits that connect, of the move of a socket and its callback,
and of the spawn timeout: threads and processes run, and time passes.
`WakeupHook(TRUE, TRUE)` is weakly fair too: the prisoner poll is woken every few
seconds by the main loop (`LOOLWSD.cpp:3371`), and the mutexes it tries are held
for moments only, but for a broker's wait for a kit, which releases its mutex.
There is none for failures, for users, for idle documents or load timeouts.

`BrowserConnection!ConnSpec` has weak fairness of the socket's events, of wsd's
messages and of the page's timers: the browser's event loop runs.  There is none
for the user or for faults.

The other browser parts state safety only, and have none.

## 6. Proofs

All theorems hold for any values of the constants that satisfy the named
assumptions (finite sets, natural numbers, kinds the code has).  The modules are
`DocumentLifecycle_proofs`, `TileService_proofs`, `WsdServer_proofs`,
`BrowserConnection_proofs`, `BrowserDocument_proofs`, `BrowserEditing_proofs`,
`BrowserDialogs_proofs` and `BrowserControls_proofs`, which extends it.

**How they are laid out.**  An invariant is the conjunction of named parts.  For
every function of the code that several actions use there is a lemma that says
what it does to the state ("effect"), then one lemma or step for each action that
says that the invariant is kept; the theorem combines them.  Inductions over
sequences are by descent (`LeastNumber`): of the numbers for which a statement
fails there is a least one.

### The document (`DocumentLifecycle_proofs`)

- **TypeCorrect**: `Spec => []TypeOK`, one lemma for each helper that is used
  by several actions (`RemoveSession`, `SaveToStorage`, ...).
- **StorageChainHolds**: `Spec => []StorageChain`, by `StorageInv`.  StorageChain
  alone is not inductive: a document loaded again comes from the file in the
  jail, so that file must hold only what users typed, and an edit that the kit
  takes off the queue must have been typed.
- **StoreOnlyGrows**: `Spec => StoreGrows`; a step that changes `store` sets it
  to `jail`, which contains it by StorageChain.
- **MarkedHasOneSession**: `Spec => []MarkedIsLast`: `_markToDestroy` is set
  when the last session is removed and `load` refuses from then on.
- **MarkStays**: `Spec => MarkIsFinal`, although `removeSession` assigns the
  flag from the number of sessions each time: this needs MarkedIsLast.
- **SaveStopsOnlyEmpty**: `Spec => SaveStopsEmptyBroker`, the unchecked belief
  in `saveToStorage` ("then this was the last session"), also from MarkedIsLast.
- **DurableRefined**: `Spec => ImplementsDurable`.  The mapping is `memory <-
  InMemory` (what is in memory while a view has the document open, else the
  file), `file <- jail`, `stored <- store`.  Every step of the broker is Type,
  Upload, Drop or a stutter, every step of the kit Take, Write, Drop or a stutter.
  It rests on StorageInv, since Take needs an edit that was typed.

### The order of the sessions (`DocumentLifecycle_proofs`)

- **KitFollows**: `Spec => []KitFollowsBroker`.  The property speaks of empty
  queues; `OrderInv` says the same while messages are under way: for each session
  the last of its messages in the queue decides whether the kit will have it, a
  session is announced before it loads, and it is disconnected at most once.

### No edit is lost (`DocumentLifecycle_proofs`)

- **NoEditIsLost**: `Spec => []NoEditLost`; **CleanIsStored**: `Spec =>
  []CleanMeansStored`.

  Both speak of states with nothing under way, and neither is inductive.
  `EditInv` says, as long as no fault and no named race has taken place, where an
  edit that is owed to a user can be: in the queue to the kit, in memory with the
  document modified, in a save under way that includes it, in a file written and
  not yet uploaded, or in the storage (EditsAreSomewhere).  For a step not to let
  it fall through, the bookkeeping of saves must be right (SavesAreAwaited: the
  broker waits whenever a save is under way; FlagsAreRight; UncoveredIsKnown: an
  edit that no save covers is known to the broker or will be; ModifiedIsTold: what
  the kit says of the modified state), and the view that takes an edit must be
  there when it is read (ViewsStay).  EndInv and MarkedIsClosed carry this to the
  end of the broker.

### Tiles (`TileService_proofs`)

- **ServiceTypes**: `Spec => []TypeOK`; **TilesAreCounted**: `Spec =>
  []SessionsCountTheirTiles`; **CacheStaysCurrent**: `Spec => []CacheIsCurrent`,
  from `ServiceInv`, for finitely many clients and any number of tiles, changes
  and requests, with and without timeouts.

  What the handlers of `TileCache` do is stated once, as a relation between the
  broker before and after: `Serves` (the cache is as it was, the same
  invalidations wait in the queue, and a session still counts the tiles it is
  subscribed to), which every handler of a client's request is proved to satisfy,
  and `Saves` for those that take images.  Loops are recursive functions, for
  which the existence of a function that satisfies the recursion
  (`IterationExists`) and the induction over its turns (`TurnByTurn`) are proved
  from the least number.

  CacheIsCurrent is not inductive, since an image that is outdated may be on its
  way to the cache.  `Followed` says why that does no harm: an outdated image
  under way is followed, for each session, by an invalidation that comes *after*
  it: later in the messages to the broker, or in the kit's queue, or among what
  the session has missed (`ImagesAreFollowed`); a cached one has such an
  invalidation anywhere (`CachedAreFollowed`).  The kit keeps this since it
  renders what the document looks like when it renders, and calls back for a
  change behind what it has sent.
- **ScreensStayCurrent**: `Spec => []ScreensAreCurrent`, from `ScreensInv`.  The
  property speaks of the end of the whole path, when all that is left to deliver
  has been delivered, and says nothing on the way there.  What does hold on the
  way, for each tile on the screen of each session (ScreensSettle): the client
  *shows* it, once it has drawn what is being sent to it; or the broker *owes* it,
  the request waiting for the limit or the session being subscribed; or the
  session has still to hear of a change of it.  Three more facts carry this
  through the queues:
  - a wire id that the broker remembers for a client is that of the tile it shows
    last or is being sent, so that what is left out as unchanged is the same
    (WireIdsAreRight; it is here that an id must be forgotten when a tile is sent
    from the cache, which has none);
  - a rendering that is registered comes: the kit has the request, or the images,
    of that version or a later one, or has skipped the tile as it is now, or the
    tile has changed and the session has still to hear of it (RegisteredAreComing;
    the third is the hole that the property names).  An invalidation that is
    handled hands this on, since it asks the kit for each tile anew, in a version
    newer than any that is registered (TilesInVersion);
  - no active session is left with an invalidation that it has not been sent.

  Each handler of a request is proved to be an instance of three relations
  between the broker before and after, with which the steps are then argued:
  `Answers` (what is sent and owed to the client), `Registers` (whatever is newly
  registered has been asked of the kit) and, for the images that come, `Delivers`.

### The server (`WsdServer_proofs`)

- **OneBrokerAtWork**: `Spec => []OneBrokerPerDocument`, and
  **SessionsStayRegistered**: `Spec => []SessionsAreRegistered`, from `MapInv`.
  OneBrokerPerDocument by itself is not inductive, since `findOrCreateDocBroker`
  looks at the map and not at the threads: `RunningIsRegistered` says that every
  broker at work is in the map, `OneEntryPerDocument` that the map has one broker
  for a document.  That a broker at work is not cleaned up needs
  `FreshIsNotStopped` (a broker that was made and not started has no `_stop`,
  which is all that `isAlive` has to go by), and `PolledIsServed` links the
  sessions to the threads.  The kits and the pool play no part: `isAlive` may only
  err on the safe side there.
- **SpareKitsStayBounded**: `Spec => []SpareKitsAreBounded`, from `SpareInv`: the
  spare kits, those connecting, those being forked and those that the commands in
  the pipe ask for are together no more than the pool wants and `unaccounted`
  allows.  Sums over the pipe and the loop of `rebalanceChildren` are recursive
  functions, about which the lemmas are by descent.

### The browser's connection (`BrowserConnection_proofs`)

- **ConnTypesAreRight**, **PartnersAlwaysAgree**, **ConnectionIsAlwaysShown**:
  `ConnSpec => []ConnTypeOK`, `[]PartnersAgree`, `[]ConnectionIsShown`, from
  `ConnInv`.  Its conjuncts beyond the properties: only a live connection has a
  document; a client that waits has had that as wsd's last word; a page that loads
  is awake; what the user waits for is covered by a dialog, unless a named hole
  was met; an end is known to the user.  The handlers call one another through
  operators on the record `map`, so each operator has a lemma that says which
  parts of the invariant it needs and which it restores.

### Other users' views (`BrowserDocument_proofs`)

- **ViewsAreAlwaysRight**: `DocumentSpec => []ViewsAreRight`, for any users,
  readers, sheets, kinds of marks and number of messages, from `ViewsInv`: the
  types; a view that is not there has no cursor, so that none appears when its id
  is used again (UnknownHaveNoCursor); before the first status message there is
  nothing to draw (NothingBeforeOpening); whom we follow is there, and following
  whoever edits excludes following a user (FollowedIsThere).  The heart is the
  update of marks in which a handler may throw: cursors come before all other
  marks and none of them throws, so all are updated whatever happens after
  (`UpdatedCursors`); a text selection of a view that is not there throws, and has
  been taken away before (`UpdatedSelections`).

### Copying and the cell cursor (`BrowserEditing_proofs`)

- **EditingIsAlwaysRight**: `DocumentSpec => []EditingIsRight`, for any texts,
  rows, lists and number of messages, and windows of two rows or more
  (CellsAssumption), from `ClipInv` and `CellsInv`.

  Most of it speaks of states in which all is answered, so both invariants say
  what the queues have still to bring.  `Final(q, K, now, x)` is the common form:
  x is known when q has been read, since a message of a kind in K brings it last,
  or none comes and it is known now.  It is kept when a message is appended
  (`FinalAppend`) and when one is read (`FinalTail`).
  - For the clipboard: the browser hears of the selection (SelectionIsTold); its
    text is here, on its way, or going to be asked for (ContentFollows); and what
    the kit will have on its own clipboard when it reads a paste is the copy the
    paste was meant for (PastesAreHeld, where `Held` is what the kit holds after so
    many messages): a copy, a cut and a paste may all be under way at once.
  - For the cells: the cursor will be at the kit's cell or hidden (CellIsTold).
    The button of a list is not a matter of the last message only: one that
    disappears is ignored if the browser has forgotten it, and the two may come in
    either order, so `ButtonSettles` says where the button ends up for any such
    queue, ListIsTold that this is the kit's cell.  Marks are taken away by the
    message about them or, when that is not sent, by a cursor message that finds
    no area selected (MarksWillGo): for every message that marks there is one
    behind it that takes the marks away.  The scrolling of the page and arrow keys
    (CursorIsInWindow) is arithmetic on any size of sheet and window.

### Mouse, fingers and keyboard (`BrowserControls_proofs`)

- **InputIsAlwaysRight**: `ControlsSpec => []InputIsRight`, for any number of
  events, strokes and texts, from `PointerInv` and `KeyboardInv`.

  What a click, a drag or a tap becomes is decided by timers, and several of them
  run at a time; ButtonIsReleased, OrderIsKept and NothingGoesOn speak of what is
  left when they have all fired.
  - For the pointer, each as long as its holes were not met: what waits in the
    queue of the mouse handler is held by a timer (QueueIsHeld); a button that is
    down for the map is down, and the map will hear of its release (PressIsHeard);
    a press that the kit has been told of is still going on, or its release is the
    first that waits (PressWillEnd).  What waits was stamped later than all that
    was sent and is in the order of the events, and nothing is stamped with a time
    to come (WaitsInOrder, StampsArePast), so that the order is kept when the queue
    is run.  There is one gesture at a time (GestureIsOne), and the view scrolls by
    itself only in a drag that has nothing waiting (ScrollsInDrag).
  - For the keyboard: AltGr is taken for what it is and nothing else for AltGr, as
    long as none of the blunders "right", "mixed" and "shifted" was made
    (AltGrIsKnown); StrokeIsSent, TextArrivesOnce and KeyboardIsWanted are
    inductive with it.

  Handlers call one another here, so every one has a lemma about its effect
  (`MouseDownEffect`, `MouseUpEffect`, `DraggedPointerEffect`, `KeyEventEffect`).

### Dialogs (`BrowserDialogs_proofs`, `BrowserControls_proofs`)

- **DialogsAreAlwaysRight**: `ControlsSpec => []DialogsAreRight`, for any windows,
  looks, size of the cache and number of messages (DialogsAssumption: windows are
  numbered from one, the cache holds a picture), from `DialogsInv`, `ListsAgree`
  and PopUpCanBeClosed.

  DialogsMatch speaks of empty queues.  `DialogsInv` says of each window where the
  rest is (DialogsSettle, ChildrenSettle): a window the kit has open is on the page
  or its announcement is under way, with no message behind that closes it; one that
  is closed is gone from the page or the message that closes it is under way; what
  is drawn is how it looks, or a request to paint, a message that causes one, or
  the picture itself is on its way (WillBePainted).  `DeskInv` is what the kit's
  messages look like: each window is announced once, before what hangs on it, and
  nothing is said of it after its end.

  PictureIsKnown is about two lists that are kept by different code, the kit's of
  hashes and the browser's of pictures, with pictures under way between them.  They
  are not equal at any time: `ListsAgree` says that the kit's list is what a list
  that begins the browser's becomes when the pictures under way are put in front of
  it one after the other, each trimmed to the size of the cache.

  The proof found that a window can be taken for a child of a dialog of an earlier
  kit as well when it is announced as the child of another: the run has too few
  windows for it.  The hole "reused" covers this case now (`OnCreatedChild`).

## 7. Only model-checked

- **Liveness** (BrokerEnds, EditsReachStorage, PoolRecovers, FinishedBrokersGo,
  ConnectionRecovers): under fairness, out of the prover's reach.
- **The other parts of `BrowserDocument` and `BrowserControls`**, for one or
  more of these reasons: their handlers fold over lists (comments, previews, runs
  of rows, menus); their promise is about what is left when two queues have been
  read, which takes an invariant over all contents of both, as NoEditLost,
  ScreensAreCurrent, EditingIsRight and DialogsAreRight did; they are arithmetic on a few numbers,
  where the run's instance is most of what there is to say (BrowserTransform,
  BrowserMap).  Of these parts ViewsAreRight, EditingIsRight, InputIsRight and
  DialogsAreRight are proved.

## 8. Where code and comments disagree

Beyond the run `flow_stall`.  These show up with the same models or were met in
the translation, and have no run of their own.

Server:

- a session that has left and is listed only until its exit save is answered
  counts as another editor when the next user leaves, who is then removed
  without a save (the race `ghost`), although `haveAnotherEditableSession` is
  there "lest we lose data due to racing" (`DocumentBroker.hpp:401`);
- an earlier save's result is taken for the exit save's (the race `overlap`),
  and the session is removed before its own save is answered;
- a user who saves and closes the tab at once is removed before the save is
  answered, as `isPossiblyModified()` is false by then; the result is dropped
  and the file the kit has written is never uploaded (the race `orphan`),
  against "save and don't remove until after uploading to storage"
  (`DocumentBroker.cpp:1309`);
- `isPossiblyModified` is "True if we know the doc is modified"
  (`DocumentBroker.hpp:395`), but the kit reports the document unmodified once
  it has written the file, even if the upload fails afterwards: no autosave
  tries again;
- `autoSave` takes the owner's session without asking whether its view is
  loaded ("Save the document using an editable and loaded session, or first",
  `DocumentBroker.cpp:1083`); the kit refuses, and the edit may be lost (the
  race `noview`);
- `closeDocument` "Makes sure that the document is saved"
  (`DocumentBroker.hpp:324`), but when the kit is busy for longer than the save
  timeout the loop decides again, on flags that the pending save has reset;
- `saveToStorage` removes the session that saved if it is disconnected
  (`DocumentBroker.cpp:813`); when the exit save of a session goes through
  another one, its answer removes nobody, and the session that left stays listed
  until the broker idles;
- `sendRequestedTiles` does not send a third version of a tile before one is
  acknowledged (`DocumentBroker.cpp:1670`), but `saveTileAndNotify` and
  `handleTileRequest` do;
- `TileCache::cancelTiles` means to remove requests "from the render queue"
  (`TileCache.cpp:599`), but the queue spares every message that contains
  `id=` (`MessageQueue.cpp:42`), and each contains `nviewid=` and `wid=`: no
  request is ever removed (`ContainsId`);
- the kit skips a tile that has not changed since it was rendered for the client
  that asks, "The tile content is identical to what the client already has, so
  skip it" (`Kit.cpp:899`, 1033), and says nothing to the broker, where it stays
  registered as being rendered: whoever asks for it next only subscribes to it
  (`DocumentBroker.cpp:1711`) and waits for a tile that does not come, until the
  timeout, the next change or another request (WaitsForSkipped, the hole that
  ScreensAreCurrent names);
- a client whose broker gave up between `findOrCreateDocBroker` and the move of
  its socket stays in that broker's queue unanswered;
- a first upload of a template can race with an mtime that says that the file is
  the one the broker remembers (`outdated`).

Browser:

- a connection lost while another dialog is open is not always reported
  (`Socket.js:899` against 898 and 907);
- the prompt says 'Hit Cancel to open in view-only mode.' (`Socket.js`, about
  610), but Cancel sets an empty password, which is not sent (656), and the next
  load asks again;
- `WriterTileLayer.js:149` speaks of tiles of the current zoom only; the cached
  ones are compared with the wrong rectangle;
- `'Ctel+Shift+?'` (`Control.Menubar.js:241`) registers the question mark as a
  hot key in texts;
- `wsd/protocol.txt:480` describes HideExportOption in words that
  `Control.Menubar.js:935` does not follow;
- `L.installContextMenu` overwrites the `events` of its options, so a caller's own
  are lost;
- the tab scrolled into view is counted with hidden sheets
  (`Control.Tabs.js:317`);
- `_getGroupLevel` (`Control.Header.js`) takes the last pixel row of a level's
  head for the next level, and a click between the corners sends level -1;
- `_onDialogResult` of the column header uses `command`, which is not defined.

## 9. More hazards

`PROJECT.json` lists forty.  These are the others that the same properties
cover, each at its line.

| Where | What | Properties |
|---|---|---|
| `wsd/DocumentBroker.cpp:1067` | _isModified lags behind the kit by a message: autoSave decides on it when the last editor leaves. | NoEditLost, CleanMeansStored |
| `wsd/DocumentBroker.cpp:1091` | The session that autoSave saves through may not have loaded its view, or be removed before the result comes. | NoEditLost |
| `wsd/DocumentBroker.cpp:332` | The save timeout passes while the kit is busy: the loop decides again on flags that the pending save has already reset. | BrokerEnds |
| `wsd/DocumentBroker.cpp:818` | saveToStorage stops the broker on _markToDestroy although another session might be left. | SaveStopsEmptyBroker |
| `wsd/DocumentBroker.cpp:890` | Two writes of the file within one tick of the clock leave the same mtime, and the upload is skipped. | StoreGrows |
| `wsd/ClientSession.cpp:334` | savetostorage uploads the file in the jail as it is and marks a document unmodified that has changed since. | StoreGrows |
| `wsd/DocumentBroker.cpp:312` | recv is compared with deltaRecv, which is zero, instead of adminRecv: when a connection drop reduces the sum the difference wraps around in uint64_t. |  |
| `wsd/ClientSession.cpp:1289` | A tile on the fly is dropped from the count by its timeout while the acknowledgement is under way. | ScreensAreCurrent |
| `wsd/TileCache.cpp:259` | A tile is requested again while an older version is being rendered for several sessions: one response may end the subscriptions of all. | SessionsCountTheirTiles, ScreensAreCurrent |
| `wsd/LOOLWSD.cpp:338` | cleanupDocBrokers in the prisoner poll's or the web server's thread asks whether a broker is alive while that one's own thread ends, still has sessions, or has not been started. | OneBrokerPerDocument, SessionsAreRegistered |
| `wsd/LOOLWSD.cpp:432` | Kits that were asked of forkit may come late, after they were forgotten and asked for again, or never: the pool only counts them. | SpareKitsAreBounded, PoolRecovers |
| `wsd/LOOLWSD.cpp:472` | A kit that comes after OutstandingForks was reset, or one that nobody asked for, takes the count below zero. | SpareKitsAreBounded |
| `wsd/LOOLWSD.cpp:1566` | A broker wakes the hook just before its thread is over, so that the clean-up may still find it alive, and the hook only tries the mutex: the finished broker must not stay in the map for good. | FinishedBrokersGo |
| `kit/ForKit.cpp:333` | Some of several forks fail: what is still wanted stays in ForkCounter until the next command overwrites it. | PoolRecovers |
| `wsd/DocumentBroker.hpp:183` | A kit that died but was not reaped counts as alive, as a spare and when a broker takes it. | PoolRecovers, FinishedBrokersGo |
| `loleaflet/src/core/Socket.js:633` | After ten tries the page gives up without a word: the dialog goes on saying that it will be back. | ConnectionIsShown |
| `loleaflet/src/core/Socket.js:326` | The answer to a save closes whatever dialog is open, also one of an unfinished reconnect or conflict. | ConnectionIsShown |
| `loleaflet/src/map/Map.js:1057` | The inactivity timer and the return of the user look up vex.dialogID, which a closed dialog leaves behind. | ConnectionIsShown |
| `loleaflet/src/core/Socket.js:375` | While the server is recycled, a timer reconnects and the connection may come back by another path first. | PartnersAgree |
| `loleaflet/src/layer/tile/WriterTileLayer.js:118` | Tiles of another zoom level are on the screen during a zoom: an invalidation compares them with the wrong rectangle. | TilesAreRight |
| `loleaflet/src/layer/tile/GridLayer.js:784` | A cancelled tile is dropped on the page although the server still counts its request. | TilesAreRight |
| `loleaflet/src/layer/tile/GridLayer.js:545` | A tile that is pruned while its picture is under way comes back as current. | TilesAreRight |
| `loleaflet/src/layer/tile/TileLayer.js:2116` | The cursor of the followed view may not have been drawn yet when the page scrolls to it. | ViewsAreRight |
| `loleaflet/js/toolbar.js:2794` | The user list looks for the followed user's row after it may have been removed. | ViewsAreRight |
| `loleaflet/src/layer/tile/TileLayer.js:1321` | What is drawn of a view (cursor, cell, selection, shape) is kept in four tables: all must go when it leaves, also after a reconnect. | ViewsAreRight |
| `loleaflet/src/layer/tile/TileLayer.js:2959` | Clearing the selection resets _selectedTextContent, but the copy reads _selectionTextContent: with nothing selected it copies what was selected before. | EditingIsRight |
| `loleaflet/src/layer/tile/TileLayer.js:2185` | A new selection arrives between the start and the end of a gesture: the end applies to the new shape. | ShapesAreRight |
| `loleaflet/src/layer/tile/TileLayer.js:2707` | A page key may scroll once more although the cursor has come to where it was. | EditingIsRight |
| `loleaflet/src/layer/tile/TileLayer.js:1051` | The cursor of another sheet arrives before or after the switch of the sheet: which of them scrolls the window depends on the order. | EditingIsRight |
| `loleaflet/src/control/Permission.js:77` | The right to edit is withdrawn or given while the caret is shown: both are set in different handlers. | EditingIsRight |
| `loleaflet/src/control/Control.PartsPreview.js:372` | A preview that was asked for under one number arrives when another slide has that number. | SlidesAreRight |
| `loleaflet/src/control/Control.PartsPreview.js:309` | With the same number of slides only the names are refreshed, and pictures stay with their old place. | SlidesAreRight |
| `loleaflet/src/layer/tile/ImpressTileLayer.js:446` | An invalidation of a slide whose preview was never asked for meets no entry. | SlidesAreRight |
| `loleaflet/src/layer/AnnotationManager.js:662` | The root of a thread is removed before its replies: the selected comment may be one that is no longer listed. | CommentsAreRight |
| `loleaflet/src/layer/AnnotationManager.js:118` | A full list replaces all comments while the user writes one. | CommentsAreRight |
| `loleaflet/src/control/Control.LokDialog.js:233` | A size change removes and launches the window again, without the pop-up that is open over it and before its picture comes. | DialogsAreRight |
| `loleaflet/src/control/Control.LokDialog.js:587` | Closing any window clears _currentId, so that a pop-up that is still open cannot be closed by a click beside it. | DialogsAreRight |
| `loleaflet/src/control/Control.Header.js:209` | A selection past the last fetched row ends at the last one: getLength() - 1 is then the last of all rows or of those fetched. | HeadersAreRight |
| `loleaflet/src/control/Control.Header.js:172` | A selection that starts above and ends below what was fetched, or outside it altogether. | HeadersAreRight |
| `loleaflet/src/control/Control.Header.js:246` | The current row is marked by index, and rows may be inserted or hidden above it before the next message. | HeadersAreRight |
| `loleaflet/js/toolbar.js:2513` | Buttons without a command of their own for spreadsheets are enabled with the permission although the kit has disabled them. | ButtonsAreRight |
| `loleaflet/js/toolbar.js:2091` | A change of the document enables the font lists for a reader too. | ButtonsAreRight |
| `loleaflet/src/control/Toolbar.js:472` | Save is sent whatever the state of the button. | ButtonsAreRight |
| `loleaflet/js/toolbar.js:247` | Accepting a formula hides the buttons before the kit has taken the text, and a blur hides them by a timer. | ButtonsAreRight |
| `loleaflet/js/toolbar.js:2532` | The font lists are enabled and filled by three messages: filled twice they list a font twice, or not at all. | ButtonsAreRight |
| `loleaflet/src/control/Toolbar.js:493` | The page decides by its own flag of changes whether to save before it closes: a change the kit has not reported is not seen. | OpeningAndClosingAreRight |
| `loleaflet/src/core/Socket.js:515` | A conflict in the storage is answered by the user while a save or the end of the page is under way. | OpeningAndClosingAreRight |
| `loleaflet/src/control/Toolbar.js:489` | Closing twice resets the flag by which an error keeps the page open. | OpeningAndClosingAreRight |
| `loleaflet/src/map/handler/Map.WOPI.js:279` | The host's flag of who is to be told of a save is set for the last request only. | OpeningAndClosingAreRight |
| `wsd/ClientSession.cpp:304` | A reader's save is refused without an answer: the page waits for it. | OpeningAndClosingAreRight |
| `loleaflet/src/map/handler/Map.Drag.js:123` | A drag that ends with speed ends the move only if the offset is zero, and otherwise by an animation that may not run. | MapIsRight |
| `loleaflet/src/map/handler/Map.TouchZoom.js:60` | A pinch starts in the middle of an animation, or its end comes without a move. | MapIsRight |
| `loleaflet/src/map/Map.js:443` | The centre after a zoom is computed with the level that was asked for and not the one the limits leave. | MapIsRight |
| `loleaflet/src/map/handler/Map.Mouse.js:112` | A release is dropped while the map can be dragged and the queue is empty, although the press was sent. | InputIsRight |
| `loleaflet/src/map/handler/Map.Mouse.js:192` | A hover is sent 100 ms later, in between a press and its release. | InputIsRight |
| `loleaflet/src/map/Map.js:1282` | Whether the pointer enters or leaves is told from the elements of the event, which tiles replace meanwhile. | InputIsRight |
| `loleaflet/src/map/handler/Map.Keyboard.js:289` | The location of a former key stands for AltGr until another modifier resets it. | InputIsRight |
| `loleaflet/src/map/handler/Map.Keyboard.js:574` | Ctrl+C moves the focus to the clipboard's field: the release of the keys goes elsewhere. | InputIsRight |
| `wsd/AdminModel.cpp:552` | A document that ends lists the views it ever had, those that have left included, and the page subtracts them again. | ConsoleIsRight |
| `loleaflet/admin/src/AdminSocketAnalytics.js:30` | Growing a chart fills data that may not be there yet. | ConsoleIsRight |
| `loleaflet/admin/src/AdminSocketAnalytics.js:526` | A change of the memory settings also empties the charts of the network. | ConsoleIsRight |
| `wsd/Admin.cpp:247` | While a file is expected every message is part of it, a deletion of a font too. | ConsoleIsRight |
| `wsd/Admin.cpp:823` | An empty file is opened before its size is refused: the next message is then written into it. | ConsoleIsRight |
| `loleaflet/src/core/Socket.js:166` | A message sent while the user is asked for a password opens the closed socket again: the load is refused a second time and a second prompt is put on the first. | OpeningAndClosingAreRight |
| `loleaflet/src/control/Permission.js:66` | The button to edit is hidden only on phones: one of an earlier connection lets a page edit that has become read-only. | OpeningAndClosingAreRight |
| `loleaflet/src/map/Map.js:862` | The page is complete when five things have happened, which come in any order; two of them never come to a page that joins others or loses its connection. | OpeningAndClosingAreRight |
| `loleaflet/src/core/Socket.js:236` | What waited for the connection must follow the request to load, and go once. | OpeningAndClosingAreRight |
| `loleaflet/src/core/Socket.js:656` | Cancelling the prompt to modify sets an empty password, which is not sent: the next load asks again, although the prompt says that Cancel opens the document in view-only mode. |  |
| `loleaflet/src/control/Control.Menubar.js:241` | The Ctrl of the hot key for the help is misspelt in the menu of texts: a typed question mark opens the help. | ButtonsAreRight |
| `loleaflet/src/control/Control.Menubar.js:550` | Languages and styles are appended with every answer, and a document edited as ODF asks twice. | ButtonsAreRight |
| `loleaflet/src/control/Control.Menubar.js:771` | Whether a header is switched off, and its text lost, is read from the mark of the moment the menu opened. | ButtonsAreRight |
| `loleaflet/src/control/Control.ContextMenu.js:97` | The context menu of one click is shown at the place of a later one. | ButtonsAreRight |
| `loleaflet/plugins/path-transform/src/Path.Transform.js:714` | A release of the button over the toolbar is not heard: the handle still follows, and pressed again it builds on a matrix that the final step forgets. | ShapesAreRight |
| `loleaflet/plugins/path-transform/src/Path.Transform.js:757` | With fixed proportions the handle of a side draws both axes scaled, and the command changes one (the other way round for a slanted shape). | ShapesAreRight |
| `loleaflet/plugins/path-transform/src/Path.Drag.js:162` | A piece of a pie has two listeners for its drag: leaving the piece ends it for the shape, which sends the command, and the document drags on. | ShapesAreRight |
| `loleaflet/plugins/path-transform/src/Path.Drag.js:181` | A pointer that jumps out of the reach leaves the piece short of the end that the command names. | ShapesAreRight |
| `loleaflet/plugins/path-transform/src/Path.Transform.js:290` | A rotation is read by rows for the handles and by columns for the outline: it is turned over in between, once for each. | ShapesAreRight |
| `loleaflet/uiconfig/dialogs/RemoveTable.js:39` | The dialog keeps the number of the sheet whose name it shows: sheets that others add or remove meanwhile make it another's. | SlidesAreRight |
| `loleaflet/src/layer/tile/CalcTileLayer.js:188` | Notes are kept by the number of their sheet, which nothing renumbers when a sheet before it comes or goes. | SlidesAreRight |
| `loleaflet/src/layer/tile/CalcTileLayer.js:177` | A status moves the view to another sheet without hiding the notes of the one before. | SlidesAreRight |
| `loleaflet/src/layer/tile/CalcTileLayer.js:465` | Positions of notes of a sheet without an entry throw before any note is shown. | SlidesAreRight |
| `loleaflet/src/layer/tile/CalcTileLayer.js:143` | A note that is begun on one sheet and saved on another is inserted in the other. | SlidesAreRight |
| `loleaflet/js/toolbar.js:200` | The place for a sheet at the end, and the tab that is scrolled into view, are counted in tabs, and hidden sheets have none. | SlidesAreRight |

## 10. Not modelled; the plan

Left out for good: file serving, authentication and templates (stateless
requests), the conversion service's HTTP side, the mobile and GTK wrappers, the
in-process sockets they use, the command-line tools; vendored libraries of the
browser (w2ui, mCustomScrollbar), generated tables (`unocommands.js`), the tables
of menus and tool bars, the drawing plugin, layout of the DOM and painting on
canvases (the picture of a dialog is drawn when its image is decoded, after the
message: the model draws it with the message).

Left for later, in this order:

1. proofs: the inductive invariant of the comments;
2. sessions that join and leave in `TileService`, view ids of sessions with
   different settings, the visible area; an abstract specification of what a
   client is shown;
3. `_isLoading` with several views and a failed load;
4. WOPI timestamps, conflicts and forced saves;
5. the remaining callbacks that `TileQueue::removeCallbackDuplicate` merges, and
   the other messages that `SenderQueue` replaces;
6. the shutdown of wsd, the brokers of the conversion service, the failure to
   create a session, the bandwidth statistics, `SocketPoll`'s wakeup pipe and the
   WebSocket close handshake.

