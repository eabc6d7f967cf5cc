--------------------------- MODULE DocumentBroker ---------------------------
(***************************************************************************)
(* The document broker of one document (wsd/DocumentBroker.cpp) and its    *)
(* client sessions (wsd/ClientSession.cpp).  All of it runs in the         *)
(* broker's polling thread, pollThread(): poll() runs the handlers of the  *)
(* sockets that have input and the callbacks other threads queued, one     *)
(* after the other, and the rest of the loop's body runs when it returns.  *)
(*                                                                         *)
(* phase "poll" is poll(): every handler below may run.  The body of the   *)
(* loop then runs in two steps, the saving decisions (to "tail") and the   *)
(* end-of-life decisions (back to "poll", or to "flush" if _stop is set).  *)
(* In "flush" the loop is over and poll() runs for about a second more.    *)
(***************************************************************************)
EXTENDS KitChannel

CONSTANTS AlwaysSaveOnExit, \* per_document.always_save_on_exit
          Commands,         \* the optional commands users and operators give
          Roles             \* what a session may be: a set of subsets of RoleNames

AllCommands == {"activity", "save", "savetostorage", "saveas", "setmodified",
                "close", "discard", "removesession", "shutdown"}
RoleNames == {"readonly", "owner"}

ASSUME AlwaysSaveAssumption == AlwaysSaveOnExit \in BOOLEAN
ASSUME CommandsAssumption == Commands \subseteq AllCommands
ASSUME RolesAssumption == Roles \subseteq SUBSET RoleNames

VARIABLES
    phase,          \* where pollThread() is
    stop,           \* _stop
    markToDestroy,  \* _markToDestroy
    closeRequest,   \* _closeRequest, or ShutdownRequestFlag
    isLoaded,       \* _isLoaded
    isModified,     \* _isModified
    saving,         \* isSaving(): _lastSaveResponseTime < _lastSaveRequestTime
    active,         \* _lastSaveRequestTime < _lastActivityTime
    changed,        \* _documentChangedInStorage
    store,          \* contents of the document in the storage
    sessions,       \* _sessions
    joined,         \* the ids handed out so far
    readOnly,       \* ClientSession::isReadOnly
    owner,          \* ClientSession::isDocumentOwner
    loadSent,       \* the session has asked for its view (_docURL is set)
    viewLoaded,     \* ClientSession::isViewLoaded
    closed,         \* ClientSession::isCloseFrame: the client is gone
    typed,          \* history: the edits users made
    owed            \* history: those made before the broker decided to stop

flagVars == <<stop, markToDestroy, closeRequest, isLoaded, isModified,
              saving, active, changed>>
sessionVars == <<sessions, joined, readOnly, owner, loadSent, viewLoaded, closed>>
historyVars == <<typed, owed>>
brokerVars == <<phase, flagVars, store, sessionVars, historyVars>>

Phases == {"start", "poll", "tail", "flush", "finished"}

BrokerTypeOK ==
    /\ phase \in Phases
    /\ stop \in BOOLEAN
    /\ markToDestroy \in BOOLEAN
    /\ closeRequest \in BOOLEAN
    /\ isLoaded \in BOOLEAN
    /\ isModified \in BOOLEAN
    /\ saving \in BOOLEAN
    /\ active \in BOOLEAN
    /\ changed \in BOOLEAN
    /\ store \in SUBSET Edits
    /\ sessions \in SUBSET Sessions
    /\ joined \in SUBSET Sessions
    /\ readOnly \in SUBSET Sessions
    /\ owner \in SUBSET Sessions
    /\ loadSent \in SUBSET Sessions
    /\ viewLoaded \in SUBSET Sessions
    /\ closed \in SUBSET Sessions
    /\ typed \in SUBSET Edits
    /\ owed \in SUBSET typed

\* The constructor sets _lastSaveRequestTime one timeout back: isSaving() is
\* true at first, but timed out, which is the same as false to the loop.
BrokerInit ==
    /\ phase = "start"
    /\ stop = FALSE
    /\ markToDestroy = FALSE
    /\ closeRequest = FALSE
    /\ isLoaded = FALSE
    /\ isModified = FALSE
    /\ saving = FALSE
    /\ active = FALSE
    /\ changed = FALSE
    /\ store = {}
    /\ sessions = {}
    /\ joined = {}
    /\ readOnly = {}
    /\ owner = {}
    /\ loadSent = {}
    /\ viewLoaded = {}
    /\ closed = {}
    /\ typed = {}
    /\ owed = {}

-----------------------------------------------------------------------------
(* Helpers.                                                                *)

Polling == phase \in {"poll", "flush"}

\* The client of session s is connected and the session is in _sessions.
Live(s) == s \in sessions /\ s \notin closed

isMarkedToDestroy == markToDestroy \/ stop

\* Mutant of PossiblyModified: activity since the last save is not considered.
KnownModified(act) == isModified

\* isPossiblyModified; act says whether there was activity since the last save
\* request.
PossiblyModified(act) == isModified \/ act

isPossiblyModified == PossiblyModified(active)

EditableView(s) == s \in viewLoaded /\ s \notin readOnly

\* Mutant of haveAnotherEditableSession: a read-only session counts.
haveAnotherView(s) == \E t \in sessions \ {s} : t \in viewLoaded

haveAnotherEditableSession(s) == \E t \in sessions \ {s} : EditableView(t)

\* autoSave saves through the first owner; without one through the last
\* session with an editable view; without one through the first session.
IsSavingSession(s) ==
    LET owners == sessions \cap owner
        editable == {t \in sessions : EditableView(t)}
    IN /\ s \in sessions
       /\ \/ s \in owners /\ \A t \in owners : s <= t
          \/ owners = {} /\ s \in editable /\ \A t \in editable : t <= s
          \/ owners \cup editable = {} /\ \A t \in sessions : s <= t

\* sendUnoSave.
SendUnoSave(s, skip) ==
    /\ s \in sessions
    /\ toKit' = Sent([t |-> "save", s |-> s, skip |-> skip])
    /\ fresh' = FALSE
    /\ saving' = TRUE
    /\ active' = FALSE

\* The early return of autoSave; alive is what ChildProcess::isAlive says.
NothingToAutoSave(force, alive) ==
    \/ sessions = {}
    \/ ~isLoaded
    \/ ~alive
    \/ ~isModified /\ ~force

\* autoSave finds something to save and sends the command.
AutoSaveSends(force, skip) ==
    /\ \E alive \in ChildSeenAlive : ~NothingToAutoSave(force, alive)
    /\ \E s \in sessions : IsSavingSession(s) /\ SendUnoSave(s, skip)

AutoSaveIdles(force) ==
    \E alive \in ChildSeenAlive : NothingToAutoSave(force, alive)

savingVars == <<toKit, fresh, saving, active>>

-----------------------------------------------------------------------------
(* Sessions come and go.                                                   *)

\* Mutant of RemoveSessionInternal: the kit is not told.
ForgetSession(s) == sessions' = sessions \ {s} /\ UNCHANGED toKit

\* removeSessionInternal: erase the session and tell the kit.
RemoveSessionInternal(s) ==
    /\ sessions' = sessions \ {s}
    /\ toKit' = IF s \in sessions
                THEN Sent([t |-> "disconnect", s |-> s]) ELSE toKit

\* A save sent for session s has not been answered.
SaveUnderWay(s) ==
    \/ \E i \in 1..Len(toKit) : toKit[i].t = "save" /\ toKit[i].s = s
    \/ \E i \in 1..Len(fromKit) : fromKit[i].t = "saved" /\ fromKit[i].s = s

\* removeSession: the last editable session is kept until its save is answered.
\* act says whether there was activity since the last save request.  The
\* history notes a session that is let go unsaved because of a session that is
\* itself only waiting to be removed ("ghost") or while its own save is not
\* answered ("orphan"), and the reasons in why.
RemoveSession(s, act, why) ==
    IF s \notin sessions
    THEN /\ active' = act
         /\ UNCHANGED <<markToDestroy, sessions, toKit, fresh, saving, excuses>>
    ELSE
      /\ markToDestroy' = (sessions = {s})
      /\ LET last == s \notin readOnly /\ ~haveAnotherEditableSession(s)
             ghost == /\ s \notin readOnly /\ ~last
                      /\ \E t \in sessions \ {s} : EditableView(t)
                      /\ \A t \in sessions \ {s} : EditableView(t) => t \in closed
             races == {r \in {"ghost", "orphan"} :
                         IF r = "ghost" THEN ghost ELSE SaveUnderWay(s)}
         IN \/ /\ last
               /\ AutoSaveSends(PossiblyModified(act), ~AlwaysSaveOnExit)
               /\ excuses' = excuses \cup why
               /\ UNCHANGED sessions
            \/ /\ last => AutoSaveIdles(PossiblyModified(act))
               /\ RemoveSessionInternal(s)
               /\ active' = act
               /\ excuses' = excuses \cup why \cup races
               /\ UNCHANGED <<fresh, saving>>

\* Mutant of Join: load() does not look at _markToDestroy.
JoinAnyway(s) ==
    /\ Polling
    /\ s \notin joined
    /\ joined' = joined \cup {s}
    /\ sessions' = sessions \cup {s}
    /\ toKit' = Sent([t |-> "session", s |-> s])
    /\ UNCHANGED <<phase, flagVars, store, readOnly, owner, loadSent, viewLoaded,
                   closed, historyVars, fromKit, kitAlive, jail, fresh, excuses>>

\* The callback that moves a new client into the broker: addSession, with a
\* load() that may refuse or throw.  A later load() may find the document
\* changed in storage.
Join(s) ==
    /\ Polling
    /\ s \notin joined
    /\ joined' = joined \cup {s}
    /\ \/ /\ ~markToDestroy
          /\ sessions' = sessions \cup {s}
          /\ toKit' = Sent([t |-> "session", s |-> s])
          /\ \E role \in Roles :
               /\ readOnly' = IF "readonly" \in role THEN readOnly \cup {s} ELSE readOnly
               /\ owner' = IF "owner" \in role THEN owner \cup {s} ELSE owner
          /\ \/ UNCHANGED changed
             \/ "conflict" \in Faults /\ joined # {} /\ changed' = TRUE
          /\ UNCHANGED <<markToDestroy, closed>>
       \/ /\ markToDestroy \/ "join" \in Faults
          /\ markToDestroy' = (markToDestroy \/ sessions = {})
          /\ closed' = closed \cup {s}
          /\ UNCHANGED <<sessions, toKit, readOnly, owner, changed>>
    /\ UNCHANGED <<phase, stop, closeRequest, isLoaded, isModified, saving, active,
                   store, loadSent, viewLoaded, historyVars,
                   fromKit, kitAlive, jail, fresh, excuses>>

\* ClientSession::onDisconnect.
Disconnect(s) ==
    /\ Polling
    /\ s \in joined \ closed
    /\ RemoveSession(s, active, {})
    /\ closed' = closed \cup {s}
    /\ UNCHANGED <<phase, stop, closeRequest, isLoaded, isModified, changed, store,
                   joined, readOnly, owner, loadSent, viewLoaded, historyVars,
                   fromKit, kitAlive, jail>>

-----------------------------------------------------------------------------
(* saveToStorage: the answer to a save, and the upload of the file.        *)

\* Mutant of Uploads: the file is read while it is being written.
UploadsPartly ==
    /\ store' \in SUBSET jail
    /\ isModified' = FALSE
    /\ fresh' = TRUE
    /\ changed' = FALSE

\* Mutant of Uploads: the flags are updated, but nothing is stored.
UploadsNothing ==
    /\ isModified' = FALSE
    /\ fresh' = TRUE
    /\ changed' = FALSE
    /\ UNCHANGED store

Uploads ==
    /\ store' = jail
    /\ isModified' = FALSE
    /\ fresh' = TRUE
    /\ changed' = FALSE

UploadFails ==
    /\ "upload" \in Faults
    /\ UNCHANGED <<store, isModified, fresh, changed>>

UploadFindsConflict ==
    /\ "conflict" \in Faults
    /\ changed' = TRUE
    /\ UNCHANGED <<store, isModified, fresh>>

\* saveToStorageInternal, for a session in _sessions: nothing is uploaded
\* after a failed or skipped save, unless forced, nor if the mtime is known.
SaveToStorageInternal(success, force, why) ==
    /\ saving' = FALSE
    /\ IF (success \/ force) /\ ~fresh
       THEN \/ Uploads /\ excuses' = excuses \cup why
            \/ UploadFails /\ excuses' = excuses \cup why \cup {"upload"}
            \/ UploadFindsConflict /\ excuses' = excuses \cup why \cup {"conflict"}
       ELSE /\ excuses' = excuses \cup why
            /\ UNCHANGED <<store, isModified, fresh, changed>>

\* The reason to note when _lastSaveResponseTime is set while a save is still
\* under way: in toKit, or with its result among the messages in answers.
Overlap(answers) ==
    {r \in {"overlap"} : \/ \E i \in 1..Len(toKit) : toKit[i].t = "save"
                         \/ \E i \in 1..Len(answers) : answers[i].t = "saved"}

\* The reason to note when the file is uploaded although the document, which
\* the broker knows to be modified, was not written to it first.
Outdated == {r \in {"outdated"} : isModified /\ ~fresh}

\* Mutant of SaveToStorage: the broker stops with the session that waited for
\* the save, whoever else is there.
SaveToStorageStopsAnyway(s, success, force, why) ==
    LET gone == markToDestroy \/ s \in closed
    IN /\ SaveToStorageInternal(success,
              force \/ (isMarkedToDestroy /\ AlwaysSaveOnExit), why)
       /\ IF gone THEN RemoveSessionInternal(s)
                  ELSE UNCHANGED <<sessions, toKit>>
       /\ stop' = (stop \/ gone)

\* saveToStorage: if the session was only waiting for this it is removed, and
\* the broker stops with its last session.
SaveToStorage(s, success, force, why) ==
    LET gone == markToDestroy \/ s \in closed
    IN /\ SaveToStorageInternal(success,
              force \/ (isMarkedToDestroy /\ AlwaysSaveOnExit), why)
       /\ IF gone THEN RemoveSessionInternal(s)
                  ELSE UNCHANGED <<sessions, toKit>>
       /\ stop' = (stop \/ markToDestroy \/ sessions' = {})

storageVars == <<saving, store, isModified, fresh, changed, excuses,
                 sessions, toKit, stop>>

-----------------------------------------------------------------------------
(* Commands of the clients: ClientSession::_handleInput.  A command that   *)
(* indicates user interaction updates _lastActivityTime first.             *)

\* Any other input of the user, also of one whose session was removed.
ClientActivity(s) ==
    /\ "activity" \in Commands
    /\ Polling
    /\ s \in joined \ closed
    /\ active' = TRUE
    /\ UNCHANGED <<phase, stop, markToDestroy, closeRequest, isLoaded, isModified,
                   saving, changed, store, sessionVars, historyVars, channelVars>>

ClientLoad(s) ==
    /\ Polling
    /\ Live(s) /\ s \notin loadSent
    /\ loadSent' = loadSent \cup {s}
    /\ toKit' = Sent([t |-> "load", s |-> s])
    /\ active' = TRUE
    /\ UNCHANGED <<phase, stop, markToDestroy, closeRequest, isLoaded, isModified,
                   saving, changed, store, sessions, joined, readOnly, owner,
                   viewLoaded, closed, historyVars,
                   fromKit, kitAlive, jail, fresh, excuses>>

\* Input that edits: filterMessage keeps it from read-only sessions.
ClientEdit(s, e) ==
    /\ Polling /\ RoomToKit
    /\ Live(s) /\ EditableView(s)
    /\ e \notin typed
    /\ typed' = typed \cup {e}
    /\ owed' = IF phase = "poll" /\ ~stop THEN owed \cup {e} ELSE owed
    /\ toKit' = Sent([t |-> "edit", s |-> s, e |-> e])
    /\ active' = TRUE
    /\ UNCHANGED <<phase, stop, markToDestroy, closeRequest, isLoaded, isModified,
                   saving, changed, store, sessionVars,
                   fromKit, kitAlive, jail, fresh, excuses>>

\* "save", which the client offers once its view is loaded.
ClientSave(s) ==
    /\ "save" \in Commands
    /\ Polling /\ RoomToKit
    /\ Live(s) /\ EditableView(s)
    /\ \E skip \in BOOLEAN : SendUnoSave(s, skip)
    /\ UNCHANGED <<phase, stop, markToDestroy, closeRequest, isLoaded, isModified,
                   changed, store, sessionVars, historyVars,
                   fromKit, kitAlive, jail, excuses>>

\* "savetostorage": the file in the jail is uploaded as it is.
ClientSaveToStorage(s) ==
    /\ "savetostorage" \in Commands
    /\ Polling
    /\ Live(s) /\ isLoaded
    /\ active' = TRUE
    /\ SaveToStorage(s, TRUE, TRUE, Overlap(fromKit) \cup Outdated)
    /\ UNCHANGED <<phase, markToDestroy, closeRequest, isLoaded,
                   joined, readOnly, owner, loadSent, viewLoaded, closed,
                   historyVars, fromKit, kitAlive, jail>>

\* "renamefile", and the kit's "saveas:" answer: saveAsToStorage.  Only the
\* time of the last response changes in the broker.
SaveAsToStorage(s) ==
    /\ "saveas" \in Commands
    /\ Polling
    /\ Live(s) /\ isLoaded
    /\ active' \in {active, TRUE}
    /\ saving' = FALSE
    /\ excuses' = excuses \cup Overlap(fromKit)
    /\ \/ UNCHANGED changed
       \/ "conflict" \in Faults /\ changed' = TRUE
    /\ UNCHANGED <<phase, stop, markToDestroy, closeRequest, isLoaded, isModified,
                   store, sessionVars, historyVars,
                   toKit, fromKit, kitAlive, jail, fresh>>

\* "setmodified".
ClientSetModified(s) ==
    /\ "setmodified" \in Commands
    /\ Polling
    /\ Live(s) /\ isLoaded
    /\ isModified' = TRUE
    /\ active' = TRUE
    /\ UNCHANGED <<phase, stop, markToDestroy, closeRequest, isLoaded, saving,
                   changed, store, sessionVars, historyVars, channelVars>>

\* "closedocument" of an owner and "versionrestore": closeDocument.
ClientClosesDocument(s) ==
    /\ "close" \in Commands
    /\ Polling
    /\ Live(s)
    /\ closeRequest' = TRUE
    /\ active' = TRUE
    /\ UNCHANGED <<phase, stop, markToDestroy, isLoaded, isModified, saving,
                   changed, store, sessionVars, historyVars, channelVars>>

\* "closedocument" of anybody while the document has changed in storage: the
\* user gives up the unsaved changes for all.
ClientDiscards(s) ==
    /\ "discard" \in Commands
    /\ Polling
    /\ Live(s) /\ changed
    /\ stop' = TRUE
    /\ active' = TRUE
    /\ excuses' = excuses \cup {"discard"}
    /\ UNCHANGED <<phase, markToDestroy, closeRequest, isLoaded, isModified, saving,
                   changed, store, sessionVars, historyVars,
                   toKit, fromKit, kitAlive, jail, fresh>>

\* "removesession": a client has session r removed, whoever that is.  To
\* remove the only session is to give up what it types from then on.
ClientRemovesSession(s, r) ==
    /\ "removesession" \in Commands
    /\ Polling
    /\ Live(s) /\ RoomToKit
    /\ RemoveSession(r, TRUE, IF sessions = {r} THEN {"discard"} ELSE {})
    /\ UNCHANGED <<phase, stop, closeRequest, isLoaded, isModified, changed, store,
                   joined, readOnly, owner, loadSent, viewLoaded, closed,
                   historyVars, fromKit, kitAlive, jail>>

-----------------------------------------------------------------------------
(* Messages of the kit: handleInput, forwardToClient and                   *)
(* ClientSession::handleKitToClientMessage.                                *)

ReceiveFromKit(type) ==
    /\ Polling
    /\ fromKit # <<>>
    /\ Head(fromKit).t = type
    /\ fromKit' = Tail(fromKit)

\* "status:": the view is loaded; a document made from a template is stored.
HandleStatus ==
    /\ ReceiveFromKit("status")
    /\ LET s == Head(fromKit).s IN
         IF s \in sessions
         THEN /\ viewLoaded' = viewLoaded \cup {s}
              /\ isLoaded' = TRUE
              /\ IF FromTemplate
                 THEN SaveToStorage(s, TRUE, FALSE, Overlap(fromKit) \cup Outdated)
                 ELSE UNCHANGED storageVars
         ELSE UNCHANGED <<viewLoaded, isLoaded, storageVars>>
    /\ UNCHANGED <<phase, markToDestroy, closeRequest, active,
                   joined, readOnly, owner, loadSent, closed,
                   historyVars, kitAlive, jail>>

\* "statechanged: .uno:ModifiedStatus=...", from any of the views.
HandleModifiedStatus ==
    /\ ReceiveFromKit("modified")
    /\ LET m == Head(fromKit) IN
         isModified' = IF m.to \cap sessions # {} THEN m.v ELSE isModified
    /\ UNCHANGED <<phase, stop, markToDestroy, closeRequest, isLoaded, saving, active,
                   changed, store, sessionVars, historyVars,
                   toKit, kitAlive, jail, fresh, excuses>>

\* "unocommandresult:" of .uno:Save: saveToStorage; dropped for a session
\* that is gone.
HandleSaveResult ==
    /\ ReceiveFromKit("saved")
    /\ LET m == Head(fromKit) IN
         IF m.s \in sessions
         THEN SaveToStorage(m.s, m.ok, FALSE, Overlap(Tail(fromKit)))
         ELSE UNCHANGED storageVars
    /\ UNCHANGED <<phase, markToDestroy, closeRequest, isLoaded, active,
                   joined, readOnly, owner, loadSent, viewLoaded, closed,
                   historyVars, kitAlive, jail>>

\* The kit's socket is closed: PrisonerRequestDispatcher::onDisconnect.
KitDisconnected ==
    /\ Polling
    /\ ~kitAlive
    /\ ~stop
    /\ stop' = TRUE
    /\ toKit' = <<>>
    /\ fromKit' = <<>>
    /\ UNCHANGED <<phase, markToDestroy, closeRequest, isLoaded, isModified, saving,
                   active, changed, store, sessionVars, historyVars,
                   kitAlive, jail, fresh, excuses>>

-----------------------------------------------------------------------------
(* pollThread().                                                           *)

\* getNewChild_Blocks returns a child, or none until the deadline.
GetChild ==
    /\ phase = "start"
    /\ phase' = "poll"
    /\ UNCHANGED <<flagVars, store, sessionVars, historyVars, channelVars>>

FailToGetChild ==
    /\ phase = "start"
    /\ "crash" \in Faults
    /\ phase' = "finished"
    /\ stop' = TRUE
    /\ kitAlive' = FALSE
    /\ UNCHANGED <<markToDestroy, closeRequest, isLoaded, isModified, saving, active,
                   changed, store, sessionVars, historyVars,
                   toKit, fromKit, jail, fresh, excuses>>

\* ShutdownRequestFlag: wsd is asked to recycle.
RequestShutdown ==
    /\ "shutdown" \in Commands
    /\ phase # "finished"
    /\ ~closeRequest
    /\ closeRequest' = TRUE
    /\ UNCHANGED <<phase, stop, markToDestroy, isLoaded, isModified, saving, active,
                   changed, store, sessionVars, historyVars, channelVars>>

bodyRest == <<markToDestroy, closeRequest, isLoaded, isModified, changed, store,
              sessionVars, historyVars, fromKit, jail>>

\* The loop goes on past a save that is not answered only after its timeout.
PastSaveTimeout ==
    \/ ~saving /\ UNCHANGED excuses
    \/ saving /\ "timeout" \in Faults /\ excuses' = excuses \cup {"timeout"}

\* The load deadline has passed: the kit is killed.
LoadTimedOut ==
    /\ phase = "poll"
    /\ ~isLoaded
    /\ stop' = TRUE
    /\ kitAlive' = FALSE
    /\ phase' = "flush"
    /\ UNCHANGED <<bodyRest, savingVars, excuses>>

\* A save is under way and its timeout has not passed: continue.
WaitForSave ==
    /\ phase = "poll"
    /\ saving
    /\ phase' = IF stop THEN "flush" ELSE "poll"
    /\ UNCHANGED <<bodyRest, stop, savingVars, kitAlive, excuses>>

\* Close or recycle: save, and stop once there is nothing left to save.
SaveAndClose ==
    /\ phase = "poll"
    /\ PastSaveTimeout
    /\ closeRequest
    /\ phase' = "tail"
    /\ \/ /\ RoomToKit
          /\ AutoSaveSends(isPossiblyModified, TRUE)
          /\ UNCHANGED stop
       \/ /\ AutoSaveIdles(isPossiblyModified)
          /\ stop' = TRUE
          /\ UNCHANGED savingVars
    /\ UNCHANGED <<bodyRest, kitAlive>>

\* Mutant of TimedAutoSave: nothing is saved while somebody is active.
AutoSaveWhenIdle ==
    /\ phase = "poll"
    /\ PastSaveTimeout
    /\ ~closeRequest /\ ~stop /\ ~active
    /\ RoomToKit
    /\ AutoSaveSends(FALSE, TRUE)
    /\ phase' = "tail"
    /\ UNCHANGED <<bodyRest, stop, kitAlive>>

\* The 30 second check: autosave if the document has been idle, or unsaved,
\* for long enough.
TimedAutoSave ==
    /\ phase = "poll"
    /\ PastSaveTimeout
    /\ ~closeRequest /\ ~stop
    /\ RoomToKit
    /\ AutoSaveSends(FALSE, TRUE)
    /\ phase' = "tail"
    /\ UNCHANGED <<bodyRest, stop, kitAlive>>

NothingToSave ==
    /\ phase = "poll"
    /\ PastSaveTimeout
    /\ ~closeRequest
    /\ phase' = "tail"
    /\ UNCHANGED <<bodyRest, stop, savingVars, kitAlive>>

LeaveTail == phase' = IF stop' THEN "flush" ELSE "poll"

\* Nobody was active for idle_timeout_secs (one hour): the kit has answered
\* all there was by then, but for a kit that takes longer than every timeout.
IdleTimePassed ==
    \/ /\ \A i \in 1..Len(toKit) : toKit[i].t = "save"
       /\ fromKit = <<>>
       /\ UNCHANGED excuses
    \/ "timeout" \in Faults /\ excuses' = excuses \cup {"timeout"}

CloseIdle ==
    /\ phase = "tail"
    /\ isLoaded
    /\ IdleTimePassed
    /\ \/ /\ RoomToKit
          /\ AutoSaveSends(isPossiblyModified, TRUE)
          /\ UNCHANGED stop
       \/ /\ AutoSaveIdles(isPossiblyModified)
          /\ stop' = TRUE
          /\ UNCHANGED savingVars
    /\ LeaveTail
    /\ UNCHANGED <<bodyRest, kitAlive>>

\* Mutant of Dead: a broker whose clients left before it was loaded lingers.
LoadedAndEmpty == sessions = {} /\ isLoaded

\* All sessions are gone.
Dead == sessions = {} /\ (isLoaded \/ markToDestroy)

CloseDead ==
    /\ phase = "tail"
    /\ Dead
    /\ stop' = TRUE
    /\ LeaveTail
    /\ UNCHANGED <<bodyRest, savingVars, kitAlive, excuses>>

Linger ==
    /\ phase = "tail"
    /\ ~Dead
    /\ UNCHANGED stop
    /\ LeaveTail
    /\ UNCHANGED <<bodyRest, savingVars, kitAlive, excuses>>

\* TerminationFlag ends the loop at once.
Terminate ==
    /\ "kill" \in Faults
    /\ phase = "poll"
    /\ phase' = "flush"
    /\ excuses' = excuses \cup {"kill"}
    /\ UNCHANGED <<flagVars, store, sessionVars, historyVars,
                   toKit, fromKit, kitAlive, jail, fresh>>

\* terminateChild, and the end of the thread.  shutdownClients removes the
\* sessions; what that still sends to the kit comes just before "exit", and no
\* answer is read any more.  The sessions left in the map die with the broker.
Finish ==
    /\ phase = "flush"
    /\ phase' = "finished"
    /\ stop' = TRUE
    /\ sessions' = {}
    /\ kitAlive' = FALSE
    /\ toKit' = <<>>
    /\ fromKit' = <<>>
    /\ UNCHANGED <<markToDestroy, closeRequest, isLoaded, isModified, saving, active,
                   changed, store, joined, readOnly, owner, loadSent, viewLoaded,
                   closed, historyVars, jail, fresh, excuses>>

BrokerBody ==
    \/ LoadTimedOut \/ WaitForSave \/ SaveAndClose \/ TimedAutoSave \/ NothingToSave
    \/ CloseIdle \/ CloseDead \/ Linger

HandleKit == HandleStatus \/ HandleModifiedStatus \/ HandleSaveResult \/ KitDisconnected

ClientCommand(s) ==
    \/ ClientActivity(s) \/ ClientLoad(s) \/ ClientSave(s) \/ ClientSaveToStorage(s)
    \/ SaveAsToStorage(s) \/ ClientSetModified(s) \/ ClientClosesDocument(s)
    \/ ClientDiscards(s)
    \/ \E e \in Edits : ClientEdit(s, e)
    \/ \E r \in Sessions : ClientRemovesSession(s, r)

BrokerNext ==
    \/ \E s \in Sessions : Join(s) \/ Disconnect(s) \/ ClientCommand(s)
    \/ HandleKit \/ BrokerBody \/ GetChild \/ FailToGetChild \/ RequestShutdown
    \/ Terminate \/ Finish
=============================================================================
